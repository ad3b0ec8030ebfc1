# A TLA+ model of cbox-init

cbox-init is the PID 1 of a container: it starts a set of configured processes
in dependency order, keeps them alive, watches their health, takes control
calls over an API, and stops everything in order when it is told to, or when
nothing is left to supervise. This directory holds TLA+ modules that model that
control logic, the TLC configurations that check them on small instances, and
TLAPS proofs of what matters most for instances of any size. `PROJECT.json`
lists components, runs, mutants, hazards and theorems, and maps every definition
to the source lines it models.

Paths below are relative to the repository (`src/` in `PROJECT.json`).

## 1. Inventory

| Component | State it keeps | Operations | Talks to |
|---|---|---|---|
| Restart policy (`internal/process/restart.go`) | none; budget, window and backoff settings | `ShouldRestart`, `BackoffDuration`, `resetRestartBudget` | called by every monitor |
| Supervisor (`supervisor.go`), one per process | `state`, `ctx`, `instances`, per instance its state, `allowRestart`, `restartCount`, OS process, monitor goroutine | `Start`, `Stop`, `ScaleUp`, `ScaleDown` under `operationMu`; `monitorInstance`, `attemptRestart`, `handleHealthStatus`, checkpoint operations without it | called by the manager; reports deaths to it |
| Process manager (`manager*.go`) | `processes`, `config`, `processDeathCh`, `allDeadCh` | `Start`, `Shutdown`, `StartProcess`, `StopProcess`, `RestartProcess`, `ScaleProcess`, `MonitorProcessHealth`, `AddProcess`, `RemoveProcess`, `UpdateProcess`, `ReloadConfig`, `SaveConfig` | supervisors, dependency graph, scheduler, hooks, readiness |
| Dependency graph (`internal/deps/graph.go`) | nodes, edges | `NewGraphFromConfig`, `Validate`, `HasCycle`, `TopologicalSort` | used by Start, Shutdown and reload |
| Main program (`cmd/cbox-init/serve.go`) | signal channel, startup context | startup watcher, main loop, exit code | manager, API server, watcher |
| Health checks (`healthcheck.go`) | thresholds, generation, paused, grace | probe loop, `Pause`, `Resume`, `Rearm` | one status channel to the supervisor |
| Warm tier (`internal/snapshot`, `manager_snapshot.go`) | proxy's `asleep`, coordinator's lock, failure count | checkpoint on idle, wake on connect, restore, fence | supervisor's checkpoint operations, an external control service |
| Scheduler (`internal/schedule`) | jobs with state, `executionMu`, history ring, cron entries | add, remove, pause, resume, trigger, execute | manager, API |
| Hooks (`internal/hooks`) | none | run with retries, timeout, `continue_on_error` | manager Start/Shutdown, `stopInstance` |
| Readiness (`internal/readiness`) | per-process states, the file | update, evaluate, write or remove the file | supervisors |
| Signals, reaper (`internal/signals`) | none | forward, reap zombies | `os/exec` waits |
| Configuration (`internal/config`) | none after loading | defaults, env substitution, validation | everything |
| Watcher (`internal/watcher`) | debounce timer | file change -> reload channel | main loop |
| Logging, logtail | ring buffers, multi-line assembly | write, flush, tail | instance output |
| API, CLI client, TUI | connections | one call each | manager |
| Metrics, tracing, audit | counters | observe | everything |
| Autotune (`internal/autotune`) | the engine's settings on disk | detect limits, size a PHP-FPM pool or a database engine, once per boot | environment of what is started |
| Setup, scaffold | none | run once | file system |

What is hard here:

* **Two kinds of actor, two kinds of lock.** Operations on a supervisor
  serialise on `operationMu`; the monitor goroutines that restart processes do
  not take it, sleep for seconds between a decision and its effect, and read
  `s.ctx` again afterwards. Everything that goes wrong in a supervisor goes
  wrong between those two.
* **Processes do not cooperate.** They exit at any moment, ignore SIGTERM, hang
  in uninterruptible sleep, fail to start.
* **Notifications are lossy.** `processDeathCh` has room for ten and drops the
  rest; the conclusion "everything is dead" is drawn by a scan that looks at
  one supervisor after another while they live on.
* **Half-finished sequences.** A startup that fails at the third process, a
  scale-up that fails at the second instance, a stop that times out and is
  retried, a signal in the middle of any of them.
* **A timeout races the answer.** `startSupervisor` gives up on a start whose
  goroutine is still on its way.
* **An operation whose outcome is unknown.** A dump or a restore that was asked
  for and not answered may still happen, long after the caller has gone.
* **Arithmetic at the edge.** The backoff is a 64-bit product of nanoseconds;
  worker counts and buffer pools mix integers, floats and three ceilings.
* **Results of an earlier life.** A probe result, a cron tick, a multiline timer
  or a job's execution may arrive after what it was about has been replaced.
* **Absent, zero and false.** A configuration passes through a file, the
  environment, defaults, the API and a file again, and each of them tells
  "not set" from "set to nothing" differently.

What makes each part correct is stated as the properties of section 3; the
list of hazards, each at its line and with the properties that would notice it,
is in `PROJECT.json`.

## 2. Modules

### RestartPolicy, CrashLoop

`RestartPolicy` translates `restart.go`. A `time.Duration` is the set of its 1
bits in a 64-bit word, so that the multiplication by `1 << n` loses bits as the
machine does, and the signed comparison with the ceiling sees what the code
sees. `CrashLoop` is one instance slot that keeps exiting: `Exit` is the
bookkeeping of `monitorInstance` (stability window, policy, budget, delay),
`Restart` is the replacement of `attemptRestart` that carries the count on. The
defaulting of unset and negative settings (`types.go`, `NewSupervisor`) is part
of it. `streak` is a history variable: restarts since the last stable run.

### Supervisor

One supervisor with its instance objects. The variables are the fields of the
Go struct, plus program counters: `op` is the operation that holds
`operationMu` and how far it is, `inst[o].mon` the monitor goroutine of an
instance, `inst[o].stop` a running `stopInstance`. An object is a number that is
never reused, like the pointers in `s.instances`; `child` is the local variable
`newInstance` of `attemptRestart`.

Which steps are atomic follows from the locks. `Start` holds `s.mu` from end to
end and every monitor needs `s.mu` before it can do anything, so it is one step
(`StartOK`, or `StartFails` after k instances, or `StartNoop`). `ScaleUp` starts
instances one by one without the lock and lists them together (`ScaleUpBegin`,
`Start`, `Fails`, `Abort`, `Commit`); `Stop` and `ScaleDown` stop a copy of the
list in parallel goroutines (`StopBegin`, `StopDrain`, `StopEnd`,
`ScaleDownBegin`, `ScaleDownEnd`, and the steps of `stopInstance` per victim:
claim, grace, kill signal, escalation to SIGKILL, giving up). A monitor goes
from `wait` through `RecordExit`, `Decide` (or `handleOneshotExit`), the backoff,
`ReplacementStarts`, `CountRestart` and `Adopt`, or through
`checkAllInstancesDead` in two steps, because that function looks under the lock
and acts after it. A cancelled, a nil and a replaced `s.ctx` are told apart,
since the monitor that wakes up from a backoff meets each of them.

### DependencyGraph, DependencyOrder

`DependencyGraph` defines what the graph of a configuration is (for each node the
set of its dependencies, disabled ones dropped, absent ones kept for `Validate`
to report), what a cycle is, and what the order is: again and again the first
name whose dependencies are all placed. `DependencyOrder` is the algorithm
itself: the depth-first search with its recursion stack, started from the nodes
in any order because Go ranges over a map, then Kahn's algorithm with in-degrees
and a sorted queue. A node's list, freed of repetitions by `NewGraphFromConfig`,
is the set of its entries: the search may look at them in any order, which
includes the list's, and the in-degree (`Degree`) is how many there are. Process
names are numbers, ordered like the names.

### Manager

The container from boot to exit. `main` follows `serve.go` through
`Manager.Start` (pre-start hooks, graph, wait for each dependency, register,
launch), the main loop, `Manager.Shutdown` level by level, and the exit code.
Start and Shutdown hold `m.mu` throughout, which is why API calls and the death
scan are enabled only in between (`ApiOpen`, and `EnterShutdown` waits for a
scan). `call` and `pending` separate `startSupervisor`, which waits with a
timeout, from the goroutine that runs `sup.Start` and may get `operationMu`
(`busy`) only after the caller has given up and stopped the supervisor again.
`notifying`, `deaths`, `scan` and `allDead` are the monitors on their way to
`checkAllInstancesDead`, the bounded channel, the scan, and `allDeadCh`.

A supervisor appears in `Manager` as its interface, one instance that is `up`,
in `backoff`, `over`, `lost` (exited while being stopped) or `stuck` (survived
its SIGKILL), because its inside is module `Supervisor`'s subject: in
particular that `Stop` ends (`OperationsEnd`) and that a successful `Stop` means
the process is gone (`StopIsTruthful`), which `Manager` builds on.

A control call that was admitted before `Shutdown` took the lock can start a
process that `Shutdown` has already stopped: the source has no guard against
that. The history variable `late` records such processes and the shutdown
properties exempt exactly them.

### WarmTier

The checkpoint-and-restore tier, from `startWarmTier` being done: one supervised
workload behind the proxy. `conn` is the handler of a connection (`handle`, or
`handleObservation` for the monitoring port), `waker` the goroutine that `wake`
starts for it and which lives on when its client has given up, `sleep` the
program counter of `Coordinator.sleep`, `lock` its `opMu`. `inst` holds the
instance objects of the supervisor with their process tree, their
`monitorInstance`, the `monitorRestored` goroutines that poll a restored tree,
and the restarts in progress. `Open` is what `Activity.Counts` counts.

The atomic steps are those the locks give: one per critical section of
`Proxy.mu`, `Activity.mu` and `instance.mu`. Every place where the coordinator
looks at the flag, at the counts, or at the supervisor is a step of its own.
`AbortCheckpoint` includes `penalise`, which touches nothing the handlers read.

The node agent is external and modelled from how `client.go` uses it: it holds
at most one request, carries it out or refuses it at any time after it was sent,
may lose the images, may never answer. A silent agent shows as
`fenceUncertain`, the step that ends PID 1 and with it every process of the
container. Control calls of the management API are not in the module. The
history variable `overtaken` records that a restore was finished before the
monitor of the dumped process had recorded the dump (its output drain can take
that long); the source does not guard against it, and `OneTree`,
`RestIsConsistent` and `DumpIsNoDeath` exempt exactly those behaviours. That the
probes' half of `RestIsConsistent` needs the exception too came out of its proof,
not of the run: with three instance objects, an instance that was overtaken is
restarted twice, and the second replacement takes the place of one whose dump
has paused the probes; the abort then finds another instance listed. Two objects
are not enough to get there, so the run alone would not have shown it.

### AbstractJob, Schedule

`AbstractJob` is what the comments of `internal/schedule` promise of a job: idle,
executing or paused, four edges, one run at a time, and each run with one history
entry that is closed once and before the next is opened. `Schedule` is the code,
for one process name: `AddJobWithOptions` in the two halves that its locks leave,
removal, start and stop of the scheduler, pause and resume, and the executions.
An execution (`exec`) is a goroutine in `executeSync`; a tick, `Trigger` and
`TriggerSync` start one, and it goes through `Begin` or `Skip`, the command,
`Leave` (the state) and `Close` (the history entry), because state and history
have separate locks. A job object survives its removal as long as something runs
in it, so there are several objects of the one name. The executor's table of
configurations is shared by them (`config`). A panic in a callback is recovered
on cron's goroutine and in `TriggerSync`, and ends PID 1 on `Trigger`'s
(`crashed`). `KeepsPromise` is the refinement: each object implements
`AbstractJob`, with the open runs read off the history ring.

### Health

The monitor's goroutine (`probe`, `mon`), the channel of capacity one, the
handler in the supervisor, the readiness channels of a run and one
`WaitForReadiness`. Generations are modelled by what they decide: a result under
way is valid until something invalidates it. Probes are an `answers` that may
change at any time; intervals, grace and the throttled start are untimed.
Restarts, stops, starts and a checkpoint's pause are the environment's moves, in
the steps their locks give. Of the history variables, `against` counts the
failures since the monitor was last reset, and `proven` says whose success the
run may be ready by. `attemptRestart` makes new readiness signals but does not
re-arm the monitor (only the health kill does, supervisor.go:2394), so a success
of the crashed process that is still in the monitor, in the channel or in the
handler's hands is accepted and closes the replacement's signal, even during the
backoff. A cold start in place of a checkpointed process keeps its signals.
`NoStaleRelease` accounts for exactly these (`proven = "inherited"`) and excludes
every other release; `ReleaseIsProven` of section 5 is the stricter promise of
the comments.

### Reload

`manager_config.go`. An operation holds `m.mu` from end to end, so one is under
way (`op`), but each stop and start inside it is a step that may fail: the old
definition may refuse to die, the new one not start, the wait for a dependency
time out, a registration with the scheduler be rejected. `ReloadConfig` computes
removed, changed and added names, stops in reverse dependency order, swaps,
starts in dependency order, and on a failure rolls back (`RollbackStops`,
`RollbackRestores`, `RollbackStarts`; there a job is registered without waiting
for its dependencies). What a loop still has to go through is a set, and its next
member is the first one in the order of the configuration in force (`StopsNext`,
`StartsNext`). A new supervisor is an object nothing refers to and that runs
nothing (`newConfiguredSupervisor`). Control calls take a supervisor from the
map, release the lock and act later, also on one that has been dropped. A start
that `startSupervisor` gives up on is stopped, but its goroutine may get to
`operationMu` only after that stop: such starts are counted in `late` and run at
any later moment (`LateStart`), when the operation, or the rollback that dropped
the entry, has long ended. The module uses `DependencyGraph` for both orders. History variables name what an
operation itself gave up on: `lost` (a supervisor no entry holds, left alive or
come to life behind the entry), `stray` (a
name whose old process a rollback could not stop), `down` (a name an error
reported as not restored).

### Readiness

The monitor's pass reads one supervisor after another, first the state, then the
health, and pushes each to the readiness manager, which evaluates everything
anew and reconciles the file. Writes and removals may fail, others may delete
the file, and `Stop` comes at any point of a pass.

### ConfigLoad

A load in the code's stages: read and expand, apply the process overrides one by
one, the foremost of those left first, the hook overrides, decode, defaults, both
validators. What YAML leaves in a map is kept apart from the decoded struct,
since absent, null, zero and false differ in one and not in the other; `Kind`
gives each field its Go type (pointer, bool, int, string, list, map, section).
Names and the segments of a variable are sequences of words, which is what makes
`DB_HEALTH_CHECK_USER` ambiguous. `${VAR}` references are to one variable and
the whole text of a field, in the file or in what the API sends; `ExpandEnv`
replaces them in the file by the variable's text, or by a key without a value.
`SaveConfig` looks for them in the file on disk (`HasEnvReferences`) and writes
the configuration in memory as it is. `EditFile`, `AddProcess` and `SaveConfig`
change what the next load finds. A family of sections that differ in names only
(TLS, tracing, metrics) is represented by some of its fields.

### Output

One instance's two pipes, their copiers and writers, the multiline timer, the
monitor that drains and flushes, the rings, and a subscriber. Text is a sequence
of fragments and newlines; a pattern is the set of kinds it matches, a JSON
object a function from keys. Whoever has a writer's mutex decides which entries
leave (`todo`) and processes them one after another: redaction, JSON, level,
filters, ring, broadcast. A fired timer waits for the mutex like everyone else
and may be stale when it gets it. A process of the warm tier has no `outputPipe`
but a `snapshot.Stream`, whose write end cbox-init keeps (`config.snapshot`): its
copier never ends and never flushes, and the monitor has nothing to drain.
`handled`, `added` and `written` are history.

### Autotune

The limits of the container from cgroup v2, v1 or the host; the sizing of a pool
for a profile; the settings of a database engine; and the boot that applies them.
Memory is in MB (KB where a cgroup gives it), ratios are percentages. A product
of an integer and a float that should be an integer may be truncated or rounded
to either side of it, unless the fraction is binary (`Truncated`, `Ceiled`).
`Resize` starts the container again with another limit, its disk kept.
`AutotuneAssumption` gives the types, and says of profiles other programs
register what the built-in ones satisfy: a minimum of at least one worker, and
ratios up to one (without the first, a pool of one that does not fit would start
without its warning; without the second, `validateConfig` refuses the pool).

## 3. Runs

| Run | Instance | Shows |
|---|---|---|
| `crash_loop` | every policy; budgets -1, 0 (defaulted to 3), 1, 50; initial and ceiling unset, negative, 1 s, 5 s, 60 s; window on and off; 66 restarts deep (15,315 states) | `BackoffIsBounded`: the delay is min(initial * 2^n, max) as long as the product fits, and never above the ceiling; `BudgetIsExact`: a service is neither restarted too often nor given up too early |
| `supervisor` | three instance objects, scale up to 2, one restart; an always-restarted service, a never-restarted one with a trappable kill signal, a oneshot (528,270 states) | `StopIsTruthful`, `ClaimedNeverRestarts`, `LiveLooksLive`, `NoOrphansWithoutRestarts`, and the liveness property `OperationsEnd` |
| `dependency_order` | three processes with every list of up to two entries over four names, one of them absent, one possibly disabled; every graph over four processes (252,880 states) | `DependenciesFirst`; `ResultIsDetermined`: a cycle reported is one, and the order is the one the definition gives |
| `manager` | three processes in three configurations, death channel of capacity 1, at most one control call, a signal at any moment (531,505 states) | `StartsAfterDependencies`, `DependentsStopFirst`, `ExitIsRight` (nothing left behind, no failure hidden), and the liveness properties `SignalIsObeyed` and `NoEmptyShell` |
| `warm_tier` | two slots, each a client or an observer again and again; two instance objects, one restore, one failed dump allowed; sleeps from the idle loop (269,575 states) | `NoTrafficIntoDump`, `OneTree`, `RestIsConsistent` (proxy, processes and probes agree at rest), and the liveness property `NobodyWaits` |
| `schedule` | two job objects and three executions of one name, at most four of them together, history of 1, with and without a timeout (539,990 states) | `KeepsPromise` (implements `AbstractJob`), `StatusIsTruthful`, and the liveness property `StopDrains` |
| `health` | thresholds 2 and 1, one restart; a check that gates both after a warmup, one for readiness only, one of a process that is never restarted (600,754 states) | `KillIsEarned`, `NoStaleRelease`, and the liveness property `ProbesAct` |
| `reload` | two names, six definitions (running, changed, dependent, stopped, scheduled, disabled), six configurations, three operations, two faults (2,599,958 states) | `Agreement`, `OrphansExplained`, `DependentsStopFirst` |
| `readiness` | a probed service and a oneshot, both modes, three changes of the processes, two faults of the file system (746,400 states) | `FileNeverLies` and the liveness property `StateIsReported` |
| `config_load` | 74 files, 15 environments, four definitions sent over the API, two loads, two changes (1,501,473 states) | `AcceptedBoots`, `OverridesLand`, `SaveKeepsMeaning` |
| `output` | stdout and stderr with up to three tokens, three logging configurations and the streams of the warm tier, ring of 2, channel of 1 (156,130 states) | `Conservation`, `CrashOutputLogged`, `LogIsReadable`, and the liveness property `LineIsLogged` |
| `autotune` | every MB up to 520 and the steps above, three CPU quotas, hosts without limits, 36 requests, two boots (740,200 states) | `PoolFits`, `RefusedForCause`, `EngineFits`, `WorkersGrow` |

Why the bounds are enough. `CrashLoop` passes the point (n = 62) where the shift
is clamped and the one where the product overflows, so deeper runs repeat what
was seen. In `Supervisor` the interesting races are between one operation and
the monitor of one instance, with a second instance to make "all dead" and
"first with the same id" nontrivial, and a third object for the replacement;
every step of every operation and monitor is taken, and the properties that are
also proved hold for any number. The objects bound stops the creation of
instances, not any other step. In `Manager` three processes are the shortest
chain with a middle, the queue of capacity 1 makes notifications drop, and the
three configurations cover each kind of process, a disabled one, one that starts
stopped and a scheduled one. In `WarmTier` the races are between one sleep and
two connections, one that is being served or woken and one that arrives; two
objects are the dumped process and its cold or restarted successor, and after
one restore the process is already of the polled kind that a second dump meets.
With one failure allowed the tier is disabled at once, which is the last of the
source's three. In `Schedule` one execution runs, one waits for the mutex and a
third arrives, or two objects of a name overlap; a history of one entry is the
one that a second run would push out. In `Health` a threshold of 2 makes the
count matter, and every status meets a reset before it is sent, in the channel
and in the handler. In `Reload` three operations are a failed one, one on top of
what it left, and a reload that has to roll back; two faults fail a start and
then its stop, or the restart of the old definition, or give up on two starts
that both go on. Two processes carry
`Readiness`: one changes while the pass is at the other. In `ConfigLoad` each
file differs from a plain one in what one check, default or conversion looks at,
so that a violation has one cause; two loads with a change between them are a
round trip. In `Output` three tokens are a line, a partial line and what
completes it, and buffers of one or two overflow with them. `Autotune` visits
every limit at which a formula can change, one MB at a time where profiles begin
to fit. Uptimes, grace periods and timeouts are untimed everywhere: a timer that
is armed may fire at any moment, which includes every real timing.

Fairness. `Supervisor`: weak fairness of the operation in progress and its
`stopInstance` goroutines, i.e. Go schedules them and their timers fire; nothing
is assumed of monitors, nor that a process ever exits. `Manager`: weak fairness
of the main goroutine, of calls in progress and of the death scan; nothing is
assumed of processes, API clients or signals. That a `Stop` in `Manager` ends is
what `OperationsEnd` shows. `WarmTier`: weak fairness of the handler and the
`Wake` goroutine of each connection (one formula, because at each moment one of
them has the next step or the deadline has), and of the sleep in progress
together with the deadline of an unanswered request; nothing is assumed of the
agent, the workload, its monitors, or how long a client stays. `Schedule`: the
steps of an execution, with the end of the command only where a timeout or a
cancelled context kills it; a command without either may run for ever, and
`StopDrains` says so. `Health`: the monitor, the handler and the clock.
`Readiness`: the pass and its ticks. `Output`: as long as a stream has work some
of it is done; the mutex is not assumed to be fair between copier, timer and
monitor, and processes, descendants and clients owe nothing. No liveness
property without fairness, and no fairness for what the program does not control.

`CHECK_DEADLOCK FALSE` stands where the modelled part really ends or the bounds
use up the environment's moves: `CrashLoop` (abandoned), `DependencyOrder` (a
result), `Schedule` (PID 1 is gone), `Reload` (no operations left), `Readiness`
(stopped), `ConfigLoad` (refused, or no changes left), `Output` (the instance has
exited and its output is out) and `Autotune` (up, or refused, at the last boot).

Every property of a run has a mutant in `PROJECT.json`: a definition changed the
way a plausible bug would change the code, under which TLC finds the property
violated. The mutants are defined in the modules, next to what they mutate, and
nothing else uses them. A property that is a conjunction has its parts defined,
and explained, just above it.

## 4. Proofs

Each `...Proofs` module extends the module it is about and proves its theorems
for every value of the constants that satisfies the module's `ASSUME`; those
assumptions are types, the finiteness of the sets of processes, jobs and
executions, that a reload is given configurations that validate, and the remark
on profiles above. The bounds of the runs (`MaxObj`, `CountBound`, `MaxFaults`,
...) are arbitrary numbers in the proofs.

Some modules share a proof module, which extends all it is about:
`SupervisorProofs` also proves about `CrashLoop`, `DependencyProofs` about
`DependencyOrder`, `BootProofs` about `Autotune` and `ConfigLoad`, and
`InstanceProofs` about the three that watch a running instance, `Health`,
`Readiness` and `Output`. That is why their specifications have names of their own
(`LoopSpec`, `SortSpec`, `LoadSpec`, `ReadinessSpec`, `OutputSpec`) and their
variables differ from those of the other modules. `ManagerProofs` and
`ReloadProofs` extend `DependencyProofs` for the facts about the order; the
constant `Tables` of `DependencyOrder` plays no part in what they prove.

| Module | Theorem | States |
|---|---|---|
| `SupervisorProofs` | `TypeCorrect`, `StopTruthful`, `ClaimFinal`, `LiveIsVisible`, `NoOrphan` | `TypeOK`, `StopIsTruthful`, `ClaimedNeverRestarts`, `LiveLooksLive`, `NoOrphansWithoutRestarts` |
| | `BackoffBounded`, `BudgetExact` | of `CrashLoop`: `BackoffIsBounded`, `BudgetIsExact` (an action property) |
| `InstanceProofs` | `KillEarned`, `ReleaseCurrent` | of `Health`: `KillIsEarned`, `NoStaleRelease` (action properties) |
| | `FileTruthful` | of `Readiness`: `FileNeverLies` |
| | `NothingIsLost`, `LastWordsAreLogged`, `LogStaysReadable` | of `Output`: `Conservation`, `CrashOutputLogged`, `LogIsReadable` |
| `DependencyProofs` | `SortOrdersDependencies` | what the order that `DependencyGraph` defines is |
| | `PlacedAfterDependencies`, `OrderIsFunctional` | of `DependencyOrder`: `DependenciesFirst`, `ResultIsDetermined` |
| `ScheduleProofs` | `StatusTruthful`, `Refinement` | `StatusIsTruthful`, `KeepsPromise` (implements `AbstractJob`) |
| `WarmTierProofs` | `OneTreeOnly`, `AsleepStopped`, `NoTraffic`, `RestConsistent` | `OneTree`, `AsleepIsStopped`, `NoTrafficIntoDump`, `RestIsConsistent` |
| `ManagerProofs` | `DependenciesReady`, `DependentsFirst`, `ExitRight` | `StartsAfterDependencies`, `DependentsStopFirst`, `ExitIsRight` |
| `ReloadProofs` | `TypeCorrect`, `OrphansAreExplained`, `ManagerAgrees`, `ReloadStopsDependentsFirst` | `TypeOK`, `OrphansExplained`, `Agreement`, `DependentsStopFirst` (an action property) |
| `BootProofs` | `EveryPoolFits`, `RefusalsCaused`, `EveryEngineFits`, `MoreMemoryMoreWorkers` | of `Autotune`: `PoolFits`, `RefusedForCause`, `EngineFits`, `WorkersGrow` |
| | `AcceptedConfigBoots`, `SavingKeepsMeaning` | of `ConfigLoad`: `AcceptedBoots`, `SaveKeepsMeaning` (action properties) |

Every module has an inductive invariant (`IInv`; `LoopInv`, `ReadyInv` and
`KahnInv` for the three small ones, `Pipeline` and `Readable` for `Output`,
`LoadInv` and `SaveInv` for `ConfigLoad`),
proved with one step or lemma per action. What the invariants add to the
properties, and why it is needed:

* **Supervisor.** `IInv /\ CutInside` with `IInv == TypeOK /\ InstancesSound /\
  ListsKnown`. `InstancesSound` says what the fields of one instance imply of
  each other (a process is alive exactly while its monitor waits; the recorded
  state says running or stopping exactly until the monitor has recorded the
  exit; an instance a stop has claimed may not be restarted and its monitor is
  not on the way to a replacement; a monitor past `ReplacementStarts` has a child
  that exists), `ListsKnown` that the list, the victims and the scale-up's
  additions hold only objects that were created, and `CutInside` that a
  scale-down cuts inside the list. `StopIsTruthful` needs to know that
  `stopInstance` can find `running` or `stopping` only while the monitor has not
  yet recorded the exit, and that "the monitor no longer waits" implies "the
  process is gone". For `NoOrphan`, `OrphanInv` accounts for the live instances
  through every operation: what `Stop` and `ScaleDown` take out of the list are
  victims whose stop has finished, and a finished stop stays finished.
* **CrashLoop.** `BudgetInv` relates the count to the streak of restarts since
  the last stable run; `DelayInv` says that the delay is what `calculateBackoff`
  gives for the count at hand. The rest is about 64-bit words: as long as no bit
  is shifted out, the shift is the product, and a negative word is not above a
  ceiling.
* **Readiness.** From the moment the manager has started, and not only the
  monitor: the file is there only while `/readyz` says ready, or could not be
  removed. A stopped manager touches nothing, which is what a pass that is still
  under way after `Stop` needs.
* **Health.** `EarnedInv`: a status that may condemn the process, in the probe,
  in the channel or half way through the handler, is either invalid by now or
  backed by as many failures since the last reset as the threshold. `WaiterInv`
  does the same for the waiter that has seen a signal, and `ProvenInv` for
  successes: a closed signal, and a success anywhere on its way, is one that
  `proven` accounts for.
* **Schedule.** `OneRun`: each job object is either quiet (all its history
  entries have ended and it does not execute) or taken by exactly one execution,
  whose run is its one open entry, and which is past `Leave` exactly when the
  state is no longer `executing`. The refinement follows step by step: `Begin`
  opens, `Close` closes, `Leave`, pause and resume change the state, everything
  else, the eviction of an old entry from the ring included, stutters.
* **WarmTier.** While nothing is fenced: who holds `opMu` is where it says it is
  (`Locks`); a request or an answer is under way only while someone waits for it
  (`Channel`); each instance object is in a state its monitors explain, and an
  object that is not listed has nothing running and nothing that would restart
  it; for each step of a sleep and of a wake, what the listed instance, the image
  and the flag are. `NoTraffic` and `RestConsistent` have a second invariant,
  `FlagInv`, that ties the proxy's flag to the sleep, and the hypothesis
  `TRUE \notin Requested`: a sleep requested over the API can lose its mark,
  which is one of the disagreements below and also the setting of the run.
  `AsleepStopped` and `OneTreeOnly` hold for requested sleeps too.
* **Manager.** `Booted` (what is registered was ordered by the graph and has its
  dependencies ready; calls and pending starts are about registered processes),
  `Remembered` (what the readiness channels once said), `Starting` (how far
  `Manager.Start` is: everything before the head of the order has been ready, and
  so have the dependencies it has waited for), `Recorded` (a process that has run
  and is not running has left an exit code), `Stopping` (what `Shutdown` is done
  with does not run, refused, or was started behind its back; nothing in a level
  is needed by what is not yet stopped).
* **DependencyGraph, DependencyOrder.** `SortOrdersDependencies` is about
  `TopologicalSort` alone: for any finite graph without a cycle the sort exists,
  because a set of unplaced nodes in which each waits for another would be a
  cycle, and it places each node once and after its dependencies. That the code
  computes this order is `KahnInv`: the recursion stack is a path of the graph
  (`PathInv`), so a dependency met on it closes a cycle; the result is a prefix
  of the one order (`PrefixInv`); an in-degree is the number of dependencies not
  yet placed, and the queue holds the nodes that wait for nothing (`CountInv`),
  so what the queue has first is what comes next in the order; and when the queue
  runs dry early the unplaced nodes are a cycle (`EndInv`). The list that a
  cycle search walks and the counts Kahn's loop walks are thus never compared:
  each is tied to the graph. `CountInv` is also where a repeated entry of
  `depends_on` would show, for the decrement is one per node.
* **Reload.** `IInv == Bounds /\ OpType /\ World /\ Books`. `World` says who lives
  and where it is registered: an entry holds a supervisor of its own name, and a
  live one without an entry has been given up on. A start that went on may bring
  any object up at any time: it does so under the object's entry, or the object
  joins `lost`, and a new supervisor is never one with such a start pending
  (`Free`). It needs the registration to be
  by name because `stray` excuses names, and the objects that a replacement drops
  are known only by what they are called. `Books` says, for each stage of an
  operation, what configuration, entries and jobs agree on: what the operation
  does not touch is in order with respect to the configuration it began with
  (`OthersInv`); what it still has to stop is as it was, what it has stopped has
  neither entry nor job unless it was reported (`StopInv`, `RbStopInv`); what it
  still has to start has neither, what it has started is as the configuration
  going into force says (`StartInv`, `RbStartInv`); and for an edit of one name,
  how far that name is (`SingleInv`). Agreement when the lock is free is what
  each last step leaves. It is not inductive by itself since a reload spoils it
  and a rollback, from any point, has to find it again. One more conjunct came
  out of the proof: a name that is down is one whose definition is enabled
  (`DownInv`), without which a disabled name could keep an excuse it does not
  need. For `DependentsStopFirst`: the shutdown order is the reversed startup
  order, which `SortOrdersDependencies` describes, so a process that is stopped
  next has no dependent left among those still to be stopped, and those no longer
  to be stopped have no entry.
* **Output.** `Pipeline` is about one writer (`StreamInv`): its mutex is held
  exactly while entries are queued, and of those only the first may be in the ring
  already; what was handled followed by what waits in the scanner, the buffer and
  the queue is the text that was read, in order; the pipe holds the rest of what
  was written; a copier that no longer copies has seen the end and flushed;
  what a writer still holds after the monitor's flush was read after it; and a
  monitor that did not time out found both copiers done (`Drained`).
  `Conservation` and `CrashOutputLogged` follow. `Readable` is about the readers:
  a ring holds the last entries added, each at the slot its number gives
  (`Logged`); times are distinct over all streams and increase within one
  (`TimesDiffer`); the entry being broadcast is the last one added, and a
  subscriber was sent a subsequence of what it was owed (`Follows`).
  `LogIsReadable` then asks for two facts about operators: `NewestFirst` does
  order distinct times (ranks are distinct and fill 1..n, by counting), and the
  newest k entries of each stream contain the newest k of all. Where a fact is
  about sequences of any length, the induction is done by hand: the least length
  at which it fails (`LeastNat`) is neither zero nor a successor. That the
  recursive function within `Lines` exists is shown the same way (`RunExists`).
* **Autotune.** `IInv` adds that the pool at hand and the pool of the boot before
  are what `sizeWorkers` gives for their limits, CPUs and some outcome of the
  float product. Most of the module is arithmetic: n workers fit exactly if n is
  at most `hardMax`; a higher limit never has a lower budget although the
  products may fall on either side of an integer; the multiple of chunk times
  instances that Percona rounds to stays within the budget for any number of
  CPUs.

* **ConfigLoad.** `LoadInv` gives each stage of a load its shape: bodies whose
  values are what their tags say and whose nested fields have their section
  (`Written`), structs with numbers, booleans and nothing in an absent section
  (`Built`), and after the defaults no field left zero that has a default
  (`Full`). The file and the configuration in force keep theirs, since the file
  may be one that was saved and the configuration one that was added to. With it
  the validators decide `AcceptedBoots`: a period that is not negative is
  positive because zero was filled in; the deadline is a maximum, which a finite
  set of numbers has (`FiniteTopped`, by least counterexample); and a graph
  without a cycle has none when some of its processes are disabled. `SaveInv`
  follows a saved file through the next load: it is what the configuration in
  force is written as and nothing overrides it, expanding it changes text that is
  a reference and nothing else (`OnlyTextExpands`), what is decoded from it means
  the same (`RoundTrip`), and the defaults then find nothing to fill in but such
  text (`DefaultsKeep`). `LoadAssumption` says what shape YAML and the API
  give to what they hand over.

Only model-checked. Every liveness property (`OperationsEnd`, `SignalIsObeyed`,
`NoEmptyShell`, `NobodyWaits`, `StopDrains`, `ProbesAct`, `StateIsReported`,
`LineIsLogged`): fairness and `ENABLED` are beyond the prover. `OverridesLand` of
`ConfigLoad`: where the name in a variable ends depends on the lengths of words
and on all ways to split a sequence of them, so that the theorem would be about a
fold of `Chars` over sequences of any length. Every other property of a run is
also a theorem.

## 5. Known disagreements

Statements of the repository's documents, comments and tests that the code does
not keep. Those with a definition are stated in the module as "Not checked,
violated": adding the definition to the module's configuration (with the setup
named, where the run's own does not reach the case) gives TLC's counterexample.
None of the properties of section 3 depends on them; where one has to except
such a behaviour, its comment says so.

| Statement | Definition | What happens |
|---|---|---|
| docs/configuration/global-settings.md:125 "initial * 2^n ... clamped by restart_backoff_max" | `CrashLoop!DelayAlwaysPromised` (`DocAttempts`, `DocInitials`, `DocCeilings`) | the product is clamped after it has wrapped: from the 34th restart on (with 5 s) the delay may be zero or negative (restart.go:150) |
| supervisor.go:1704 "this instance must not come back" | `Supervisor!NoOrphans` (`ScaleDownSetups`, `ScaleDownCalls`) | `ScaleDown` meets an instance in its backoff, drops it from the list, and the monitor then starts a replacement nobody lists or can stop (supervisor.go:2241) |
| supervisor.go:2541 a dependent does not "launch against a process that is gone" | `Manager!GoneIsNotReady` (`GoneSetups`) | both readiness channels of a process that was ready and then died are closed, and `select` takes either (supervisor.go:414) |
| manager_health.go:34 a death is one that "won't restart" | `Manager!AllDeadIsFinal` (`BackoffSetups`) | a oneshot finishes while the service waits out its backoff: the scan sees nothing running, and the container is shut down |
| docs/features/dependency-management.md:292 "If cache is disabled, dependency is ignored" | `Manager!DisabledIsIgnored` (`DisabledSetups`) | the graph ignores it, `waitForDependencies` then aborts the startup (manager_lifecycle.go:138) |
| supervisor.go:2214 "The replacement has to prove itself again", supervisor.go:1428 "a replacement process must pass its own probe before it is ready" | `Health!ReleaseIsProven` | `attemptRestart` does not re-arm the monitor: a success of the crashed process closes the replacement's readiness signal, also during its backoff, and a dependent is released; a cold start keeps the signals of the checkpointed process |
| supervisor.go:970 "Let what it wrote before exiting reach its writers first", supervisor.go:979 "Without this flush that last output ... is silently dropped" | `Output!LastWordsAlwaysLogged` | with `snapshotStreams` (supervisor.go:757, 772; serve.go:234) both pipes are nil and `drainOutput` skips them: the flush may come before the copier, whose last unterminated line then stays in the writer, since its stream has no end (snapshot/stream.go:73) |
| coordinator.go:280 "The second check then catches anything that got in just before the flag did" | `WarmTier!NoTrafficIntoDump` (`Requested = {TRUE}`) | a sleep requested over the API does not ask for idleness, so a handler that was just woken can clear the flag the sleep has set and end before the count: the dump goes on with the proxy open (proxy.go:198) |
| supervisor.go:2514 "A checkpointed instance is alive-on-purpose, not dead" | `WarmTier!DumpIsNoDeath` | a restored process is polled: a tick between the end of its next dump and `CompleteCheckpoint` finds it gone, and reports the workload dead (supervisor.go:1316) |
| job.go:92, docs/features/scheduled-tasks.md:133 a tick during a run "is always skipped" | `Schedule!OverlapIsSkipped` | `executeSync` takes `executionMu` before it looks at the state, so the tick waits and then runs (job.go:340) |
| manager_config.go:524 "Keep its supervisor entry - dropping it would orphan a live process" | `Reload!ReloadKeepsTrack` | the entry is kept, but the restored configuration does not have the name (or another definition of it): a later `AddProcess`, edit or reload puts its own supervisor in that place and the live one is lost |
| manager_config.go:220 "returning here would leave the service down after a merely-rejected edit" | `Reload!RejectedEditKeepsService` | an edit of a scheduled process unregisters its job first; when the new definition then does not start, the job is not put back |
| manager_readiness.go:37 "track all enabled longrun processes" | `Readiness!LongrunsDecide` | a oneshot that failed keeps the container unready |
| readiness/manager.go:126 "container starts as not ready" | `Readiness!StartsUnready` | a file of the previous run is there until the readiness manager starts, after the processes |
| types.go:915 nil against empty is no concern of `Equal` | `ConfigLoad!SavedReloadIsNoop` | `reflect.DeepEqual` on the logging section tells them apart: a reload of the saved file restarts the process |
| manager_config.go:308 a save must not exchange "${VAR} environment-variable references" and "their resolved ... values" | `ConfigLoad!SavedTextIsLiteral` | only the file on disk is searched for references (line 307): text with a `${VAR}` that came over the API is saved as it is, and `ExpandEnv` replaces it at the next load (envsubst.go:20, 95) |
| types.go:754 a name without a body must not crash the defaults | `ConfigLoad!LoadNeverCrashes` | it does under `logging.files`: a nil dereference in PID 1 (types.go:725) |
| `SaveConfig` writes a configuration | `ConfigLoad!SavedIsAccepted` | `AddProcess` does not make the comprehensive checks, so the saved file may be refused at the next load |
| calculator.go:297 strict error and sizing "can never disagree" | `Autotune!StrictErrorIsHonest` | with a threshold above one the error names a limit the container is not below |
| calculator.go:100 and calculator_test.go:358 a threshold above 1.0 "allows OVERSUBSCRIPTION - risk of OOM kills!" | `Autotune!OversubscriptionIsGranted` | it does not: the hard ceiling of `sizeWorkers` (calculator.go:263) clamps the pool to the real limit, or in strict mode refuses it, so that `PoolFits` holds for every threshold |
| memory_budget_test.go:31 only tiny containers are refused | `Autotune!OnlyTinyIsRefused` | 257 to 263 MB are: the reserve is then its floor of 256 MB and leaves less than InnoDB's minimum |

Seen while modelling, without a definition: scaling to zero writes through to the
shared configuration (manager_scaling.go:10); the validator suggests
`on-failure` for oneshots, which `Validate` rejects (validation.go:546);
`SaveConfig` marshals the live map after releasing `m.mu` (manager_config.go:291);
removing a dependency makes the graph of the running configuration unresolvable,
so that the rollback of a later reload restarts nothing; a failed removal of the
readiness file is not retried (readiness/manager.go:395); a process called `env`
swallows overrides (envsubst.go:538), and names that differ only in `-` and `_`
are resolved by map order (envsubst.go:607); a dependency that does not exist and
is listed twice is reported as a cycle; a stale multiline timer may flush a newer
entry early (process_writer.go:191); an engine's settings stay on disk when the
limit they were made for is removed; a process that crashes between
`BeginCheckpoint` and `AbortCheckpoint` stays checkpointed without an image
(supervisor.go:1017).

## 6. Not modelled

Parsing (YAML, dotenv), formatting and wording, HTTP routing and authentication,
the terminal UI, the CLI client, scaffolding, metrics and tracing: they are I/O or
observers, and no control state depends on them. Hooks are a step that may fail.
The file watcher is a reload at any moment. Which children the zombie reaper may
wait for is a question to the kernel's process table, which no module has.
`internal/logtail` follows files of other programs. `Manager` has one instance
per process; scaling is in `Supervisor`, and changes of the configuration in
`Reload`, where a supervisor is up or not. `WarmTier` starts when the agent has
registered the workload: registration, the passing of descriptors, the reaping
of zombies by PID and control calls while the workload sleeps are not in it; to
compose it with `Supervisor`'s operations would multiply two state spaces that
each fill a run.

## 7. What could follow

The modules are what the source's control logic calls for, and the safety
properties of the runs are proved but for `OverridesLand`.
Open are:

1. The two hazards without a property in `PROJECT.json`: control calls while the
   workload sleeps, which needs `WarmTier` composed with the operations of
   `Supervisor`, and the poll of a restored process between the end of a dump and
   `CompleteCheckpoint`, which is `WarmTier!DumpIsNoDeath` of section 5.
2. `OverridesLand` of `ConfigLoad`: that the override which declares a process
   comes before those whose reading depends on it.
3. A proof that `Supervisor` implements the interface that `Manager` and `Reload`
   take it for; now `StopIsTruthful` and `OperationsEnd` are what they rely on.
