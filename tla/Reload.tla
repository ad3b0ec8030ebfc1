------------------------------- MODULE Reload -------------------------------
(***************************************************************************)
(* Changing what runs while it runs: internal/process/manager_config.go    *)
(* (AddProcess, RemoveProcess, UpdateProcess, ReloadConfig with its        *)
(* rollback) next to the control calls of manager_lifecycle.go.            *)
(*                                                                         *)
(* The operations of manager_config.go hold m.mu from end to end, so one   *)
(* is under way at a time; each Stop and each Start it makes is a step.    *)
(* A control call reads the supervisor out of m.processes under m.mu,      *)
(* gives the lock back and acts on that object later.                      *)
(*                                                                         *)
(* A supervisor object is up when its process lives.  Its Stop may fail    *)
(* (the process outlives SIGKILL); its Start may fail, or exceed           *)
(* process_start_timeout, in which case startSupervisor stops it again --  *)
(* but the goroutine that runs Start goes on, and if it gets to            *)
(* operationMu only after that Stop, the process starts then.              *)
(***************************************************************************)
EXTENDS DependencyGraph

CONSTANTS
    Names,      \* process names: numbers, in alphabetical order
    Sups,       \* bound: supervisor objects, reused when nothing refers to them
    Defs,       \* process definitions, as ValidateProcessDefinition leaves
                \* them: enabled, mode ("running", "stopped", "schedule"),
                \* version (all that Equal compares besides), depends
    Configs,    \* what LoadWithEnvExpansion accepts: functions from a set of
                \* names to definitions
    Edits,      \* definitions the API client sends
    MaxOps,     \* bound: operations
    MaxFaults   \* bound: starts, stops and waits that fail

None == 0

(* The record DependencyGraph works on.                                    *)
AsGraph(c) ==
    NewGraph([present |-> DOMAIN c,
              enabled |-> {p \in DOMAIN c : c[p].enabled},
              depends |-> [p \in DOMAIN c |-> c[p].depends]])

Sortable(c)      == Validate(AsGraph(c)) /\ ~HasCycle(AsGraph(c))
getStartupOrder(c) == TopologicalSort(AsGraph(c))

(* A map of process definitions, whatever their dependencies.              *)
Maps == UNION {[S -> Defs] : S \in SUBSET Names}

(* Init numbers the first supervisors like the processes they are for.     *)
ASSUME ReloadAssumption ==
    /\ Names \subseteq Nat \ {None} /\ IsFiniteSet(Names)
    /\ Sups \subseteq Nat \ {None} /\ Names \subseteq Sups
    /\ Defs \subseteq [enabled : BOOLEAN, mode : {"running", "stopped", "schedule"},
                      version : Nat, depends : Seq(Names)]
    /\ Edits \subseteq Defs
    /\ Configs \subseteq Maps /\ \A c \in Configs : Sortable(c)
    /\ MaxOps \in Nat /\ MaxFaults \in Nat

VARIABLES
    config,     \* m.config.Processes
    processes,  \* m.processes: name -> supervisor object, or None
    jobs,       \* the scheduler's jobs: name -> definition, or None
    sup,        \* the objects: name, definition, whether the process lives
    op,         \* the operation that holds m.mu
    call,       \* the control call under way
    ops, faults,\* bounds: how many are left
    lost,       \* history: objects that lived on, or came to life, when nothing
                \* in m.processes referred to them any more
    down,       \* history: names an operation failed to bring back
    stray,      \* history: names a rollback could not stop
    late        \* per object, Starts that were given up on and have not run yet

vars == <<config, processes, jobs, sup, op, call, ops, faults, lost, down, stray, late>>

NoDef == [enabled |-> FALSE, mode |-> "running", version |-> 0, depends |-> <<>>]
NoSup == [name |-> None, def |-> NoDef, up |-> FALSE]
NoMap == [p \in {} |-> NoDef]
Idle  == [at |-> "idle", todo |-> {}, old |-> NoMap, new |-> NoMap, touched |-> {},
          stuck |-> {}, failed |-> {}, name |-> None, def |-> NoDef]
NoCall == [at |-> "idle", kind |-> "none", sup |-> None]

Runs(def)      == def.enabled /\ def.mode # "schedule"
Scheduled(def) == def.enabled /\ def.mode = "schedule"
Up(s)          == s # None /\ sup[s].up

(* Mutant: the startup order itself.                                       *)
getShutdownOrderForward(c) == getStartupOrder(c)

(* Where the graph resolves; otherwise it is every name of the map, in no  *)
(* particular order.                                                       *)
getShutdownOrder(c) == Reverse(getStartupOrder(c))

(* The names either order holds.                                           *)
Ordered(c) == IF Sortable(c) THEN Nodes(AsGraph(c)) ELSE DOMAIN c

Precedes(s, p, q) == \E i, j \in DOMAIN s : i < j /\ s[i] = p /\ s[j] = q

(* The new supervisor: an object nothing refers to and that runs nothing.  *)
Free(s) == /\ ~sup[s].up /\ s # call.sup /\ late[s] = 0
           /\ \A p \in Names : processes[p] # s

newConfiguredSupervisor(s) == Free(s) /\ \A t \in Sups : Free(t) => s <= t

Without(f, p) == [q \in DOMAIN f \ {p} |-> f[q]]
With(f, p, v) == [q \in DOMAIN f \cup {p} |-> IF q = p THEN v ELSE f[q]]

Init ==
    /\ config \in Configs
    /\ LET runs == {p \in DOMAIN config : Runs(config[p])}
       IN  /\ processes = [p \in Names |-> IF p \in runs THEN p ELSE None]
           /\ sup = [s \in Sups |->
                 IF s \in runs THEN [name |-> s, def |-> config[s], up |-> config[s].mode = "running"]
                 ELSE NoSup]
           /\ jobs = [p \in Names |->
                 IF p \in DOMAIN config /\ Scheduled(config[p]) THEN config[p] ELSE NoDef]
    /\ op = Idle /\ call = NoCall
    /\ ops = MaxOps /\ faults = MaxFaults
    /\ lost = {} /\ down = {} /\ stray = {}
    /\ late = [s \in Sups |-> 0]

Goto(at) == op' = [op EXCEPT !.at = at]
Unlock   == op' = Idle
Held     == op.at # "idle"

----------------------------------------------------------------------------
(* What an operation does to one supervisor.                               *)

(* Supervisor.Stop: the process is gone, or would not go.                  *)
Stopped(s) == sup' = [sup EXCEPT ![s].up = FALSE] /\ UNCHANGED faults
Refuses(s) == sup[s].up /\ faults > 0 /\ faults' = faults - 1 /\ UNCHANGED sup

(* startSupervisor on a new object for a definition.                       *)
Started(s, p, def) ==
    /\ sup' = [sup EXCEPT ![s] = [name |-> p, def |-> def, up |-> TRUE]]
    /\ UNCHANGED faults

(* It fails: nothing lives; or a process is left, since Start failed once  *)
(* its instances were up (healthCheckStrict), or timed out and             *)
(* stopAfterFailedStart could not stop it, which is only logged; or that   *)
(* Stop came first and the goroutine has yet to run Start (the two cannot  *)
(* both be unless the object was up before).                               *)
StartFails(s, p, def, left, goesOn) ==
    /\ faults > 0 /\ faults' = faults - 1
    /\ left /\ goesOn => sup[s].up
    /\ sup' = [sup EXCEPT ![s] = [name |-> p, def |-> def, up |-> left]]
    /\ late' = [late EXCEPT ![s] = @ + (IF goesOn THEN 1 ELSE 0)]

(* A definition that is not to run yet gets its supervisor all the same.   *)
Registers(p, def) ==
    \E s \in Sups :
        /\ newConfiguredSupervisor(s)
        /\ sup' = [sup EXCEPT ![s] = [name |-> p, def |-> def, up |-> FALSE]]
        /\ processes' = [processes EXCEPT ![p] = s]

(* The supervisor is registered once it has started; of one that has not,  *)
(* what it left running is on its own.                                     *)
StartsNew(p, def) ==
    \E s \in Sups :
        /\ newConfiguredSupervisor(s)
        /\ Started(s, p, def)
        /\ processes' = [processes EXCEPT ![p] = s]

StartsNewInVain(p, def, left) ==
    \E s \in Sups, goesOn \in BOOLEAN :
        /\ newConfiguredSupervisor(s)
        /\ StartFails(s, p, def, left, goesOn)
        /\ lost' = IF left THEN lost \cup {s} ELSE lost

----------------------------------------------------------------------------
(* AddProcess.                                                             *)

Begin(at, p, def) ==
    /\ ~Held /\ ops > 0 /\ ops' = ops - 1
    /\ op' = [Idle EXCEPT !.at = at, !.name = p, !.def = def, !.old = config]

AddProcess(p, def) ==
    /\ p \notin DOMAIN config
    /\ Begin("add", p, def)
    /\ config' = With(config, p, def)
    /\ UNCHANGED <<processes, jobs, sup, call, faults, lost, down, stray, late>>

(* The scheduler refuses the job (a name or timezone it cannot take).      *)
RegisterFails == faults > 0 /\ faults' = faults - 1

AddScheduled ==
    /\ op.at = "add" /\ Scheduled(op.def) /\ Unlock
    /\ \/ jobs' = [jobs EXCEPT ![op.name] = op.def] /\ UNCHANGED <<config, faults>>
       \/ RegisterFails /\ config' = Without(config, op.name) /\ UNCHANGED jobs
    /\ down' = down \ {op.name}
    /\ UNCHANGED <<processes, sup, call, ops, lost, stray, late>>

AddStopped ==
    /\ op.at = "add" /\ Runs(op.def) /\ op.def.mode = "stopped" /\ Unlock
    /\ Registers(op.name, op.def)
    /\ down' = down \ {op.name}
    /\ UNCHANGED <<config, jobs, call, ops, faults, lost, stray, late>>

AddDisabled ==
    /\ op.at = "add" /\ ~op.def.enabled /\ Unlock
    /\ down' = down \ {op.name}
    /\ UNCHANGED <<config, processes, jobs, sup, call, ops, faults, lost, stray, late>>

AddStarts ==
    /\ op.at = "add" /\ Runs(op.def) /\ op.def.mode = "running" /\ Unlock
    /\ StartsNew(op.name, op.def)
    /\ down' = down \ {op.name}
    /\ UNCHANGED <<config, jobs, call, ops, lost, stray, late>>

AddFails(left) ==
    /\ op.at = "add" /\ Runs(op.def) /\ op.def.mode = "running" /\ Unlock
    /\ StartsNewInVain(op.name, op.def, left)
    /\ config' = Without(config, op.name)
    /\ UNCHANGED <<processes, jobs, call, ops, down, stray>>

----------------------------------------------------------------------------
(* RemoveProcess: the job goes first, whether or not the stop succeeds.    *)

RemoveProcess(p) ==
    /\ p \in DOMAIN config
    /\ Begin("remove", p, NoDef)
    /\ jobs' = [jobs EXCEPT ![p] = NoDef]
    /\ UNCHANGED <<config, processes, sup, call, faults, lost, down, stray, late>>

RemoveStops ==
    /\ op.at = "remove" /\ Unlock
    /\ \/ processes[op.name] # None /\ Stopped(processes[op.name])
       \/ processes[op.name] = None /\ UNCHANGED <<sup, faults>>
    /\ processes' = [processes EXCEPT ![op.name] = None]
    /\ config' = Without(config, op.name)
    /\ down' = down \ {op.name}
    /\ UNCHANGED <<jobs, call, ops, lost, stray, late>>

RemoveFails ==
    /\ op.at = "remove" /\ processes[op.name] # None /\ Unlock
    /\ Refuses(processes[op.name])
    /\ UNCHANGED <<config, processes, jobs, call, ops, lost, down, stray, late>>

----------------------------------------------------------------------------
(* UpdateProcess.                                                          *)

UpdateProcess(p, def) ==
    /\ p \in DOMAIN config
    /\ Begin("update", p, def)
    /\ config' = With(config, p, def)
    /\ jobs' = IF Scheduled(def) THEN jobs ELSE [jobs EXCEPT ![p] = NoDef]
    /\ UNCHANGED <<processes, sup, call, faults, lost, down, stray, late>>

UpdateStops ==
    /\ op.at = "update" /\ processes[op.name] # None
    /\ Stopped(processes[op.name])
    /\ processes' = [processes EXCEPT ![op.name] = None]
    /\ Goto("replace")
    /\ UNCHANGED <<config, jobs, call, ops, lost, down, stray, late>>

(* What a failed edit leaves of a job or process the old definition had.   *)
Unrestored(p) ==
    IF \/ Scheduled(op.old[p]) /\ jobs'[p] # op.old[p]
       \/ Runs(op.old[p]) /\ processes'[p] = None
    THEN down \cup {p} ELSE down

UpdateStopFails ==
    /\ op.at = "update" /\ processes[op.name] # None /\ Unlock
    /\ Refuses(processes[op.name])
    /\ config' = op.old
    /\ UNCHANGED <<processes, jobs, call, ops, lost, down, stray, late>>

UpdateToSchedule ==
    /\ \/ op.at = "replace"
       \/ op.at = "update" /\ processes[op.name] = None
    /\ Scheduled(op.def) /\ Unlock /\ UNCHANGED processes
    /\ \/ /\ jobs' = [jobs EXCEPT ![op.name] = op.def]
          /\ down' = down \ {op.name}
          /\ UNCHANGED <<config, faults>>
       \/ /\ RegisterFails
          /\ jobs' = [jobs EXCEPT ![op.name] = NoDef]
          /\ config' = op.old
          /\ down' = Unrestored(op.name)
    /\ UNCHANGED <<sup, call, ops, lost, stray, late>>

(* No supervisor to replace and none to start, or the process is disabled. *)
UpdateOnly ==
    /\ \/ op.at = "replace" /\ ~op.def.enabled
       \/ op.at = "update" /\ processes[op.name] = None
            /\ (~op.def.enabled \/ op.def.mode = "stopped")
    /\ Unlock
    /\ IF op.def.enabled
       THEN Registers(op.name, op.def)
       ELSE UNCHANGED <<sup, processes>>
    /\ down' = down \ {op.name}
    /\ UNCHANGED <<config, jobs, call, ops, faults, lost, stray, late>>

Starting == \/ op.at = "replace" /\ Runs(op.def)
            \/ op.at = "update" /\ processes[op.name] = None
                 /\ Runs(op.def) /\ op.def.mode = "running"

UpdateStarts ==
    /\ Starting /\ Unlock
    /\ StartsNew(op.name, op.def)
    /\ down' = down \ {op.name}
    /\ UNCHANGED <<config, jobs, call, ops, lost, stray, late>>

(* The new definition does not start.  If it replaced a running one, that  *)
(* one is started again; a job that was unregistered stays so.             *)
UpdateStartFails(left) ==
    /\ Starting
    /\ StartsNewInVain(op.name, op.def, left)
    /\ config' = op.old
    /\ UNCHANGED <<processes, jobs, call, ops, stray>>
    /\ IF op.at = "replace" /\ op.old[op.name].enabled
       THEN Goto("restore") /\ UNCHANGED down
       ELSE Unlock /\ down' = Unrestored(op.name)

UpdateRestores ==
    /\ op.at = "restore" /\ Unlock
    /\ StartsNew(op.name, op.old[op.name])
    /\ UNCHANGED <<config, jobs, call, ops, lost, down, stray, late>>

UpdateRestoreFails(left) ==
    /\ op.at = "restore" /\ Unlock
    /\ StartsNewInVain(op.name, op.old[op.name], left)
    /\ down' = down \cup {op.name}
    /\ UNCHANGED <<config, processes, jobs, call, ops, stray>>

----------------------------------------------------------------------------
(* ReloadConfig.                                                           *)

Removed(new) == DOMAIN config \ DOMAIN new
Changed(new) == {p \in DOMAIN config \cap DOMAIN new : config[p] # new[p]}
Added(new)   == DOMAIN new \ DOMAIN config

(* The file has passed Load and Validate; one that has not changes nothing. *)
ReloadConfig(new) ==
    /\ ~Held /\ ops > 0 /\ ops' = ops - 1
    /\ op' = [Idle EXCEPT !.at = "stop", !.old = config, !.new = new,
                 !.todo = (Removed(new) \cup Changed(new)) \cap Ordered(config),
                 !.touched = Removed(new) \cup Changed(new) \cup Added(new)]
    /\ UNCHANGED <<config, processes, jobs, sup, call, faults, lost, down, stray, late>>

(* The stop loops go through the shutdown order of the configuration in    *)
(* force; what it does not hold comes last, in any order.                  *)
StopsNext(p) ==
    /\ p \in op.todo
    /\ Sortable(config) =>
          LET order == getShutdownOrder(config)
          IN  \A q \in op.todo \cap ToSet(order) : p \in ToSet(order) /\ ~Precedes(order, q, p)

(* The start loops go through its startup order.                           *)
StartsNext(p) ==
    p \in op.todo /\ \A q \in op.todo : ~Precedes(getStartupOrder(config), q, p)

Rest(p) == op.todo \ {p}

(* stopReloadProcesses, one name: its job is unregistered, its supervisor  *)
(* stopped and dropped, or reported.                                       *)
ReloadStops(p) ==
    /\ op.at = "stop" /\ StopsNext(p)
    /\ jobs' = [jobs EXCEPT ![p] = NoDef]
    /\ \/ /\ processes[p] = None
          /\ op' = [op EXCEPT !.todo = Rest(p)]
          /\ UNCHANGED <<processes, sup, faults>>
       \/ /\ processes[p] # None /\ Stopped(processes[p])
          /\ processes' = [processes EXCEPT ![p] = None]
          /\ op' = [op EXCEPT !.todo = Rest(p)]
       \/ /\ processes[p] # None /\ Refuses(processes[p])
          /\ op' = [op EXCEPT !.todo = Rest(p), !.failed = @ \cup {p}]
          /\ UNCHANGED processes
    /\ UNCHANGED <<config, call, ops, lost, down, stray, late>>

(* rollbackReload: everything touched is stopped, once.                    *)
Rollback(touched) ==
    op' = [op EXCEPT !.at = "rbstop", !.touched = touched, !.todo = touched]

ReloadAborts ==
    /\ op.at = "stop" /\ op.todo = {} /\ op.failed # {}
    /\ UNCHANGED config
    /\ Rollback(op.touched \cap DOMAIN config)
    /\ UNCHANGED <<processes, jobs, sup, call, ops, faults, lost, down, stray, late>>

ReloadSwaps ==
    /\ op.at = "stop" /\ op.todo = {} /\ op.failed = {}
    /\ config' = op.new
    /\ op' = [op EXCEPT !.at = "start",
                 !.todo = op.touched \cap Nodes(AsGraph(op.new))]
    /\ UNCHANGED <<processes, jobs, sup, call, ops, faults, lost, down, stray, late>>

(* waitForDependencies: the supervisors are looked up in m.processes, and  *)
(* any of them may fail or not become ready in time.                       *)
Found(def)       == \A d \in ToSet(def.depends) : processes[d] # None
WaitFails(def)   == /\ def.depends # <<>>
                    /\ \/ ~Found(def) /\ UNCHANGED faults
                       \/ faults > 0 /\ faults' = faults - 1

(* registerScheduledProcess or startRegularProcess, which registers the    *)
(* supervisor before it starts it; waits: whether waitForDependencies is   *)
(* called first.                                                           *)
BringsUp(p, def, waits) ==
    /\ waits => Found(def)
    /\ \/ /\ Scheduled(def)
          /\ jobs' = [jobs EXCEPT ![p] = def]
          /\ UNCHANGED <<processes, sup, faults>>
       \/ /\ Runs(def)
          /\ \E s \in Sups :
                /\ newConfiguredSupervisor(s)
                /\ processes' = [processes EXCEPT ![p] = s]
                /\ sup' = [sup EXCEPT ![s] = [name |-> p, def |-> def, up |-> def.mode = "running"]]
          /\ UNCHANGED <<jobs, faults>>

(* Mutant: the supervisor is registered once it has started.               *)
FailsToBringUpUnregistered(p, def, waits) ==
    \/ waits /\ WaitFails(def) /\ UNCHANGED <<processes, jobs, sup, late>>
    \/ /\ waits => Found(def)
       /\ Scheduled(def) /\ RegisterFails /\ UNCHANGED <<processes, jobs, sup, late>>
    \/ /\ waits => Found(def)
       /\ Runs(def) /\ def.mode = "running"
       /\ \E s \in Sups : \E left, goesOn \in BOOLEAN :
             newConfiguredSupervisor(s) /\ StartFails(s, p, def, left, goesOn)
       /\ UNCHANGED <<processes, jobs>>

FailsToBringUp(p, def, waits) ==
    \/ waits /\ WaitFails(def) /\ UNCHANGED <<processes, jobs, sup, late>>
    \/ /\ waits => Found(def)
       /\ Scheduled(def) /\ RegisterFails /\ UNCHANGED <<processes, jobs, sup, late>>
    \/ /\ waits => Found(def)
       /\ Runs(def) /\ def.mode = "running"
       /\ \E s \in Sups : \E left, goesOn \in BOOLEAN :
             /\ newConfiguredSupervisor(s)
             /\ StartFails(s, p, def, left, goesOn)
             /\ processes' = [processes EXCEPT ![p] = s]
       /\ UNCHANGED jobs

ReloadStarts(p) ==
    /\ op.at = "start" /\ StartsNext(p)
    /\ BringsUp(p, op.new[p], TRUE)
    /\ op' = [op EXCEPT !.todo = Rest(p)]
    /\ UNCHANGED <<config, call, ops, lost, down, stray, late>>

ReloadStartFails(p) ==
    /\ op.at = "start" /\ StartsNext(p)
    /\ FailsToBringUp(p, op.new[p], TRUE)
    /\ UNCHANGED config
    /\ Rollback(op.touched)
    /\ UNCHANGED <<call, ops, lost, down, stray>>

ReloadDone ==
    /\ op.at = "start" /\ op.todo = {} /\ Unlock
    /\ down' = down \ op.touched
    /\ UNCHANGED <<config, processes, jobs, sup, call, ops, faults, lost, stray, late>>

(* Mutant: a name without a supervisor is passed over, its job with it.    *)
RollbackStopsSupervised(p) ==
    /\ op.at = "rbstop" /\ StopsNext(p)
    /\ jobs' = IF processes[p] = None THEN jobs ELSE [jobs EXCEPT ![p] = NoDef]
    /\ \/ /\ processes[p] = None
          /\ op' = [op EXCEPT !.todo = Rest(p)]
          /\ UNCHANGED <<processes, sup, faults, stray>>
       \/ /\ processes[p] # None /\ Stopped(processes[p])
          /\ processes' = [processes EXCEPT ![p] = None]
          /\ op' = [op EXCEPT !.todo = Rest(p)]
          /\ UNCHANGED stray
       \/ /\ processes[p] # None /\ Refuses(processes[p])
          /\ op' = [op EXCEPT !.todo = Rest(p), !.stuck = @ \cup {p}]
          /\ stray' = stray \cup {p}
          /\ UNCHANGED processes
    /\ UNCHANGED <<config, call, ops, lost, down, late>>

(* One name is stopped exactly once; one that will not stop keeps its      *)
(* entry.                                                                  *)
RollbackStops(p) ==
    /\ op.at = "rbstop" /\ StopsNext(p)
    /\ jobs' = [jobs EXCEPT ![p] = NoDef]
    /\ \/ /\ processes[p] = None
          /\ op' = [op EXCEPT !.todo = Rest(p)]
          /\ UNCHANGED <<processes, sup, faults, stray>>
       \/ /\ processes[p] # None /\ Stopped(processes[p])
          /\ processes' = [processes EXCEPT ![p] = None]
          /\ op' = [op EXCEPT !.todo = Rest(p)]
          /\ UNCHANGED stray
       \/ /\ processes[p] # None /\ Refuses(processes[p])
          /\ op' = [op EXCEPT !.todo = Rest(p), !.stuck = @ \cup {p}]
          /\ stray' = stray \cup {p}
          /\ UNCHANGED processes
    /\ UNCHANGED <<config, call, ops, lost, down, late>>

(* The old configuration is back; if its graph does not resolve (an edit   *)
(* over the API may have seen to that) nothing is restarted.               *)
RollbackRestores ==
    /\ op.at = "rbstop" /\ op.todo = {}
    /\ config' = op.old
    /\ IF Sortable(op.old)
       THEN /\ op' = [op EXCEPT !.at = "rbstart",
                         !.todo = (op.touched \ op.stuck) \cap Nodes(AsGraph(op.old))]
            /\ UNCHANGED down
       ELSE /\ Unlock
            /\ down' = down \cup {p \in op.touched \cap DOMAIN op.old : op.old[p].enabled}
    /\ UNCHANGED <<processes, jobs, sup, call, ops, faults, lost, stray, late>>

(* Here a job is registered without waiting for dependencies.              *)
RollbackStarts(p) ==
    /\ op.at = "rbstart" /\ StartsNext(p)
    /\ BringsUp(p, op.old[p], Runs(op.old[p]))
    /\ op' = [op EXCEPT !.todo = Rest(p)]
    /\ UNCHANGED <<config, call, ops, lost, down, stray, late>>

RollbackStartFails(p) ==
    /\ op.at = "rbstart" /\ StartsNext(p)
    /\ FailsToBringUp(p, op.old[p], Runs(op.old[p]))
    /\ op' = [op EXCEPT !.todo = Rest(p)]
    /\ down' = down \cup {p}
    /\ UNCHANGED <<config, call, ops, lost, stray>>

RollbackDone ==
    /\ op.at = "rbstart" /\ op.todo = {} /\ Unlock
    /\ UNCHANGED <<config, processes, jobs, sup, call, ops, faults, lost, down, stray, late>>

----------------------------------------------------------------------------
(* Control calls: the object is looked up under m.mu and used after it.    *)

Call(kind, p) ==
    /\ ~Held /\ call = NoCall /\ ops > 0 /\ ops' = ops - 1
    /\ processes[p] # None
    /\ call' = [at |-> "found", kind |-> kind, sup |-> processes[p]]
    /\ UNCHANGED <<config, processes, jobs, sup, op, faults, lost, down, stray, late>>

StartProcess(p) ==
    /\ p \in DOMAIN config /\ config[p].enabled /\ ~Up(processes[p])
    /\ Call("start", p)

StopProcess(p)    == Up(processes[p]) /\ Call("stop", p)
RestartProcess(p) == p \in DOMAIN config /\ Up(processes[p]) /\ Call("restart", p)

Dropped(s) == \A p \in Names : processes[p] # s

CallStops ==
    /\ call.kind \in {"stop", "restart"}
    /\ \/ /\ Stopped(call.sup)
          /\ call' = IF call.kind = "stop" THEN NoCall ELSE [call EXCEPT !.kind = "start"]
       \/ /\ Refuses(call.sup) /\ call' = NoCall
    /\ UNCHANGED <<config, processes, jobs, op, ops, lost, down, stray, late>>

CallStarts ==
    /\ call.kind = "start" /\ call' = NoCall
    /\ \/ Started(call.sup, sup[call.sup].name, sup[call.sup].def) /\ UNCHANGED late
       \/ \E left, goesOn \in BOOLEAN :
             StartFails(call.sup, sup[call.sup].name, sup[call.sup].def, left, goesOn)
    /\ lost' = IF Dropped(call.sup) /\ sup'[call.sup].up THEN lost \cup {call.sup} ELSE lost
    /\ UNCHANGED <<config, processes, jobs, op, ops, down, stray>>

(* The goroutine of a startSupervisor that has long returned gets to run   *)
(* Start: that is nothing if the object is up, a process if it can be      *)
(* started, whatever has become of the object since.                       *)
LateStart(s) ==
    /\ late[s] > 0 /\ late' = [late EXCEPT ![s] = @ - 1]
    /\ \E up \in BOOLEAN : (sup[s].up => up) /\ sup' = [sup EXCEPT ![s].up = up]
    /\ lost' = IF Dropped(s) /\ ~sup[s].up /\ sup'[s].up THEN lost \cup {s} ELSE lost
    /\ UNCHANGED <<config, processes, jobs, op, call, ops, faults, down, stray>>

Next ==
    \/ \E p \in Names : \E def \in Edits : AddProcess(p, def) \/ UpdateProcess(p, def)
    \/ AddScheduled \/ AddStopped \/ AddDisabled \/ AddStarts
    \/ \E left \in BOOLEAN : AddFails(left) \/ UpdateStartFails(left) \/ UpdateRestoreFails(left)
    \/ \E p \in Names : RemoveProcess(p)
    \/ RemoveStops \/ RemoveFails
    \/ UpdateStops \/ UpdateStopFails \/ UpdateToSchedule \/ UpdateOnly
    \/ UpdateStarts \/ UpdateRestores
    \/ \E new \in Configs : ReloadConfig(new)
    \/ ReloadAborts \/ ReloadSwaps \/ ReloadDone \/ RollbackRestores \/ RollbackDone
    \/ \E p \in Names :
          \/ ReloadStops(p) \/ ReloadStarts(p) \/ ReloadStartFails(p)
          \/ RollbackStops(p) \/ RollbackStarts(p) \/ RollbackStartFails(p)
          \/ StartProcess(p) \/ StopProcess(p) \/ RestartProcess(p)
    \/ CallStops \/ CallStarts
    \/ \E s \in Sups : LateStart(s)

Spec == Init /\ [][Next]_vars

----------------------------------------------------------------------------
(* Properties.                                                             *)

TypeOK ==
    /\ config \in Maps
    /\ processes \in [Names -> Sups \cup {None}]
    /\ jobs \in [Names -> Defs \cup {NoDef}]
    /\ sup \in [Sups -> [name : Names \cup {None}, def : Defs \cup {NoDef}, up : BOOLEAN]]
    /\ late \in [Sups -> Nat]
    /\ call.sup \in Sups \cup {None} /\ ops \in 0..MaxOps /\ faults \in 0..MaxFaults

(* A live process without an entry in m.processes.                         *)
Orphan(s) == sup[s].up /\ Dropped(s)

(* No reload and no rollback loses a process that lives: one without an    *)
(* entry was left by a start that AddProcess or UpdateProcess gave up on,  *)
(* came to life behind a dropped entry (of a control call that had looked  *)
(* it up before, or of a start that timed out and went on), or has a name  *)
(* an earlier rollback could not stop.                                     *)
OrphansExplained == \A s \in Sups : Orphan(s) => s \in lost \/ sup[s].name \in stray

(* Not checked, violated: that last excuse should not be needed, "Keep its *)
(* supervisor entry - dropping it would orphan a live process".            *)
ReloadKeepsTrack == \A s \in Sups : Orphan(s) => s \in lost

(* What the configuration says of a name and what the manager has for it.  *)
Agrees(p) ==
    /\ (p \in DOMAIN config /\ Runs(config[p]))
          <=> (processes[p] # None /\ sup[processes[p]].def = config[p])
    /\ processes[p] # None => p \in DOMAIN config /\ Runs(config[p])
    /\ jobs[p] = IF p \in DOMAIN config /\ Scheduled(config[p]) THEN config[p] ELSE NoDef

(* Whenever m.mu is free, configuration, supervisors and scheduler jobs    *)
(* agree on every name that no operation has reported as lost: after a     *)
(* success, after a clean rollback, after an edit that was refused.        *)
Agreement == ~Held => \A p \in Names \ (down \cup stray) : Agrees(p)

(* Not checked, violated: "returning here would leave the service down     *)
(* after a merely-rejected edit": an UpdateProcess that fails to start the *)
(* new definition leaves the old one in place, unless restarting that      *)
(* failed as well.                                                         *)
RejectedEditKeepsService ==
    [][op.at = "update" /\ ~Held' /\ config' = op.old /\ op.def # op.old[op.name]
         => down' = down]_vars

(* A reload or rollback stops a process only when every other process it   *)
(* is about to stop and that depends on it is down, or would not stop.     *)
DependentsStopFirst ==
    [][\A p \in Names :
         op.at \in {"stop", "rbstop"} /\ Up(processes[p]) /\ processes'[p] = None /\ Sortable(config)
         => \A q \in (op.touched \cap DOMAIN config) \ (op.failed \cup op.stuck \cup stray) :
               config[q].enabled /\ p \in ToSet(config[q].depends) => ~Up(processes[q])]_vars

=============================================================================
