------------------------------ MODULE Manager ------------------------------
(***************************************************************************)
(* The process manager from boot to exit: Manager.Start, the detection     *)
(* that every process has died, Manager.Shutdown, the control calls of the *)
(* management API, and the frame cmd/cbox-init/serve.go puts around them   *)
(* (internal/process/manager_lifecycle.go, manager_start.go,               *)
(* manager_health.go).                                                     *)
(*                                                                         *)
(* Start and Shutdown hold m.mu for writing from end to end, so the API    *)
(* and the death scan get in only between them.  A supervisor appears      *)
(* here as its interface: one instance, its exits, backoffs and readiness  *)
(* signals, and Start and Stop serialised by operationMu; module           *)
(* Supervisor has the inside.  Timeouts may fire whenever they are armed.  *)
(***************************************************************************)
EXTENDS DependencyGraph

CONSTANTS
    Procs,      \* process names: numbers, in alphabetical order
    Setups,     \* configurations; beyond DependencyGraph's they say for each
                \* process its kind, whether it may be restarted, has a
                \* schedule or an initial_state other than running, and (a
                \* bound) how many calls the API client makes
    QueueCap    \* capacity of processDeathCh (10 in NewManager)

Kinds == {"service", "probed", "liveness", "oneshot"}

ASSUME ManagerAssumption ==
    /\ Procs \subseteq Nat /\ IsFiniteSet(Procs)
    /\ QueueCap \in Nat \ {0}
    /\ \A c \in Setups :
          /\ c.present = Procs /\ c.enabled \subseteq Procs
          /\ c.depends \in [Procs -> Seq(Procs)]
          /\ c.kind \in [Procs -> Kinds]
          /\ c.restarts \subseteq Procs /\ c.scheduled \subseteq Procs /\ c.idle \subseteq Procs
          /\ c.calls \in Nat

VARIABLES
    cfg,        \* the configuration
    main,       \* how far serve.go and the manager call it makes have come
    order,      \* the rest of the startup order
    waiting,    \* dependencies the next process still waits for
    proc,       \* the registered supervisors, and their processes
    call,       \* startSupervisor or StopProcess, per caller: step and process
    pending,    \* sup.Start goroutines that have not run yet
    notifying,  \* monitors on their way to checkAllInstancesDead
    deaths,     \* notifications in processDeathCh
    scan,       \* the death scan in progress: [on, left]
    allDead,    \* allDeadCh is closed
    asked,      \* a shutdown signal has arrived
    level,      \* the processes Shutdown is stopping now
    remaining,  \* the ones it has not got to
    errs,       \* whether one of them would not stop
    reason,     \* why Shutdown was entered
    exitCode,   \* of PID 1: -1 while it runs
    calls,      \* bound: API calls left
    everReady,  \* history: processes that have ever been ready
    late        \* history: processes started after Shutdown was done with them

vars == <<cfg, main, order, waiting, proc, call, pending, notifying, deaths, scan,
          allDead, asked, level, remaining, errs, reason, exitCode, calls, everReady, late>>

Callers == {"main", "api"}

Mains == {"prestart", "next", "wait", "launch", "abort", "running", "levels", "exiting", "exited"}

ProcType ==
    [reg : BOOLEAN,                                     \* in m.processes
     st : {"stopped", "running", "stopping", "failed"}, \* supervisor state
     inst : {"none", "up", "backoff", "over", "lost", "stuck"},
     ready : SUBSET {"ready", "failed"},                \* the closed readiness channels
     busy : Callers \cup {"free"},                      \* who is in its Stop
     exit : {"none", "zero", "bad"},                    \* lastExitCode
     ran : BOOLEAN]                                     \* history: was ever started

Absent == [reg |-> FALSE, st |-> "stopped", inst |-> "none", ready |-> {},
           busy |-> "free", exit |-> "none", ran |-> FALSE]

Registered == {p \in Procs : proc[p].reg}
Live(p)    == proc[p].inst \in {"up", "stuck"}
NoCall     == [step |-> "idle", p |-> 0]
Deps(p)    == ToSet(cfg.depends[p])

Init ==
    /\ cfg \in Setups
    /\ main = "prestart"
    /\ order = <<>>
    /\ waiting = <<>>
    /\ proc = [p \in Procs |-> Absent]
    /\ call = [c \in Callers |-> NoCall]
    /\ pending = {}
    /\ notifying = {}
    /\ deaths = 0
    /\ scan = [on |-> FALSE, left |-> {}]
    /\ allDead = FALSE
    /\ asked = FALSE
    /\ level = {}
    /\ remaining = {}
    /\ errs = FALSE
    /\ reason = "none"
    /\ exitCode = -1
    /\ calls = cfg.calls
    /\ everReady = {}
    /\ late = {}

Signal ==
    /\ ~asked /\ main # "exited"
    /\ asked' = TRUE
    /\ UNCHANGED <<cfg, main, order, waiting, proc, call, pending, notifying, deaths, scan,
                   allDead, level, remaining, errs, reason, exitCode, calls, everReady, late>>

-----------------------------------------------------------------------------
(* Manager.Start.  The pre-start hooks are fatal, and so is a graph that   *)
(* cannot be ordered.                                                      *)
UNCHANGED_Background ==
    UNCHANGED <<cfg, notifying, deaths, scan, allDead, asked, level, remaining, errs,
                reason, exitCode, calls>>

StartBegin ==
    LET g == NewGraph(cfg)
    IN  /\ main = "prestart"
        /\ \/ main' = "abort" /\ UNCHANGED order
           \/ /\ Validate(g) /\ ~HasCycle(g)
              /\ main' = "next"
              /\ order' = TopologicalSort(g)
        /\ UNCHANGED <<waiting, proc, call, pending, everReady, late>>
        /\ UNCHANGED_Background

StartNext ==
    /\ main = "next" /\ order # <<>>
    /\ main' = "wait"
    /\ waiting' = cfg.depends[Head(order)]
    /\ UNCHANGED <<order, proc, call, pending, everReady, late>>
    /\ UNCHANGED_Background

(* WaitForReadiness.  A long-running process without a health check, or    *)
(* with one for liveness only, is not waited for; of the signals that are  *)
(* ready at once, select picks any.                                        *)
Waits(d) == cfg.kind[d] \in {"probed", "oneshot"}

(* Mutant of ReadinessOK: a oneshot is not waited for.                     *)
ReadinessOKAtFork(d) ==
    \/ cfg.kind[d] \in {"liveness", "oneshot"}
    \/ cfg.kind[d] = "service" /\ "failed" \notin proc[d].ready
    \/ "ready" \in proc[d].ready

ReadinessOK(d) ==
    \/ cfg.kind[d] = "liveness"
    \/ cfg.kind[d] = "service" /\ "failed" \notin proc[d].ready
    \/ Waits(d) /\ "ready" \in proc[d].ready

(* Mutant of ReadinessFails: the wait has no timeout.                      *)
ReadinessFailsUntimed(d) == "failed" \in proc[d].ready

(* The timeout and the cancelled start context end only a real wait.       *)
ReadinessFails(d) ==
    \/ cfg.kind[d] = "service" /\ "failed" \in proc[d].ready
    \/ Waits(d)

waitForDependencies ==
    LET d == Head(waiting)
    IN  /\ main = "wait" /\ waiting # <<>>
        /\ \/ proc[d].reg /\ ReadinessOK(d) /\ waiting' = Tail(waiting) /\ UNCHANGED main
           \/ ~proc[d].reg /\ main' = "abort" /\ waiting' = <<>>
           \/ proc[d].reg /\ ReadinessFails(d) /\ main' = "abort" /\ waiting' = <<>>
        /\ UNCHANGED <<order, proc, call, pending, everReady, late>>
        /\ UNCHANGED_Background

(* A process with a schedule goes to the scheduler and gets no supervisor; *)
(* registering it may fail.                                                *)
registerScheduledProcess ==
    /\ main = "wait" /\ waiting = <<>> /\ Head(order) \in cfg.scheduled
    /\ \/ main' = "next" /\ order' = Tail(order)
       \/ main' = "abort" /\ UNCHANGED order
    /\ UNCHANGED <<waiting, proc, call, pending, everReady, late>>
    /\ UNCHANGED_Background

(* startRegularProcess: with another initial_state the process is only     *)
(* marked ready; otherwise startSupervisor runs.                           *)
startRegularProcess ==
    LET p == Head(order)
    IN  /\ main = "wait" /\ waiting = <<>> /\ p \notin cfg.scheduled
        /\ IF p \in cfg.idle
           THEN /\ proc' = [proc EXCEPT ![p].reg = TRUE, ![p].ready = @ \cup {"ready"}]
                /\ everReady' = everReady \cup {p}
                /\ main' = "next" /\ order' = Tail(order)
                /\ UNCHANGED <<call, pending>>
           ELSE /\ proc' = [proc EXCEPT ![p].reg = TRUE]
                /\ main' = "launch"
                /\ call' = [call EXCEPT !["main"] = [step |-> "launching", p |-> p]]
                /\ pending' = pending \cup {<<"main", p>>}
                /\ UNCHANGED <<order, everReady>>
        /\ UNCHANGED <<waiting, late>>
        /\ UNCHANGED_Background

StartLaunched ==
    /\ main = "launch" /\ call["main"].step \in {"started", "refused"}
    /\ IF call["main"].step = "started"
       THEN main' = "next" /\ order' = Tail(order)
       ELSE main' = "abort" /\ UNCHANGED order
    /\ call' = [call EXCEPT !["main"] = NoCall]
    /\ UNCHANGED <<waiting, proc, pending, everReady, late>>
    /\ UNCHANGED_Background

(* The scheduler is started, the post-start hooks run (their failure is    *)
(* logged).  A signal the startup watcher has not taken is left for the    *)
(* main loop.                                                              *)
StartEnd ==
    /\ main = "next" /\ order = <<>>
    /\ main' = "running"
    /\ UNCHANGED <<order, waiting, proc, call, pending, everReady, late>>
    /\ UNCHANGED_Background

-----------------------------------------------------------------------------
(* startSupervisor: a goroutine runs sup.Start; the caller waits for it,   *)
(* for a timeout and for its own context, and on those stops the           *)
(* supervisor again.  The goroutine may not even have run by then.         *)
Answer(c, p, res) ==
    IF call[c] = [step |-> "launching", p |-> p]
    THEN [call EXCEPT ![c].step = res] ELSE call

Started(p) ==
    [proc[p] EXCEPT !.st = "running", !.inst = "up", !.ran = TRUE,
                    !.ready = IF cfg.kind[p] = "service" THEN {"ready"} ELSE {}]

Refused(p) == [proc[p] EXCEPT !.st = "failed", !.ready = {}]

(* sup.Start: a running supervisor is left alone; an instance that cannot  *)
(* be started leaves it Failed; a health monitor that cannot be created    *)
(* fails the start, in strict mode, with the instance running.             *)
SupervisorStart(c, p) ==
    /\ <<c, p>> \in pending /\ proc[p].busy = "free"
    /\ pending' = pending \ {<<c, p>>}
    /\ \/ /\ proc[p].st = "running"
          /\ call' = Answer(c, p, "started")
          /\ UNCHANGED <<proc, everReady, late>>
       \/ /\ proc[p].st # "running"
          /\ proc' = [proc EXCEPT ![p] = Started(p)]
          /\ \/ call' = Answer(c, p, "started")
             \/ cfg.kind[p] \in {"probed", "liveness"} /\ call' = Answer(c, p, "refused")
          /\ everReady' = IF cfg.kind[p] \in {"service", "liveness"} THEN everReady \cup {p} ELSE everReady
          /\ late' = IF main \in {"levels", "exiting"} /\ p \notin level \cup remaining
                     THEN late \cup {p} ELSE late
       \/ /\ proc[p].st # "running"
          /\ proc' = [proc EXCEPT ![p] = Refused(p)]
          /\ call' = Answer(c, p, "refused")
          /\ UNCHANGED <<everReady, late>>
    /\ UNCHANGED <<main, order, waiting>>
    /\ UNCHANGED_Background

startSupervisorGivesUp(c) ==
    /\ call[c].step = "launching"
    /\ call' = [call EXCEPT ![c].step = "undo"]
    /\ UNCHANGED <<main, order, waiting, proc, pending, everReady, late>>
    /\ UNCHANGED_Background

-----------------------------------------------------------------------------
(* sup.Stop: called by stopAfterFailedStart ("undo"), by the API ("stop"   *)
(* and "restop"), and by Shutdown for the processes of a level.            *)
WantsStop(c, p) ==
    \/ call[c].step \in {"undo", "stop", "restop"} /\ call[c].p = p
    \/ c = "main" /\ p \in level

StopBegin(c, p) ==
    /\ WantsStop(c, p) /\ proc[p].busy = "free"
    /\ proc' = [proc EXCEPT ![p].busy = c, ![p].st = "stopping"]
    /\ UNCHANGED <<main, order, waiting, call, pending, everReady, late>>
    /\ UNCHANGED_Background

(* The instances are gone and forgotten, or one of them would not die.     *)
StoppedOK(p) ==
    [proc[p] EXCEPT !.st = "stopped", !.inst = "none", !.busy = "free",
                    !.exit = IF Live(p) THEN "bad" ELSE @]
StoppedBadly(p) == [proc[p] EXCEPT !.st = "failed", !.inst = "stuck", !.busy = "free"]

AfterStop(c, ok) ==
    CASE call[c].step = "undo" -> [call EXCEPT ![c].step = "refused"]
      [] call[c].step = "restop" /\ ok -> [call EXCEPT ![c].step = "launching"]
      [] OTHER -> [call EXCEPT ![c] = NoCall]

StopEnd(c, p, ok) ==
    /\ proc[p].busy = c
    /\ ok \/ Live(p)
    /\ proc' = [proc EXCEPT ![p] = IF ok THEN StoppedOK(p) ELSE StoppedBadly(p)]
    /\ IF c = "main" /\ p \in level
       THEN level' = level \ {p} /\ errs' = (errs \/ ~ok) /\ UNCHANGED <<call, pending>>
       ELSE /\ call' = AfterStop(c, ok)
            /\ pending' = IF call[c].step = "restop" /\ ok THEN pending \cup {<<c, p>>} ELSE pending
            /\ UNCHANGED <<level, errs>>
    /\ UNCHANGED <<cfg, main, order, waiting, notifying, deaths, scan, allDead, asked,
                   remaining, reason, exitCode, calls, everReady, late>>

-----------------------------------------------------------------------------
(* The control calls.  They read the supervisor's state under m.mu, which  *)
(* neither Start nor Shutdown lets go of, and act on it without any lock.  *)
ApiOpen == main \in {"running", "exiting"}

ApiCall(step, p) ==
    /\ ApiOpen /\ call["api"] = NoCall /\ calls > 0 /\ proc[p].reg
    /\ calls' = calls - 1
    /\ call' = [call EXCEPT !["api"] = [step |-> step, p |-> p]]
    /\ UNCHANGED <<cfg, main, order, waiting, proc, notifying, deaths, scan, allDead, asked,
                   level, remaining, errs, reason, exitCode, everReady, late>>

(* StartProcess, also RestartProcess of a stopped process.                 *)
StartProcess(p) ==
    /\ p \in cfg.enabled /\ proc[p].st = "stopped"
    /\ ApiCall("launching", p)
    /\ pending' = pending \cup {<<"api", p>>}

StopProcess(p) ==
    /\ proc[p].st # "stopped"
    /\ ApiCall("stop", p)
    /\ UNCHANGED pending

RestartProcess(p) ==
    /\ proc[p].st # "stopped"
    /\ ApiCall("restop", p)
    /\ UNCHANGED pending

ApiReturns ==
    /\ call["api"].step \in {"started", "refused"}
    /\ call' = [call EXCEPT !["api"] = NoCall]
    /\ UNCHANGED <<main, order, waiting, proc, pending, everReady, late>>
    /\ UNCHANGED_Background

-----------------------------------------------------------------------------
(* The processes.  An exit is recorded, then a oneshot is finished, a      *)
(* service restarted after a backoff or given up; during a Stop there is   *)
(* no restart.  Whoever will not come back is on its way to notify.        *)
OnProc(p, q, told) ==
    /\ proc' = [proc EXCEPT ![p] = q]
    /\ notifying' = IF told THEN notifying \cup {p} ELSE notifying
    /\ UNCHANGED <<cfg, main, order, waiting, call, pending, deaths, scan, allDead, asked,
                   level, remaining, errs, reason, exitCode, calls, late>>

(* handleOneshotExit *)
OneshotExit(p, code) ==
    /\ proc[p].inst = "up" /\ cfg.kind[p] = "oneshot"
    /\ OnProc(p, [proc[p] EXCEPT !.inst = IF proc[p].busy = "free" THEN "over" ELSE "lost", !.exit = code,
                                 !.ready = @ \cup {IF code = "zero" THEN "ready" ELSE "failed"}],
              TRUE)
    /\ everReady' = IF code = "zero" THEN everReady \cup {p} ELSE everReady

(* attemptRestart re-arms the readiness signals and waits.                 *)
CrashRestarts(p, code) ==
    /\ proc[p].inst = "up" /\ cfg.kind[p] # "oneshot"
    /\ p \in cfg.restarts /\ proc[p].busy = "free"
    /\ OnProc(p, [proc[p] EXCEPT !.inst = "backoff", !.exit = code, !.ready = {}], FALSE)
    /\ UNCHANGED everReady

CrashFinal(p, code) ==
    /\ proc[p].inst = "up" /\ cfg.kind[p] # "oneshot" /\ proc[p].busy = "free"
    /\ OnProc(p, [proc[p] EXCEPT !.inst = "over", !.exit = code], TRUE)
    /\ UNCHANGED everReady

(* The exit of an instance that is being stopped, or could not be.         *)
StoppedExit(p, code, told) ==
    /\ \/ proc[p].inst = "up" /\ cfg.kind[p] # "oneshot" /\ proc[p].busy # "free"
       \/ proc[p].inst = "stuck"
    /\ OnProc(p, [proc[p] EXCEPT !.inst = "lost", !.exit = code], told)
    /\ UNCHANGED everReady

(* The backoff ends; the replacement starts, or fails to and is reported.  *)
BackoffOver(p, ok) ==
    /\ proc[p].inst = "backoff" /\ proc[p].busy = "free"
    /\ IF ok THEN OnProc(p, [proc[p] EXCEPT !.inst = "up"], FALSE)
             ELSE OnProc(p, [proc[p] EXCEPT !.inst = "over", !.ready = @ \cup {"failed"}], TRUE)
    /\ UNCHANGED everReady

(* A health check passes for the first time in this run.                   *)
Probe(p) ==
    /\ proc[p].inst = "up" /\ cfg.kind[p] = "probed" /\ "ready" \notin proc[p].ready
    /\ OnProc(p, [proc[p] EXCEPT !.ready = @ \cup {"ready"}], FALSE)
    /\ everReady' = everReady \cup {p}

-----------------------------------------------------------------------------
(* checkAllInstancesDead and NotifyProcessDeath: with nothing running, a   *)
(* long-running process is Failed and can never be ready; the notification *)
(* is dropped when the channel is full.                                    *)
Dead(p) == [proc[p] EXCEPT !.st = IF @ = "running" THEN "failed" ELSE @,
                           !.ready = @ \cup {"failed"}]

Gone(p) == proc[p].inst \in {"over", "backoff", "lost", "stuck"}

Notified(p, sent) ==
    /\ p \in notifying
    /\ notifying' = notifying \ {p}
    /\ proc' = IF Gone(p) /\ cfg.kind[p] # "oneshot" THEN [proc EXCEPT ![p] = Dead(p)] ELSE proc
    /\ deaths' = IF Gone(p) /\ sent THEN deaths + 1 ELSE deaths
    /\ UNCHANGED <<cfg, main, order, waiting, call, pending, scan, allDead, asked, level,
                   remaining, errs, reason, exitCode, calls, everReady, late>>

(* Mutant of Notify: the end of a oneshot is not reported.                 *)
NotifyServices(p) == Notified(p, deaths < QueueCap /\ cfg.kind[p] # "oneshot")

Notify(p) == Notified(p, deaths < QueueCap)

(* MonitorProcessHealth: one notification, one scan of all processes under *)
(* the read lock, in any order, while they live on.                        *)
ScanBegin ==
    /\ ApiOpen /\ deaths > 0 /\ ~scan.on
    /\ deaths' = deaths - 1
    /\ scan' = [on |-> TRUE, left |-> Registered]
    /\ UNCHANGED <<cfg, main, order, waiting, proc, call, pending, notifying, allDead, asked,
                   level, remaining, errs, reason, exitCode, calls, everReady, late>>

(* Only a Running instance counts: not one in backoff, and one that is     *)
(* being stopped only until stopInstance has got to it.                    *)
checkAllProcessesDead(p) ==
    /\ scan.on /\ p \in scan.left
    /\ \/ proc[p].inst = "up" /\ scan' = [on |-> FALSE, left |-> {}]
       \/ /\ proc[p].inst # "up" \/ proc[p].busy # "free"
          /\ scan' = [scan EXCEPT !.left = @ \ {p}]
    /\ UNCHANGED <<cfg, main, order, waiting, proc, call, pending, notifying, deaths, allDead,
                   asked, level, remaining, errs, reason, exitCode, calls, everReady, late>>

ScanEnd ==
    /\ scan.on /\ scan.left = {}
    /\ scan' = [scan EXCEPT !.on = FALSE]
    /\ allDead' = (allDead \/ Registered # {})
    /\ UNCHANGED <<cfg, main, order, waiting, proc, call, pending, notifying, deaths, asked,
                   level, remaining, errs, reason, exitCode, calls, everReady, late>>

-----------------------------------------------------------------------------
(* Manager.Shutdown, entered from the main loop (a signal, or every        *)
(* process is dead) or from a startup that was aborted.  It stops the      *)
(* supervisors of the configured processes, and needs the lock.            *)
ShutdownOrder == IF Validate(NewGraph(cfg)) /\ ~HasCycle(NewGraph(cfg))
                 THEN Nodes(NewGraph(cfg)) ELSE cfg.present

EnterShutdown(why) ==
    /\ ~scan.on
    /\ main' = "levels"
    /\ remaining' = ShutdownOrder \cap Registered
    /\ reason' = why
    /\ UNCHANGED <<cfg, order, waiting, proc, call, pending, notifying, deaths, scan, allDead,
                   asked, level, errs, exitCode, calls, everReady, late>>

(* The main loop takes the signal, or sees allDeadCh closed.               *)
ShutdownOnSignal ==
    /\ asked /\ main = "running"
    /\ EnterShutdown("signal")

ShutdownOnDeath ==
    /\ allDead /\ main = "running"
    /\ EnterShutdown("dead")

(* shutdownStarted, when the startup watcher has taken a signal: the start *)
(* was interrupted by it, or had just succeeded.                           *)
ShutdownStarted ==
    /\ asked
    /\ main = "abort" \/ (main = "next" /\ order = <<>>)
    /\ EnterShutdown("interrupted")

(* Mutant of ShutdownOnError: exit, and let the kernel stop the rest.      *)
ShutdownOnErrorExits ==
    /\ main = "abort"
    /\ main' = "exited"
    /\ reason' = "error"
    /\ exitCode' = 1
    /\ UNCHANGED <<cfg, order, waiting, proc, call, pending, notifying, deaths, scan, allDead,
                   asked, level, remaining, errs, calls, everReady, late>>

(* shutdownStarted, after a start that failed.  A signal that came at the  *)
(* last moment may still be in the channel.                                *)
ShutdownOnError ==
    /\ main = "abort"
    /\ EnterShutdown("error")

Blocked(p) == \E q \in remaining \ {p} : p \in Deps(q)

(* Mutant of ShutdownLevel: everything is stopped at once.                 *)
ShutdownLevelFlat ==
    /\ main = "levels" /\ level = {} /\ remaining # {}
    /\ level' = remaining
    /\ remaining' = {}
    /\ UNCHANGED <<cfg, main, order, waiting, proc, call, pending, notifying, deaths, scan,
                   allDead, asked, errs, reason, exitCode, calls, everReady, late>>

(* The next level: what no other remaining process depends on; all of the  *)
(* rest, if a cycle leaves nothing.                                        *)
ShutdownLevel ==
    LET free == {p \in remaining : ~Blocked(p)}
        next == IF free = {} THEN remaining ELSE free
    IN  /\ main = "levels" /\ level = {} /\ remaining # {}
        /\ level' = next
        /\ remaining' = remaining \ next
        /\ UNCHANGED <<cfg, main, order, waiting, proc, call, pending, notifying, deaths, scan,
                       allDead, asked, errs, reason, exitCode, calls, everReady, late>>

(* The post-stop hooks run; Shutdown returns and m.mu is free again.       *)
ShutdownEnd ==
    /\ main = "levels" /\ level = {} /\ remaining = {}
    /\ main' = "exiting"
    /\ UNCHANGED <<cfg, order, waiting, proc, call, pending, notifying, deaths, scan, allDead,
                   asked, level, remaining, errs, reason, exitCode, calls, everReady, late>>

TerminalExitCode ==
    IF \E p \in Registered : \/ proc[p].exit = "bad"
                             \/ proc[p].exit = "zero" /\ cfg.kind[p] # "oneshot"
    THEN 1 ELSE 0

(* The API server is stopped only now; then PID 1 exits.                   *)
Exit ==
    /\ main = "exiting" /\ ~scan.on
    /\ main' = "exited"
    /\ exitCode' = CASE reason = "error"       -> 1
                     [] reason = "interrupted" -> 0
                     [] errs                   -> 1
                     [] reason = "signal"      -> 0
                     [] OTHER                  -> TerminalExitCode
    /\ UNCHANGED <<cfg, order, waiting, proc, call, pending, notifying, deaths, scan, allDead,
                   asked, level, remaining, errs, reason, calls, everReady, late>>

-----------------------------------------------------------------------------
MainStep ==
    \/ StartBegin \/ StartNext \/ waitForDependencies \/ registerScheduledProcess
    \/ startRegularProcess \/ StartLaunched \/ StartEnd
    \/ ShutdownOnSignal \/ ShutdownOnDeath \/ ShutdownStarted \/ ShutdownOnError
    \/ ShutdownLevel \/ ShutdownEnd \/ Exit

CallStep ==
    \/ \E c \in Callers, p \in Procs :
          \/ SupervisorStart(c, p)
          \/ StopBegin(c, p)
          \/ \E ok \in BOOLEAN : StopEnd(c, p, ok)
    \/ \E c \in Callers : startSupervisorGivesUp(c)
    \/ ApiReturns

ApiStep == \E p \in Procs : StartProcess(p) \/ StopProcess(p) \/ RestartProcess(p)

ProcessStep(p) ==
    \/ \E code \in {"zero", "bad"} :
          \/ OneshotExit(p, code)
          \/ CrashRestarts(p, code)
          \/ CrashFinal(p, code)
          \/ \E told \in BOOLEAN : StoppedExit(p, code, told)
    \/ \E ok \in BOOLEAN : BackoffOver(p, ok)
    \/ Probe(p)

DeathStep == ScanBegin \/ ScanEnd \/ \E p \in Procs : Notify(p) \/ checkAllProcessesDead(p)

Next ==
    \/ main # "exited" /\ MainStep
    \/ main # "exited" /\ CallStep
    \/ main # "exited" /\ DeathStep
    \/ main # "exited" /\ (Signal \/ ApiStep \/ \E p \in Procs : ProcessStep(p))
    \/ main = "exited" /\ UNCHANGED vars

Spec == Init /\ [][Next]_vars

(* The main goroutine, the goroutines of calls in progress and the death   *)
(* scan keep running, timeouts fire, and a Stop ends (module Supervisor).  *)
(* Nothing is assumed of the processes, of the API's clients or of signals.*)
Fairness ==
    /\ WF_vars(main # "exited" /\ MainStep)
    /\ WF_vars(main # "exited" /\ CallStep)
    /\ WF_vars(main # "exited" /\ DeathStep)

FairSpec == Spec /\ Fairness

-----------------------------------------------------------------------------
TypeOK ==
    /\ cfg \in Setups
    /\ main \in Mains
    /\ order \in Seq(Procs) /\ waiting \in Seq(Procs)
    /\ proc \in [Procs -> ProcType]
    /\ call \in [Callers -> [step : {"idle", "launching", "started", "refused", "undo", "stop", "restop"},
                             p : Procs \cup {0}]]
    /\ pending \subseteq Callers \X Procs
    /\ notifying \subseteq Procs
    /\ deaths \in 0..QueueCap
    /\ scan \in [on : BOOLEAN, left : SUBSET Procs]
    /\ allDead \in BOOLEAN /\ asked \in BOOLEAN /\ errs \in BOOLEAN
    /\ level \subseteq Procs /\ remaining \subseteq Procs
    /\ reason \in {"none", "signal", "dead", "interrupted", "error"}
    /\ exitCode \in -1..1
    /\ calls \in Nat
    /\ everReady \subseteq Procs /\ late \subseteq Procs

(* A process is first started only after each process it depends on has    *)
(* been ready: a oneshot has succeeded, a probed service has passed its    *)
(* check, any other one has been started.                                  *)
StartsAfterDependencies ==
    \A p \in Procs : proc[p].ran /\ p \notin cfg.idle => Deps(p) \subseteq everReady

(* While Shutdown is stopping a process, nothing that depends on it is     *)
(* running, unless it refused to stop or was started behind its back.      *)
DependentsStopFirst ==
    main = "levels" =>
        \A p \in level : \A q \in Registered :
            p \in Deps(q) => proc[q].inst \notin {"up", "backoff"} \/ q \in late

(* PID 1 exits only with every process stopped, however it came to exit:   *)
(* a process left behind refused to stop, or was started too late.         *)
ShutdownComplete ==
    main = "exited" => \A p \in Procs : proc[p].inst \notin {"up", "backoff"} \/ p \in late

(* Every process has died of itself, and no stop or start intervened.      *)
AllOver ==
    /\ \A p \in Registered : proc[p].inst = "over" \/ ~proc[p].ran
    /\ \E p \in Registered : proc[p].inst = "over"

(* When the container ends because its processes died, exit code 0 means   *)
(* that only oneshots ever ran, and that each succeeded in the end.        *)
FailureIsReported ==
    main = "exited" /\ reason = "dead" /\ exitCode = 0 =>
        \A p \in Procs \ late :
            proc[p].ran => cfg.kind[p] = "oneshot" /\ proc[p].exit # "bad"

(* However PID 1 comes to exit, nothing is left behind and the exit code   *)
(* does not hide a failure.                                                *)
ExitIsRight == ShutdownComplete /\ FailureIsReported

(* A shutdown signal is obeyed, whatever the startup, the API and the      *)
(* processes are doing.                                                    *)
SignalIsObeyed == asked ~> main = "exited"

(* A container whose processes are all over does not linger as an empty    *)
(* shell: it exits, or a control call brings a process back.               *)
NoEmptyShell == (main = "running" /\ AllOver) ~> (main = "exited" \/ ~AllOver)

(* Not checked, violated: the comment of NotifyProcessDeath                *)
(* (manager_health.go:34): the death of a process is one that won't        *)
(* restart.  So allDeadCh is closed only when no process is waiting to be  *)
(* restarted.                                                              *)
AllDeadIsFinal ==
    [][~allDead /\ allDead' => \A p \in Procs : proc[p].inst # "backoff"]_vars

(* Not checked, violated: checkAllInstancesDead marks a process that is    *)
(* gone (supervisor.go:2541) so that no dependent is launched "against a   *)
(* process that is gone".                                                  *)
GoneIsNotReady ==
    [][main = "wait" /\ waiting # <<>> /\ waiting' = Tail(waiting) /\ main' = "wait"
        => cfg.kind[Head(waiting)] \in {"liveness", "oneshot"}
              \/ "failed" \notin proc[Head(waiting)].ready]_vars

(* Not checked, violated: a dependency that is disabled is ignored         *)
(* (docs/features/dependency-management.md:292): a startup that has        *)
(* nothing else against it is not aborted while looking for one.           *)
DisabledIsIgnored ==
    [][main = "wait" /\ main' = "abort" /\ waiting # <<>> => Head(waiting) \in cfg.enabled]_vars
=============================================================================
