----------------------------- MODULE Supervisor -----------------------------
(***************************************************************************)
(* internal/process/supervisor.go: one supervisor, its instances and their *)
(* monitor goroutines.                                                     *)
(*                                                                         *)
(* Start, Stop, ScaleUp and ScaleDown serialise on operationMu (op), but a *)
(* monitor goroutine (mon) takes no part in that lock: it notices an exit, *)
(* decides about a restart, waits out the backoff and installs the         *)
(* replacement while any operation runs.  Start holds s.mu from end to     *)
(* end, which every monitor needs before it can decide, so Start is one    *)
(* step; the other operations release s.mu in between and are several.     *)
(*                                                                         *)
(* An instance object is a number: they are allocated in order and never   *)
(* reused, as the pointers in s.instances are not.  Timers are untimed: a  *)
(* timeout may fire whenever it is armed.  A health check that kills an    *)
(* instance is, here, a process that exits; the readiness signals are in   *)
(* module Manager.  There is no checkpoint in this module.                 *)
(***************************************************************************)
EXTENDS RestartPolicy, Sequences

CONSTANTS
    MaxObj,       \* bound: instance objects
    MaxScale,     \* bound: the largest scale asked for
    MaxAttempts,  \* global.max_restart_attempts after defaulting
    Setups,       \* the configurations: restart policy, process type, scale,
                  \* whether shutdown.kill_signal is SIGKILL, and (a bound)
                  \* how many instance objects the run may create
    Calls         \* the calls the manager makes: operation and target scale

ASSUME SupervisorAssumption ==
    /\ MaxObj \in Nat
    /\ MaxScale \in Nat
    /\ MaxAttempts \in Int
    /\ Setups \subseteq [policy : Policies, type : {"longrun", "oneshot"},
                   hardKill : BOOLEAN, scale : 1..MaxScale, objects : 0..MaxObj]
    /\ Calls \subseteq [op : {"start", "stop", "up", "down"}, n : 0..MaxScale]

VARIABLES
    cfg,        \* the configuration, one of Setups
    state,      \* s.state
    ctx,        \* s.ctx: "none" (nil), "live" or "cancelled"
    instances,  \* s.instances
    inst,       \* the instance objects, their processes, monitors and stops
    used,       \* how many instance objects exist
    op,         \* the operation holding operationMu, and how far it is
    target,     \* its target scale
    victims,    \* the instances it is stopping
    added       \* the instances a ScaleUp has started and not yet listed

vars == <<cfg, state, ctx, instances, inst, used, op, target, victims, added>>

Obj == 1..MaxObj

Restarting == {"backoff", "detached", "cancelled", "start", "count", "adopt"}

InstanceType ==
    [st : {"none", "running", "stopping", "stopped", "completed", "failed"},
     index : 0..MaxScale,
     allowRestart : BOOLEAN,
     restartCount : Nat,
     attempt : Nat,                                \* restartCount, as the monitor read it
     proc : {"none", "alive", "killed", "dead"},   \* the OS process
     mon : {"none", "wait", "exited", "stopped", "scan", "declare", "done"} \cup Restarting,
     child : 0..MaxObj,                            \* the replacement, once started
     stop : {"idle", "begin", "grace", "kill", "escalate", "gone", "ok", "err"}]

Blank ==
    [st |-> "none", index |-> 0, allowRestart |-> FALSE, restartCount |-> 0,
     attempt |-> 0, proc |-> "none", mon |-> "none", child |-> 0, stop |-> "idle"]

(* startInstance: the object, its process and its monitor goroutine.       *)
startInstance(index) ==
    [st |-> "running", index |-> index, allowRestart |-> TRUE, restartCount |-> 0,
     attempt |-> 0, proc |-> "alive", mon |-> "wait", child |-> 0, stop |-> "idle"]

Live(o)    == inst[o].proc \in {"alive", "killed"}
Listed     == Range(instances)
Finished   == \A o \in victims : inst[o].stop \in {"gone", "ok", "err"}
Clean      == \A o \in victims : inst[o].stop # "err"

Init ==
    /\ cfg \in Setups
    /\ state = "stopped"
    /\ ctx = "none"
    /\ instances = <<>>
    /\ inst = [o \in Obj |-> Blank]
    /\ used = 0
    /\ op = "none"
    /\ target = 0
    /\ victims = {}
    /\ added = <<>>

-----------------------------------------------------------------------------
(* The manager looks at the supervisor's state and scale before it calls   *)
(* (StartProcess, StopProcess, ScaleProcess), but without operationMu: by  *)
(* the time the call gets the lock anything may have happened.  So a call  *)
(* is guarded only by what is checked again under the lock, by the process *)
(* type (a oneshot is never scaled), and by there ever having been an      *)
(* instance to scale.                                                      *)
Serve(r) ==
    /\ op = "none"
    /\ r \in Calls
    /\ r.op \in {"up", "down"} => cfg.type # "oneshot"
    /\ r.op = "up" => used > 0

-----------------------------------------------------------------------------
(* Start: the guard against a double start, under the lock.                *)
StartNoop(r) ==
    /\ Serve(r) /\ r.op = "start"
    /\ state \in {"running", "starting"}
    /\ UNCHANGED <<cfg, state, ctx, instances, inst, used, op, target, victims, added>>

(* The instance objects after k of them were started by Start.  Monitors   *)
(* that still wait for a backoff do so on the context of an earlier run.   *)
Launched(k) ==
    [o \in Obj |->
        IF o \in used + 1 .. used + k THEN startInstance(o - used - 1)
        ELSE IF inst[o].mon = "backoff" THEN [inst[o] EXCEPT !.mon = "detached"]
        ELSE inst[o]]

NewObjects(k) == [i \in 1..k |-> used + i]

StartOK(r) ==
    /\ Serve(r) /\ r.op = "start"
    /\ state \notin {"running", "starting"}
    /\ used + cfg.scale <= cfg.objects
    /\ state' = "running"
    /\ ctx' = "live"
    /\ instances' = instances \o NewObjects(cfg.scale)
    /\ inst' = Launched(cfg.scale)
    /\ used' = used + cfg.scale
    /\ UNCHANGED <<cfg, op, target, victims, added>>

(* Instance k + 1 cannot be started: cancel, then SIGKILL the listed ones. *)
StartFails(r, k) ==
    /\ Serve(r) /\ r.op = "start"
    /\ state \notin {"running", "starting"}
    /\ k < cfg.scale /\ used + k <= cfg.objects
    /\ state' = "failed"
    /\ ctx' = "cancelled"
    /\ instances' = instances \o NewObjects(k)
    /\ inst' = [o \in Obj |->
                  IF o \in Range(instances') /\ Launched(k)[o].proc = "alive"
                  THEN [Launched(k)[o] EXCEPT !.proc = "killed"]
                  ELSE Launched(k)[o]]
    /\ used' = used + k
    /\ UNCHANGED <<cfg, op, target, victims, added>>

-----------------------------------------------------------------------------
(* ScaleUp: the target is checked again under the lock, then the instances *)
(* are started one by one and listed only together at the end.             *)
ScaleUpRejected(r) ==
    /\ Serve(r) /\ r.op = "up" /\ r.n <= Len(instances)
    /\ UNCHANGED <<cfg, state, ctx, instances, inst, used, op, target, victims, added>>

ScaleUpBegin(r) ==
    /\ Serve(r) /\ r.op = "up" /\ r.n > Len(instances)
    /\ op' = "up"
    /\ target' = r.n
    /\ UNCHANGED <<cfg, state, ctx, instances, inst, used, victims, added>>

NextIndex == Len(instances) + Len(added)

(* A nil s.ctx is replaced by the background context; with a cancelled one *)
(* exec.Cmd refuses to start.                                              *)
ScaleUpStart ==
    /\ op = "up" /\ NextIndex < target
    /\ ctx # "cancelled"
    /\ used < cfg.objects
    /\ used' = used + 1
    /\ inst' = [inst EXCEPT ![used + 1] = startInstance(NextIndex)]
    /\ added' = Append(added, used + 1)
    /\ UNCHANGED <<cfg, state, ctx, instances, op, target, victims>>

ScaleUpFails ==
    /\ op = "up" /\ NextIndex < target
    /\ op' = "upfail"
    /\ victims' = Range(added)
    /\ inst' = [o \in Obj |-> IF o \in Range(added) THEN [inst[o] EXCEPT !.stop = "begin"] ELSE inst[o]]
    /\ UNCHANGED <<cfg, state, ctx, instances, used, target, added>>

(* A cleanup that could not stop an instance is only logged.               *)
ScaleUpAbort ==
    /\ op = "upfail" /\ Finished
    /\ op' = "none"
    /\ target' = 0
    /\ victims' = {}
    /\ added' = <<>>
    /\ UNCHANGED <<cfg, state, ctx, instances, inst, used>>

ScaleUpCommit ==
    /\ op = "up" /\ NextIndex >= target
    /\ op' = "none"
    /\ target' = 0
    /\ instances' = instances \o added
    /\ added' = <<>>
    /\ UNCHANGED <<cfg, state, ctx, inst, used, victims>>

-----------------------------------------------------------------------------
Stopping(S) == [o \in Obj |-> IF o \in S THEN [inst[o] EXCEPT !.stop = "begin"] ELSE inst[o]]
Released    == [o \in Obj |-> IF o \in victims THEN [inst[o] EXCEPT !.stop = "idle"] ELSE inst[o]]

ScaleDownRejected(r) ==
    /\ Serve(r) /\ r.op = "down" /\ r.n >= Len(instances)
    /\ UNCHANGED <<cfg, state, ctx, instances, inst, used, op, target, victims, added>>

ScaleDownBegin(r) ==
    LET tail == Range(SubSeq(instances, r.n + 1, Len(instances)))
    IN  /\ Serve(r) /\ r.op = "down" /\ r.n < Len(instances)
        /\ op' = "down"
        /\ target' = r.n
        /\ victims' = tail
        /\ inst' = Stopping(tail)
        /\ UNCHANGED <<cfg, state, ctx, instances, used, added>>

(* Mutant of ScaleDownEnd: the list is cut although an instance would not stop. *)
ScaleDownEndForgets ==
    /\ op = "down" /\ Finished
    /\ instances' = SubSeq(instances, 1, target)
    /\ inst' = Released
    /\ op' = "none"
    /\ target' = 0
    /\ victims' = {}
    /\ UNCHANGED <<cfg, state, ctx, used, added>>

ScaleDownEnd ==
    /\ op = "down" /\ Finished
    /\ instances' = IF Clean THEN SubSeq(instances, 1, target) ELSE instances
    /\ inst' = Released
    /\ op' = "none"
    /\ target' = 0
    /\ victims' = {}
    /\ UNCHANGED <<cfg, state, ctx, used, added>>

(* Stop: Stopping, cancel the run's context, stop a copy of the list.      *)
StopBegin(r) ==
    /\ Serve(r) /\ r.op = "stop"
    /\ state' = "stopping"
    /\ ctx' = IF ctx = "none" THEN "none" ELSE "cancelled"
    /\ op' = "stop"
    /\ victims' = Listed
    /\ inst' = [o \in Obj |->
                  IF ctx # "none" /\ Stopping(Listed)[o].mon = "backoff"
                  THEN [Stopping(Listed)[o] EXCEPT !.mon = "cancelled"]
                  ELSE Stopping(Listed)[o]]
    /\ UNCHANGED <<cfg, instances, used, target, added>>

(* Every stopInstance has returned; the supervisor's goroutines are waited *)
(* for, but no longer than DefaultGoroutineStopTimeout.                    *)
StopDrain ==
    /\ op = "stop" /\ Finished
    /\ op' = "drain"
    /\ UNCHANGED <<cfg, state, ctx, instances, inst, used, target, victims, added>>

StopEnd ==
    /\ op = "drain"
    /\ IF Clean
       THEN state' = "stopped" /\ instances' = <<>> /\ ctx' = "none"
       ELSE state' = "failed" /\ UNCHANGED <<instances, ctx>>
    /\ inst' = Released
    /\ op' = "none"
    /\ victims' = {}
    /\ UNCHANGED <<cfg, used, target, added>>

-----------------------------------------------------------------------------
(* stopInstance, one per victim.  The intent not to restart is recorded    *)
(* first; an instance already Stopping is a retry and is stopped again.    *)
(* Then come the pre-stop hook and the shutdown signal, which can fail     *)
(* only for a process that still exists.                                   *)
Gone(o) == [inst EXCEPT ![o].stop = "gone", ![o].allowRestart = FALSE]
(* Mutants of Claim: the monitor may still restart; marked stopped too early. *)
ClaimAllowingRestart(o, res) == [inst EXCEPT ![o].stop = res, ![o].st = "stopping"]
ClaimAsStopped(o, res)       == [inst EXCEPT ![o].stop = res, ![o].allowRestart = FALSE,
                                             ![o].st = "stopped"]

Claim(o, res) == [inst EXCEPT ![o].stop = res, ![o].allowRestart = FALSE,
                              ![o].st = "stopping"]

(* Mutant of stopInstance: an unfinished stop counts as stopped.           *)
stopInstanceNoRetry(o) ==
    /\ inst[o].stop = "begin"
    /\ IF inst[o].st = "running"
       THEN \/ inst' = Claim(o, "grace")
            \/ Live(o) /\ inst' = Claim(o, "err")
       ELSE inst' = Gone(o)

stopInstance(o) ==
    /\ inst[o].stop = "begin"
    /\ IF inst[o].st \in {"running", "stopping"}
       THEN \/ inst' = Claim(o, "grace")
            \/ Live(o) /\ inst' = Claim(o, "err")
       ELSE inst' = Gone(o)

waitForInstanceExit(o) ==
    /\ inst[o].stop \in {"grace", "kill", "escalate"}
    /\ inst[o].mon # "wait"
    /\ inst' = [inst EXCEPT ![o].stop = "ok"]

Sigkilled(o) == IF inst[o].proc = "alive" THEN "killed" ELSE inst[o].proc

(* The grace period is over: the configured kill signal.                   *)
forceKillInstance(o) ==
    /\ inst[o].stop = "grace"
    /\ \/ inst' = [inst EXCEPT ![o].stop = "kill",
                               ![o].proc = IF cfg.hardKill THEN Sigkilled(o) ELSE @]
       \/ Live(o) /\ inst' = [inst EXCEPT ![o].stop = "err"]

(* Mutant of escalateKill: a trappable kill signal is waited for forever.  *)
escalateKillWaits(o) ==
    /\ inst[o].stop = "kill"
    /\ cfg.hardKill
    /\ inst' = [inst EXCEPT ![o].stop = "err"]

(* kill_timeout is over: escalate to SIGKILL, or give up if that was it.   *)
escalateKill(o) ==
    /\ inst[o].stop = "kill"
    /\ IF cfg.hardKill
       THEN inst' = [inst EXCEPT ![o].stop = "err"]
       ELSE \/ inst' = [inst EXCEPT ![o].stop = "escalate", ![o].proc = Sigkilled(o)]
            \/ Live(o) /\ inst' = [inst EXCEPT ![o].stop = "err"]

giveUpOnKill(o) ==
    /\ inst[o].stop = "escalate"
    /\ inst' = [inst EXCEPT ![o].stop = "err"]

StopStep(o) ==
    /\ \/ stopInstance(o)
       \/ waitForInstanceExit(o)
       \/ forceKillInstance(o)
       \/ escalateKill(o)
       \/ giveUpOnKill(o)
    /\ UNCHANGED <<cfg, state, ctx, instances, used, op, target, victims, added>>

-----------------------------------------------------------------------------
(* A process exits, by itself or of a signal; its monitor's cmd.Wait       *)
(* returns and exitedCh is closed.                                         *)
ProcessExit(o) ==
    /\ Live(o)
    /\ inst' = [inst EXCEPT ![o].proc = "dead", ![o].mon = "exited"]
    /\ UNCHANGED <<cfg, state, ctx, instances, used, op, target, victims, added>>

(* The output is drained, then the exit is recorded under instance.mu; an  *)
(* uptime past the stability window (up) gives a fresh restart budget.     *)
RecordExit(o, up) ==
    /\ inst[o].mon = "exited"
    /\ inst' = [inst EXCEPT ![o].mon = "stopped", ![o].st = "stopped",
                            ![o].attempt = IF resetRestartBudget(TRUE, up) THEN 0 ELSE inst[o].restartCount]
    /\ UNCHANGED <<cfg, state, ctx, instances, used, op, target, victims, added>>

(* The exit code is read here for the first time, and nowhere after: 0, or *)
(* 1 for every other code and for a signal.                                *)
handleOneshotExit(o, exitCode) ==
    /\ inst[o].mon = "stopped" /\ cfg.type = "oneshot"
    /\ inst' = [inst EXCEPT ![o].mon = "scan",
                            ![o].st = IF exitCode = 0 THEN "completed" ELSE "failed"]
    /\ UNCHANGED <<cfg, state, ctx, instances, used, op, target, victims, added>>

(* The monitor decides.  attemptRestart starts to wait on s.ctx, which     *)
(* panics (recovered: Failed) when Stop has cleared it.                    *)
Decide(o, exitCode) ==
    /\ inst[o].mon = "stopped" /\ cfg.type = "longrun"
    /\ LET restart == /\ inst[o].allowRestart
                      /\ ShouldRestart(cfg.policy, MaxAttempts, exitCode, inst[o].attempt)
       IN  inst' = CASE ~inst[o].allowRestart -> [inst EXCEPT ![o].mon = "done"]
                        [] restart /\ ctx = "none" -> [inst EXCEPT ![o].mon = "done", ![o].st = "failed"]
                        [] restart /\ ctx = "live" -> [inst EXCEPT ![o].mon = "backoff"]
                        [] restart /\ ctx = "cancelled" -> [inst EXCEPT ![o].mon = "cancelled"]
                        [] OTHER -> [inst EXCEPT ![o].mon = "scan"]
    /\ UNCHANGED <<cfg, state, ctx, instances, used, op, target, victims, added>>

(* The backoff is over; s.ctx is read again.                               *)
BackoffOver(o) ==
    /\ inst[o].mon \in {"backoff", "detached", "cancelled"}
    /\ inst' = CASE ctx = "live"      -> [inst EXCEPT ![o].mon = "start"]
                 [] ctx = "cancelled" -> [inst EXCEPT ![o].mon = "done"]
                 [] ctx = "none"      -> [inst EXCEPT ![o].mon = "done", ![o].st = "failed"]
    /\ UNCHANGED <<cfg, state, ctx, instances, used, op, target, victims, added>>

(* The context was cancelled during the backoff.                           *)
BackoffCancelled(o) ==
    /\ inst[o].mon = "cancelled"
    /\ inst' = [inst EXCEPT ![o].mon = "done"]
    /\ UNCHANGED <<cfg, state, ctx, instances, used, op, target, victims, added>>

ReplacementStarts(o) ==
    /\ inst[o].mon = "start" /\ ctx = "live"
    /\ used < cfg.objects
    /\ used' = used + 1
    /\ inst' = [inst EXCEPT ![o].mon = "count", ![o].child = used + 1,
                            ![used + 1] = startInstance(inst[o].index)]
    /\ UNCHANGED <<cfg, state, ctx, instances, op, target, victims, added>>

(* startInstance fails (a cancelled context included), or panics on a nil  *)
(* one.                                                                    *)
ReplacementFails(o) ==
    /\ inst[o].mon = "start"
    /\ inst' = [inst EXCEPT ![o].st = "failed", ![o].mon = IF ctx = "none" THEN "done" ELSE "scan"]
    /\ UNCHANGED <<cfg, state, ctx, instances, used, op, target, victims, added>>

(* The replacement already runs when it is given the restart count, and    *)
(* when it takes the place of the first listed instance with its id.       *)
CountRestart(o) ==
    /\ inst[o].mon = "count"
    /\ inst' = [inst EXCEPT ![o].mon = "adopt",
                            ![inst[o].child].restartCount = inst[o].attempt + 1]
    /\ UNCHANGED <<cfg, state, ctx, instances, used, op, target, victims, added>>

SameId(o) == {i \in DOMAIN instances : inst[instances[i]].index = inst[o].index}

Adopt(o) ==
    /\ inst[o].mon = "adopt"
    /\ inst' = [inst EXCEPT ![o].mon = "done"]
    /\ instances' = [i \in DOMAIN instances |->
                        IF i \in SameId(o) /\ \A j \in SameId(o) : i <= j
                        THEN inst[o].child ELSE instances[i]]
    /\ UNCHANGED <<cfg, state, ctx, used, op, target, victims, added>>

(* checkAllInstancesDead: look under the lock, act after it is released.   *)
AllDead == \A o \in Listed : inst[o].st # "running"

ScanInstances(o) ==
    /\ inst[o].mon = "scan"
    /\ inst' = [inst EXCEPT ![o].mon = IF AllDead /\ instances # <<>> THEN "declare" ELSE "done"]
    /\ UNCHANGED <<cfg, state, ctx, instances, used, op, target, victims, added>>

DeclareDead(o) ==
    /\ inst[o].mon = "declare"
    /\ inst' = [inst EXCEPT ![o].mon = "done"]
    /\ state' = IF cfg.type # "oneshot" /\ state \in {"running", "starting"}
                THEN "failed" ELSE state
    /\ UNCHANGED <<cfg, ctx, instances, used, op, target, victims, added>>

MonitorStep(o) ==
    \/ \E up \in BOOLEAN : RecordExit(o, up)
    \/ \E exitCode \in {0, 1} : handleOneshotExit(o, exitCode) \/ Decide(o, exitCode)
    \/ BackoffOver(o)
    \/ BackoffCancelled(o)
    \/ ReplacementStarts(o)
    \/ ReplacementFails(o)
    \/ CountRestart(o)
    \/ Adopt(o)
    \/ ScanInstances(o)
    \/ DeclareDead(o)

-----------------------------------------------------------------------------
CallStep ==
    \E r \in Calls :
        \/ StartNoop(r)
        \/ StartOK(r)
        \/ \E k \in 0..MaxScale : StartFails(r, k)
        \/ ScaleUpRejected(r)
        \/ ScaleUpBegin(r)
        \/ ScaleDownRejected(r)
        \/ ScaleDownBegin(r)
        \/ StopBegin(r)

OperationStep ==
    \/ ScaleUpStart
    \/ ScaleUpFails
    \/ ScaleUpAbort
    \/ ScaleUpCommit
    \/ ScaleDownEnd
    \/ StopDrain
    \/ StopEnd

Next ==
    \/ CallStep
    \/ OperationStep
    \/ \E o \in Obj : \/ StopStep(o)
                      \/ MonitorStep(o)
                      \/ ProcessExit(o)

Spec == Init /\ [][Next]_vars

(* The goroutines of the operation in progress keep running and their      *)
(* timers fire.  Nothing is assumed about monitors, nor about when, or     *)
(* whether, a process exits.                                               *)
Fairness == WF_vars(OperationStep \/ \E o \in Obj : StopStep(o))

FairSpec == Spec /\ Fairness

-----------------------------------------------------------------------------
TypeOK ==
    /\ cfg \in Setups
    /\ state \in {"stopped", "starting", "running", "stopping", "failed"}
    /\ ctx \in {"none", "live", "cancelled"}
    /\ instances \in Seq(Obj)
    /\ inst \in [Obj -> InstanceType]
    /\ used \in 0..MaxObj
    /\ op \in {"none", "up", "upfail", "down", "stop", "drain"}
    /\ target \in 0..MaxScale
    /\ victims \subseteq Obj
    /\ added \in Seq(Obj)

(* stopInstance returns nil only for a process that is really gone: ScaleDown *)
(* and Stop take that nil as permission to forget the instance, also when  *)
(* an earlier stop of it timed out and is being retried.                   *)
StopIsTruthful == \A o \in Obj : inst[o].stop \in {"gone", "ok"} => inst[o].proc = "dead"

Claimed(o) == inst[o].st = "stopping" \/ inst[o].stop \in {"grace", "kill", "escalate", "ok", "err"}

(* An instance that a stop found running never comes back: its monitor,    *)
(* whenever it gets to decide, is not on the way to a replacement.         *)
ClaimedNeverRestarts == \A o \in Obj : Claimed(o) => inst[o].mon \notin Restarting

(* A live process never looks stopped, completed or failed in the instance *)
(* list, so neither the API nor checkAllInstancesDead can take it for dead.*)
LiveLooksLive == \A o \in Obj : Live(o) => inst[o].st \in {"running", "stopping"}

(* Without restarts (policy never, or a oneshot) every live process is in  *)
(* the instance list, or belongs to the scale-up in progress, or is one    *)
(* whose stop failed while a scale-up was rolled back.                     *)
NoOrphansWithoutRestarts ==
    cfg.policy = "never" \/ cfg.type = "oneshot" =>
        \A o \in Obj : Live(o) => o \in Listed \cup Range(added) \/ inst[o].stop = "err"

(* Whatever processes and kill signals do, the operation that holds        *)
(* operationMu releases it: no stop can hang the manager behind it.        *)
OperationsEnd == (op # "none") ~> (op = "none")

(* Not checked, violated: no live process is missing from the list while   *)
(* no operation and no restart is in progress: "calling stopInstance means *)
(* this instance must not come back" (supervisor.go:1704), and what the    *)
(* caller has dropped from the list leaves no live process behind.         *)
NoOrphans ==
    op = "none" =>
        \A o \in Obj :
            Live(o) => \/ o \in Listed
                       \/ inst[o].stop = "err"
                       \/ \E p \in Obj : inst[p].child = o /\ inst[p].mon \in {"count", "adopt"}
=============================================================================
