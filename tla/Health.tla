------------------------------- MODULE Health -------------------------------
(***************************************************************************)
(* The health checks of one process: HealthMonitor (healthcheck.go), the   *)
(* supervisor goroutine that acts on its results (handleHealthStatus), and *)
(* the readiness signals dependents wait for (markReady, resetReadiness,   *)
(* WaitForReadiness).                                                      *)
(*                                                                         *)
(* The monitor probes, judges, and sends a status through a channel of     *)
(* capacity one; the handler receives, marks the process ready or kills    *)
(* it.  In between the process may exit and be replaced, a checkpoint may  *)
(* pause the probes, and the supervisor may be stopped and started.  A     *)
(* result carries the generation the monitor had when its probe began;     *)
(* only whether it still is the monitor's matters, so a result says        *)
(* "valid" and invalidateLocked clears that wherever one is under way; the *)
(* readiness generation is treated alike.  Intervals are untimed: they may *)
(* pass at any moment.  What becomes of a process that exits while it is   *)
(* checkpointed is in WarmTier; here it does not.                          *)
(***************************************************************************)
EXTENDS Naturals

CONSTANTS
    FailureThreshold,   \* health_check.failure_threshold
    SuccessThreshold,   \* health_check.success_threshold
    MaxRestarts,        \* the restart budget of an instance
    Setups              \* health_check.mode, initial_delay > 0, restart # never

ASSUME HealthAssumption ==
    /\ {FailureThreshold, SuccessThreshold} \subseteq Nat \ {0}
    /\ MaxRestarts \in Nat
    /\ Setups \subseteq [mode : {"both", "readiness", "liveness"}, delay : BOOLEAN, restart : BOOLEAN]

VARIABLES
    cfg,        \* one of Setups
    proc,       \* the process: up, killed, exited, backoff, failed or stopped
    left,       \* restarts it has left
    answers,    \* whether a probe of it would succeed
    mon,        \* the monitor's counters and windows
    probe,      \* the monitor goroutine and the check it makes
    chan,       \* the status channel: none or one status
    handler,    \* handleHealthStatus
    signal,     \* readinessCh and readyFailedCh of this run: closed or not
    waiter,     \* a WaitForReadiness
    checkpoint, \* how far a checkpoint is: none, paused, marked
    against,    \* history: failures counted since the monitor was last reset
    proven      \* history: whose probe success this run may be ready by: none,
                \* inherited (a predecessor's only) or own

vars == <<cfg, proc, left, answers, mon, probe, chan, handler, signal, waiter,
          checkpoint, against, proven>>

Status   == [ok : BOOLEAN, healthy : BOOLEAN, valid : BOOLEAN]
NoStatus == [ok |-> FALSE, healthy |-> TRUE, valid |-> FALSE]
Alive    == proc \in {"up", "killed"}
livenessGated == cfg.mode # "readiness"

(* resetLocked; a monitor fresh from NewHealthMonitor has no windows open. *)
Reset(delay) ==
    [fails |-> 0, succ |-> 0, healthy |-> TRUE, ever |-> FALSE, fast |-> TRUE, recent |-> FALSE,
     grace |-> delay, paused |-> FALSE]
NewHealthMonitor == [Reset(FALSE) EXCEPT !.fast = FALSE]

Received == [at |-> "receive", status |-> NoStatus]
Idle(first) == [at |-> "idle", ok |-> FALSE, valid |-> FALSE, status |-> NoStatus, first |-> first]

Init ==
    /\ cfg \in Setups
    /\ proc = "up" /\ left = MaxRestarts /\ answers \in BOOLEAN
    /\ mon = NewHealthMonitor /\ probe = Idle(TRUE)
    /\ chan = {} /\ handler = Received
    /\ signal = [ready |-> FALSE, failed |-> FALSE]
    /\ waiter = [at |-> "none", valid |-> FALSE, ready |-> FALSE]
    /\ checkpoint = "none" /\ against = 0
    /\ proven = "none"

processVars == <<cfg, proc, left, answers, checkpoint>>

----------------------------------------------------------------------------
(* The monitor goroutine.                                                  *)

(* After the first check the fast-start window opens (armFastStart).       *)
Settled(m) == IF probe.first THEN [m EXCEPT !.ever = FALSE, !.recent = FALSE, !.fast = TRUE] ELSE m

(* A tick outside the grace window (or the first check), and the first     *)
(* critical section of performCheck.                                       *)
ProbeBegin ==
    /\ proc # "stopped" /\ probe.at = "idle" /\ ~mon.paused /\ (probe.first \/ ~mon.grace)
    /\ probe' = [probe EXCEPT !.at = "checking", !.valid = TRUE]
    /\ UNCHANGED <<processVars, mon, chan, handler, signal, waiter, against, proven>>

(* The first check, while paused: it is suppressed.                        *)
FirstSkipped ==
    /\ probe.first /\ probe.at = "idle" /\ mon.paused
    /\ probe' = Idle(FALSE) /\ mon' = Settled(mon)
    /\ UNCHANGED <<processVars, chan, handler, signal, waiter, against, proven>>

Check ==
    /\ probe.at = "checking"
    /\ probe' = [probe EXCEPT !.at = "checked", !.ok = (probe.valid /\ Alive /\ answers)]
    /\ proven' = IF probe.valid /\ Alive /\ answers THEN "own" ELSE proven
    /\ UNCHANGED <<processVars, mon, chan, handler, signal, waiter, against>>

(* Until its first success a monitor counts one failure per period.        *)
Throttled(m) == ~m.ever /\ m.fast /\ m.recent
LeastOf(a, b) == IF a < b THEN a ELSE b

Failed(m) ==
    LET fails == LeastOf(m.fails + 1, FailureThreshold) IN
    [m EXCEPT !.fails = fails, !.succ = 0, !.healthy = @ /\ fails < FailureThreshold,
              !.recent = @ \/ (~m.ever /\ m.fast)]

Succeeded(m) ==
    LET succ == LeastOf(m.succ + 1, SuccessThreshold) IN
    [m EXCEPT !.ever = TRUE, !.succ = succ, !.fails = 0,
              !.healthy = @ \/ succ = SuccessThreshold]

Sends(status) == [probe EXCEPT !.at = "sending", !.status = status]

(* The second critical section: a result of another generation, or one     *)
(* that is throttled, goes no further.                                     *)
Judge ==
    /\ probe.at = "checked"
    /\ \/ /\ ~probe.valid \/ (~probe.ok /\ Throttled(mon))
          /\ probe' = Idle(FALSE) /\ mon' = Settled(mon)
          /\ UNCHANGED against
       \/ /\ probe.valid /\ ~probe.ok /\ ~Throttled(mon)
          /\ mon' = Failed(mon)
          /\ against' = LeastOf(against + 1, FailureThreshold)
          /\ probe' = Sends([ok |-> FALSE, healthy |-> mon'.fails < FailureThreshold, valid |-> TRUE])
       \/ /\ probe.valid /\ probe.ok
          /\ mon' = Succeeded(mon)
          /\ probe' = Sends([ok |-> TRUE, healthy |-> mon'.healthy, valid |-> TRUE])
          /\ UNCHANGED against
    /\ UNCHANGED <<processVars, chan, handler, signal, waiter, proven>>

Send ==
    /\ probe.at = "sending" /\ chan = {}
    /\ chan' = {probe.status} /\ probe' = Idle(FALSE) /\ mon' = Settled(mon)
    /\ UNCHANGED <<processVars, handler, signal, waiter, against, proven>>

(* The grace window, the fast-start window and a period come to an end.    *)
GraceEnds  == mon.grace /\ mon' = [mon EXCEPT !.grace = FALSE]
WindowEnds == mon.fast /\ mon' = [mon EXCEPT !.fast = FALSE]
PeriodEnds == mon.recent /\ mon' = [mon EXCEPT !.recent = FALSE]

TimePasses ==
    /\ GraceEnds \/ WindowEnds \/ PeriodEnds
    /\ UNCHANGED <<processVars, probe, chan, handler, signal, waiter, against, proven>>

(* invalidateLocked, for the results that are under way: whatever they     *)
(* say, they will be dropped.                                              *)
Invalidated == [probe EXCEPT !.valid = FALSE, !.ok = FALSE, !.status = NoStatus]
Stale(sent) == {NoStatus : c \in sent}
MonitorReset(m) ==
    /\ mon' = m /\ against' = 0
    /\ probe' = Invalidated
    /\ chan' = Stale(chan)

----------------------------------------------------------------------------
(* handleHealthStatus.                                                     *)

Accepts(status) == ~mon.paused /\ status.valid

Receive ==
    /\ handler.at = "receive"
    /\ \E status \in chan :
          handler' = IF Accepts(status) THEN [at |-> "accepted", status |-> status] ELSE Received
    /\ chan' = {}
    /\ UNCHANGED <<processVars, mon, probe, signal, waiter, against, proven>>

markReady ==
    /\ handler.at = "accepted" /\ handler.status.ok
    /\ signal' = [signal EXCEPT !.ready = TRUE]
    /\ handler' = Received
    /\ UNCHANGED <<processVars, mon, probe, chan, waiter, against, proven>>

(* Mutant of Unhealthy: the default mode does not gate liveness.           *)
UnhealthyIfLiveness(status) ==
    ~status.ok /\ ~status.healthy /\ cfg.mode = "liveness" /\ cfg.restart

(* An unhealthy process is killed if the mode says so and killing it does  *)
(* not end it for good.                                                    *)
Unhealthy(status) == ~status.ok /\ ~status.healthy /\ livenessGated /\ cfg.restart

LeaveAlone ==
    /\ handler.at = "accepted" /\ ~handler.status.ok
    /\ ~Unhealthy(handler.status) \/ ~Accepts(handler.status)
    /\ handler' = Received
    /\ UNCHANGED <<processVars, mon, probe, chan, signal, waiter, against, proven>>

(* Mutant of Kill: the decision is not checked again under s.mu.           *)
KillUnchecked ==
    /\ handler.at = "accepted" /\ Unhealthy(handler.status)
    /\ proc' = IF proc = "up" /\ checkpoint # "marked" THEN "killed" ELSE proc
    /\ MonitorReset([Reset(cfg.delay) EXCEPT !.paused = mon.paused])
    /\ handler' = Received
    /\ UNCHANGED <<cfg, left, answers, checkpoint, signal, waiter, proven>>

(* The result is still the monitor's: under s.mu the running instances are *)
(* sent SIGKILL and the monitor is re-armed.                               *)
Kill ==
    /\ handler.at = "accepted" /\ Unhealthy(handler.status) /\ Accepts(handler.status)
    /\ proc' = IF proc = "up" /\ checkpoint # "marked" THEN "killed" ELSE proc
    /\ MonitorReset([Reset(cfg.delay) EXCEPT !.paused = mon.paused])
    /\ handler' = Received
    /\ UNCHANGED <<cfg, left, answers, checkpoint, signal, waiter, proven>>

----------------------------------------------------------------------------
(* The process, its restarts, and a checkpoint of it.                      *)

(* A result the handler holds turns stale with the rest.                   *)
HandlerStale == handler' = [handler EXCEPT !.status.valid = FALSE]

AnswersChange ==
    /\ proc = "up" /\ answers' = ~answers
    /\ UNCHANGED <<cfg, proc, left, checkpoint, mon, probe, chan, handler, signal, waiter, against, proven>>

Exit ==
    /\ Alive /\ checkpoint = "none" /\ proc' = "exited" /\ answers' = FALSE
    /\ UNCHANGED <<cfg, left, checkpoint, mon, probe, chan, handler, signal, waiter, against, proven>>

(* resetReadiness: the signals are new, and a waiter has the old ones.     *)
resetReadiness ==
    /\ signal' = [ready |-> FALSE, failed |-> FALSE]
    /\ waiter' = IF waiter.valid THEN [waiter EXCEPT !.valid = FALSE, !.ready = waiter.at = "watching" /\ signal.ready] ELSE waiter

(* A success that is not acted on yet: half way out of the monitor, in the *)
(* channel, or in the handler's hands.                                     *)
UnderWay ==
    \/ probe.at = "checked" /\ probe.ok
    \/ probe.at = "sending" /\ probe.status.ok
    \/ \E status \in chan : status.ok
    \/ handler.at = "accepted" /\ handler.status.ok

(* What another process takes over from the one it stands in for.          *)
Inherits(success) == proven' = IF success THEN "inherited" ELSE "none"

(* monitorInstance decides: attemptRestart as far as its backoff, or, when *)
(* the policy says no, checkAllInstancesDead.                              *)
attemptRestart ==
    /\ proc = "exited" /\ cfg.restart /\ left > 0
    /\ proc' = "backoff" /\ left' = left - 1
    /\ resetReadiness /\ Inherits(UnderWay)
    /\ UNCHANGED <<cfg, answers, checkpoint, mon, probe, chan, handler, against>>

GivesUp ==
    /\ (proc = "exited" /\ (~cfg.restart \/ left = 0)) \/ proc = "backoff"
    /\ proc' = "failed" /\ signal' = [signal EXCEPT !.failed = TRUE]
    /\ UNCHANGED <<cfg, left, answers, checkpoint, mon, probe, chan, handler, waiter, against, proven>>

Replaced ==
    /\ proc = "backoff" /\ proc' = "up" /\ answers' \in BOOLEAN
    /\ UNCHANGED <<cfg, left, checkpoint, mon, probe, chan, handler, signal, waiter, against, proven>>

(* Stop ends the monitor and the handler with their context; Start makes   *)
(* new ones.  (What HealthSnapshot shows is in module Readiness.)          *)
Stop ==
    /\ proc # "stopped" /\ checkpoint = "none" /\ proc' = "stopped" /\ answers' = FALSE
    /\ probe' = Idle(TRUE) /\ chan' = {} /\ handler' = Received
    /\ mon' = NewHealthMonitor /\ against' = 0
    /\ UNCHANGED <<cfg, left, checkpoint, signal, waiter, proven>>

Start ==
    /\ proc = "stopped" /\ proc' = "up" /\ left' = MaxRestarts /\ answers' \in BOOLEAN
    /\ resetReadiness /\ Inherits(UnderWay)
    /\ UNCHANGED <<cfg, checkpoint, mon, probe, chan, handler, against>>

(* BeginCheckpoint pauses the probes under s.mu, then marks the instance.  *)
Pause ==
    /\ proc = "up" /\ checkpoint = "none" /\ checkpoint' = "paused"
    /\ mon' = [mon EXCEPT !.paused = TRUE]
    /\ probe' = Invalidated /\ chan' = Stale(chan) /\ HandlerStale
    /\ UNCHANGED <<cfg, proc, left, answers, signal, waiter, against, proven>>

MarkCheckpointing ==
    /\ checkpoint = "paused" /\ checkpoint' = "marked"
    /\ UNCHANGED <<cfg, proc, left, answers, mon, probe, chan, handler, signal, waiter, against, proven>>

(* resumeCheckpointHealth: aborted or restored, or a cold start of a new   *)
(* process, which keeps the readiness signals of the checkpointed one.     *)
Resume(cold) ==
    /\ checkpoint = "marked" /\ checkpoint' = "none"
    /\ MonitorReset(Reset(cfg.delay)) /\ HandlerStale
    /\ answers' \in (IF cold THEN BOOLEAN ELSE {answers})
    /\ IF cold THEN Inherits(signal.ready \/ UnderWay) ELSE UNCHANGED proven
    /\ UNCHANGED <<cfg, proc, left, signal, waiter>>

----------------------------------------------------------------------------
(* WaitForReadiness of a dependent: the signals are read under the lock,   *)
(* then selected on, then the generation is compared.                      *)

NoWaiter == [at |-> "none", valid |-> FALSE, ready |-> FALSE]
Watching == [at |-> "watching", valid |-> TRUE, ready |-> FALSE]

WaitBegin ==
    /\ waiter.at = "none" \/ (waiter.at = "watching" /\ ~waiter.valid)
    /\ waiter' = Watching
    /\ UNCHANGED <<processVars, mon, probe, chan, handler, signal, against, proven>>

SeesReady ==
    /\ waiter.at = "watching"
    /\ IF waiter.valid THEN signal.ready ELSE waiter.ready
    /\ waiter' = [waiter EXCEPT !.at = "saw", !.ready = FALSE]
    /\ UNCHANGED <<processVars, mon, probe, chan, handler, signal, against, proven>>

(* Mutant of Return: the generation is not compared.                       *)
ReturnUnchecked ==
    /\ waiter.at = "saw" /\ waiter' = NoWaiter
    /\ UNCHANGED <<processVars, mon, probe, chan, handler, signal, against, proven>>

(* Ready, if the signal was this run's; otherwise the loop goes on.        *)
Return ==
    /\ waiter.at = "saw"
    /\ waiter' = IF waiter.valid THEN NoWaiter ELSE Watching
    /\ UNCHANGED <<processVars, mon, probe, chan, handler, signal, against, proven>>

(* Readiness has become impossible, or the timeout is over.                *)
WaitFails ==
    /\ waiter.at = "watching" /\ waiter' = NoWaiter
    /\ UNCHANGED <<processVars, mon, probe, chan, handler, signal, against, proven>>

----------------------------------------------------------------------------
MonitorStep == ProbeBegin \/ FirstSkipped \/ Check \/ Judge \/ Send
HandlerStep == Receive \/ markReady \/ LeaveAlone \/ Kill
ProcessStep ==
    \/ AnswersChange \/ Exit \/ attemptRestart \/ GivesUp \/ Replaced \/ Stop \/ Start
    \/ Pause \/ MarkCheckpointing \/ \E cold \in BOOLEAN : Resume(cold)
WaiterStep == WaitBegin \/ SeesReady \/ Return \/ WaitFails

Next == MonitorStep \/ TimePasses \/ HandlerStep \/ ProcessStep \/ WaiterStep

Spec == Init /\ [][Next]_vars

(* The two goroutines run, and time passes.  Nothing is assumed of the     *)
(* process, of whoever stops or checkpoints it, or of dependents.          *)
Fairness ==
    /\ WF_vars(MonitorStep) /\ WF_vars(HandlerStep)
    /\ WF_vars(GraceEnds /\ TimePasses) /\ WF_vars(WindowEnds /\ TimePasses)
    /\ WF_vars(PeriodEnds /\ TimePasses)

FairSpec == Spec /\ Fairness

----------------------------------------------------------------------------
TypeOK ==
    /\ cfg \in Setups
    /\ proc \in {"up", "killed", "exited", "backoff", "failed", "stopped"}
    /\ left \in 0..MaxRestarts /\ answers \in BOOLEAN
    /\ mon \in [fails : 0..FailureThreshold, succ : 0..SuccessThreshold, healthy : BOOLEAN,
                ever : BOOLEAN, fast : BOOLEAN, recent : BOOLEAN, grace : BOOLEAN, paused : BOOLEAN]
    /\ probe \in [at : {"idle", "checking", "checked", "sending"}, ok : BOOLEAN, valid : BOOLEAN,
                  status : Status, first : BOOLEAN]
    /\ chan \in SUBSET Status
    /\ handler \in [at : {"receive", "accepted"}, status : Status]
    /\ signal \in [ready : BOOLEAN, failed : BOOLEAN]
    /\ waiter \in [at : {"none", "watching", "saw"}, valid : BOOLEAN, ready : BOOLEAN]
    /\ checkpoint \in {"none", "paused", "marked"}
    /\ against \in 0..FailureThreshold
    /\ proven \in {"none", "inherited", "own"}

(* "the booting replacement instance is not judged against the failures    *)
(* that killed its predecessor" (Rearm), nor a restored one against those  *)
(* before its checkpoint: a process is killed only after as many failures  *)
(* as the threshold since the monitor was last reset, whatever was in the  *)
(* channel or half way through the handler, and never once a checkpoint    *)
(* has paused the probes.                                                  *)
KillIsEarned ==
    [][proc = "up" /\ proc' = "killed" => against = FailureThreshold /\ ~mon.paused]_vars

(* WaitForReadiness releases a dependent only while the readiness signal   *)
(* of the current run is closed, and only for a reason: this run has       *)
(* passed a probe of its own, or a success of its predecessor was still    *)
(* under way when it was replaced (attemptRestart makes new signals and    *)
(* does not re-arm the monitor), or it is a cold start in place of a       *)
(* checkpointed process, whose signals it keeps.  Readiness that had       *)
(* already been applied to a replaced run never releases anybody.          *)
NoStaleRelease ==
    [][waiter.at = "saw" /\ waiter'.at = "none"
           => signal.ready /\ proven # "none"]_vars

(* Not checked, and violated: "The replacement has to prove itself again"  *)
(* (supervisor.go:2214), "a replacement process must pass its own probe    *)
(* before it is ready" (supervisor.go:1428).  A predecessor's success that *)
(* is accepted during the backoff closes the new signal, and after a cold  *)
(* start the old one is still closed.                                      *)
ReleaseIsProven ==
    [][waiter.at = "saw" /\ waiter'.at = "none" => proven = "own"]_vars

(* A process that is up and no longer answers is killed, when the check    *)
(* gates liveness and the policy would bring it back: through throttling,  *)
(* grace windows, a full channel, re-arming and checkpoints that abort.    *)
WedgedIsReplaced ==
    (proc = "up" /\ ~answers /\ cfg.mode # "readiness" /\ cfg.restart)
        ~> (proc # "up" \/ answers \/ mon.paused)

(* A process that comes up, is left alone and answers becomes and stays    *)
(* ready, after any number of restarts, restores and failures before: a    *)
(* readiness of an earlier run does not count.                             *)
HealthyBecomesReady ==
    <>[](proc = "up" /\ answers /\ checkpoint = "none") => <>[]signal.ready

(* What the probes find is acted on in the end, for the worse and for the  *)
(* better, although results are discarded whenever the monitor is reset    *)
(* and the monitor waits while its channel is full (performCheck, accepts  *)
(* and handleHealthStatus).                                                *)
ProbesAct == WedgedIsReplaced /\ HealthyBecomesReady

============================================================================
