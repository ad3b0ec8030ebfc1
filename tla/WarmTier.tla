------------------------------ MODULE WarmTier ------------------------------
(***************************************************************************)
(* The warm tier: a workload that is checkpointed when it is idle and      *)
(* restored by the next connection (internal/snapshot: proxy.go, idle.go,  *)
(* coordinator.go, control.go, client.go; the checkpoint operations and    *)
(* monitorRestored of internal/process/supervisor.go).                     *)
(*                                                                         *)
(* Four parties: the proxy's connection handlers, the coordinator's sleep  *)
(* and Wake under opMu (lock), the monitors of the one supervised process, *)
(* and the node agent behind a control channel that may break or go        *)
(* silent.  The agent is external: it carries a request out, or refuses    *)
(* it, at any time after it was sent, also when nobody waits any more.     *)
(* Deadlines may pass whenever they are armed.  The control calls of the   *)
(* management API are not in this module.                                  *)
(***************************************************************************)
EXTENDS Integers, FiniteSets

CONSTANTS
    Conns,        \* slots for connections; each is used again and again
    Requested,    \* whether sleep is called by the idle loop (FALSE), by the API (TRUE)
    MaxObj,       \* bound: instance objects
    MaxRestores,  \* bound: restores the agent performs
    MaxFailures   \* maxCheckpointFailures (3 in the source)

ASSUME WarmTierAssumption ==
    /\ Conns \cap {"free", "sleep"} = {}
    /\ Requested \subseteq BOOLEAN
    /\ MaxObj \in Nat \ {0}
    /\ MaxRestores \in Nat
    /\ MaxFailures \in Nat \ {0}

VARIABLES
    asleep,     \* Proxy.asleep
    conn,       \* the handler of each connection
    waker,      \* the Wake goroutine of each handler
    expired,    \* the connections whose wake deadline has passed
    lock,       \* who holds opMu: "free", "sleep" or a connection's Wake
    sleep,      \* how far Coordinator.sleep is
    failures,   \* Coordinator.failures
    disabled,   \* Coordinator.disabled is set
    fenced,     \* PID 1 has exited because an outcome was unknown
    agent,      \* the request the agent has and has not answered
    reply,      \* its answer on the control channel
    broken,     \* Client.broken
    image,      \* the instance whose images the agent has, 0 for none
    restores,   \* bound: restores performed
    inst,       \* the instance objects, their process trees and monitors
    listed,     \* the one entry of s.instances
    used,       \* how many instance objects exist
    paused,     \* the health monitor is paused
    dead,       \* checkAllInstancesDead has reported the workload dead
    overtaken   \* history: a restore came before the monitor recorded the dump

proxyVars == <<asleep, conn, waker, expired>>
coordVars == <<lock, sleep, failures, disabled, fenced>>
agentVars == <<agent, reply, broken, image, restores>>
workVars  == <<inst, listed, used, paused, dead, overtaken>>
vars      == <<proxyVars, coordVars, agentVars, workVars>>

Obj == 1..MaxObj

InstanceType ==
    [st : {"none", "running", "stopped", "failed", "checkpointed"},
     checkpointing : BOOLEAN,
     allowRestart : BOOLEAN,
     tree : {"none", "alive", "dead"},              \* its process tree
     mon : {"none", "wait", "exited", "done"},      \* monitorInstance
     watchers : 0..MaxRestores,                     \* monitorRestored goroutines
     retries : 0..MaxRestores + 1]                  \* attemptRestart calls in progress

Blank ==
    [st |-> "none", checkpointing |-> FALSE, allowRestart |-> FALSE, tree |-> "none",
     mon |-> "none", watchers |-> 0, retries |-> 0]

startInstance ==
    [st |-> "running", checkpointing |-> FALSE, allowRestart |-> TRUE, tree |-> "alive",
     mon |-> "wait", watchers |-> 0, retries |-> 0]

(* Activity.Counts: a connection is open from Opened (or Observed) to the  *)
(* end of its handler, so every one in flight is also open.                *)
Open == {c \in Conns : conn[c] # "none"}

Trees == {o \in Obj : inst[o].tree = "alive"}

(* The warm tier is active: the workload runs, the agent has registered it.*)
Init ==
    /\ asleep = FALSE
    /\ conn = [c \in Conns |-> "none"]
    /\ waker = [c \in Conns |-> "none"]
    /\ expired = {}
    /\ lock = "free" /\ sleep = "none"
    /\ failures = 0 /\ disabled = FALSE /\ fenced = FALSE
    /\ agent = "none" /\ reply = "none" /\ broken = FALSE
    /\ image = 0 /\ restores = 0
    /\ inst = [o \in Obj |-> IF o = 1 THEN startInstance ELSE Blank]
    /\ listed = 1 /\ used = 1
    /\ paused = FALSE /\ dead = FALSE /\ overtaken = FALSE

-----------------------------------------------------------------------------
(* Proxy.handle.  A connection is counted before its handler looks at      *)
(* asleep.                                                                 *)
Handler(c, pc) ==
    /\ conn' = [conn EXCEPT ![c] = pc]
    /\ UNCHANGED <<coordVars, agentVars, workVars>>

(* A connection to the service port, or to the observation port.           *)
Accept(c) ==
    /\ conn[c] = "none" /\ waker[c] = "none"
    /\ Handler(c, "opened") \/ Handler(c, "observing")
    /\ UNCHANGED <<asleep, waker, expired>>

CheckAsleep(c) ==
    /\ conn[c] = "opened"
    /\ \/ ~asleep /\ Handler(c, "serving") /\ UNCHANGED waker
       \/ asleep /\ Handler(c, "waking") /\ waker' = [waker EXCEPT ![c] = "queued"]
    /\ UNCHANGED <<asleep, expired>>

(* handleObservation never wakes the workload.                             *)
handleObservation(c) ==
    /\ conn[c] = "observing"
    /\ Handler(c, IF asleep THEN "none" ELSE "serving")
    /\ UNCHANGED <<asleep, waker, expired>>

(* Mutant of WakeExpires: the wake context has no deadline.                *)
WakeExpiresNever(c) ==
    /\ conn[c] = "waking" /\ c \notin expired /\ fenced
    /\ expired' = expired \cup {c}
    /\ UNCHANGED <<asleep, conn, waker, coordVars, agentVars, workVars>>

(* wakeTimeout is over.                                                    *)
WakeExpires(c) ==
    /\ conn[c] = "waking" /\ c \notin expired
    /\ expired' = expired \cup {c}
    /\ UNCHANGED <<asleep, conn, waker, coordVars, agentVars, workVars>>

Over(c) == waker' = [waker EXCEPT ![c] = "none"] /\ expired' = expired \ {c}

(* wake: the answer of the Wake goroutine, or the deadline; the goroutine  *)
(* then goes on by itself.                                                 *)
wake(c) ==
    /\ conn[c] = "waking"
    /\ \/ waker[c] = "ok" /\ Handler(c, "woken") /\ Over(c)
       \/ waker[c] = "failed" /\ Handler(c, "none") /\ Over(c)
       \/ c \in expired /\ Handler(c, "none") /\ UNCHANGED <<waker, expired>>
    /\ UNCHANGED asleep

(* The goroutine nobody waits for any more ends.                           *)
WakerEnds(c) ==
    /\ conn[c] = "none" /\ waker[c] \in {"ok", "failed"}
    /\ Over(c)
    /\ UNCHANGED <<asleep, conn, coordVars, agentVars, workVars>>

AfterWake(c) ==
    /\ conn[c] = "woken"
    /\ Handler(c, "serving")
    /\ asleep' = FALSE
    /\ UNCHANGED <<waker, expired>>

(* dialUpstream and splice, until either side ends or the dial gives up.   *)
Served(c) ==
    /\ conn[c] = "serving"
    /\ Handler(c, "none")
    /\ UNCHANGED <<asleep, waker, expired>>

-----------------------------------------------------------------------------
(* Coordinator.sleep, from the idle loop or as Sleep from the API.         *)
SleepStep(pc) ==
    /\ sleep' = pc
    /\ UNCHANGED <<conn, waker, expired>>

BackOut ==
    /\ sleep' = "none" /\ lock' = "free"
    /\ asleep' = FALSE
    /\ UNCHANGED <<conn, waker, expired>>

(* The lock and the early returns; only the idle loop asks for idleness.   *)
SleepBegin(requested) ==
    /\ lock = "free" /\ ~disabled /\ ~asleep
    /\ requested \/ Open = {}
    /\ lock' = "sleep"
    /\ SleepStep("decided")
    /\ UNCHANGED <<asleep, failures, disabled, fenced, agentVars, workVars>>

(* Mutant of SleepMark: the proxy is not told.                             *)
SleepMarkNot ==
    /\ sleep = "decided"
    /\ SleepStep("marked")
    /\ UNCHANGED <<asleep, lock, failures, disabled, fenced, agentVars, workVars>>

(* The flag first, then the count: a connection the count does not see is  *)
(* to see the flag.                                                        *)
SleepMark ==
    /\ sleep = "decided"
    /\ asleep' = TRUE
    /\ SleepStep("marked")
    /\ UNCHANGED <<lock, failures, disabled, fenced, agentVars, workVars>>

SleepCount ==
    /\ sleep = "marked"
    /\ IF Open # {} THEN BackOut ELSE SleepStep("quiet") /\ UNCHANGED <<asleep, lock>>
    /\ UNCHANGED <<failures, disabled, fenced, agentVars, workVars>>

(* The application's own quiescence check, which may refuse or time out.   *)
Quiesce ==
    /\ sleep = "quiet"
    /\ \/ BackOut
       \/ SleepStep("recount") /\ UNCHANGED <<asleep, lock>>
    /\ UNCHANGED <<failures, disabled, fenced, agentVars, workVars>>

(* The second count; the caller's context may also be cancelled by now.    *)
SleepRecount ==
    /\ sleep = "recount"
    /\ \/ BackOut
       \/ Open = {} /\ SleepStep("begin") /\ UNCHANGED <<asleep, lock>>
    /\ UNCHANGED <<failures, disabled, fenced, agentVars, workVars>>

(* BeginCheckpoint: with nothing running, the probes are resumed at once.  *)
BeginCheckpoint ==
    /\ sleep = "begin"
    /\ IF inst[listed].st = "running"
       THEN /\ inst' = [inst EXCEPT ![listed].checkpointing = TRUE, ![listed].allowRestart = FALSE]
            /\ paused' = TRUE
            /\ SleepStep("send") /\ UNCHANGED <<asleep, lock>>
       ELSE BackOut /\ paused' = FALSE /\ UNCHANGED inst
    /\ UNCHANGED <<listed, used, dead, overtaken, failures, disabled, fenced, agentVars>>

(* Client.request.  Nothing is sent on a broken channel or for a caller    *)
(* that is gone; a write that fails breaks the channel.                    *)
Sent(op) == agent' = op /\ UNCHANGED <<reply, broken, image, restores>>

Unsent == \/ broken /\ UNCHANGED agentVars
          \/ ~broken /\ broken' = TRUE /\ UNCHANGED <<agent, reply, image, restores>>

CheckpointSend ==
    /\ sleep = "send"
    /\ \/ ~broken /\ Sent("dump") /\ SleepStep("await") /\ UNCHANGED asleep
       \/ Unsent /\ SleepStep("aborting_lost") /\ asleep' = FALSE
       \/ ~broken /\ SleepStep("aborting") /\ asleep' = FALSE /\ UNCHANGED agentVars
    /\ UNCHANGED <<lock, failures, disabled, fenced, workVars>>

CheckpointReply ==
    /\ sleep = "await" /\ reply # "none"
    /\ IF reply = "ok" THEN SleepStep("complete") /\ UNCHANGED asleep
                       ELSE SleepStep("aborting") /\ asleep' = FALSE
    /\ reply' = "none"
    /\ UNCHANGED <<lock, failures, disabled, fenced, agent, broken, image, restores, workVars>>

(* Mutant of AbortCheckpoint: the probes stay paused.                      *)
AbortCheckpointPaused ==
    /\ sleep \in {"aborting", "aborting_lost"}
    /\ inst' = IF inst[listed].checkpointing
               THEN [inst EXCEPT ![listed].checkpointing = FALSE, ![listed].allowRestart = TRUE]
               ELSE inst
    /\ failures' = failures + 1
    /\ disabled' = (disabled \/ sleep = "aborting_lost" \/ failures + 1 >= MaxFailures)
    /\ SleepStep("none") /\ lock' = "free"
    /\ UNCHANGED <<asleep, fenced, listed, used, paused, dead, overtaken, agentVars>>

(* AbortCheckpoint and penalise: admission is already open again.          *)
AbortCheckpoint ==
    /\ sleep \in {"aborting", "aborting_lost"}
    /\ inst' = IF inst[listed].checkpointing
               THEN [inst EXCEPT ![listed].checkpointing = FALSE, ![listed].allowRestart = TRUE]
               ELSE inst
    /\ paused' = FALSE
    /\ failures' = failures + 1
    /\ disabled' = (disabled \/ sleep = "aborting_lost" \/ failures + 1 >= MaxFailures)
    /\ SleepStep("none") /\ lock' = "free"
    /\ UNCHANGED <<asleep, fenced, listed, used, dead, overtaken, agentVars>>

(* CompleteCheckpoint: the tree is reaped, and an instance nothing waited  *)
(* for is settled.                                                         *)
CompleteCheckpoint ==
    /\ sleep = "complete"
    /\ inst' = IF inst[listed].checkpointing
               THEN [inst EXCEPT ![listed].st = "checkpointed"] ELSE inst
    /\ failures' = 0
    /\ SleepStep("none") /\ lock' = "free"
    /\ UNCHANGED <<asleep, disabled, fenced, listed, used, paused, dead, overtaken, agentVars>>

-----------------------------------------------------------------------------
(* Coordinator.Wake, once per client that saw the flag.                    *)
WakeStep(c, pc) ==
    /\ waker' = [waker EXCEPT ![c] = pc]
    /\ UNCHANGED <<conn, expired>>

Unlock(c, pc) == WakeStep(c, pc) /\ lock' = "free"

(* lockOperation polls for the lock and for the deadline; then: already    *)
(* awake, too late, or the restore.                                        *)
WakeLock(c) ==
    /\ waker[c] = "queued"
    /\ \/ c \in expired /\ WakeStep(c, "failed") /\ UNCHANGED lock
       \/ /\ c \notin expired /\ lock = "free"
          /\ IF asleep THEN WakeStep(c, "locked") /\ lock' = c
                       ELSE WakeStep(c, "ok") /\ UNCHANGED lock
    /\ UNCHANGED <<asleep, sleep, failures, disabled, fenced, agentVars, workVars>>

RestoreSend(c) ==
    /\ waker[c] = "locked"
    /\ \/ c \in expired /\ Unlock(c, "failed") /\ UNCHANGED agentVars
       \/ c \notin expired /\ ~broken /\ Sent("restore") /\ WakeStep(c, "await") /\ UNCHANGED lock
       \/ Unsent /\ WakeStep(c, "cold") /\ UNCHANGED lock
    /\ UNCHANGED <<asleep, sleep, failures, disabled, fenced, workVars>>

(* Running again; a refusal leaves the workload asleep for the next one;   *)
(* images that are gone need a cold start.                                 *)
RestoreReply(c) ==
    /\ waker[c] = "await" /\ reply # "none"
    /\ \/ reply = "ok" /\ WakeStep(c, "restored") /\ UNCHANGED lock
       \/ reply = "refused" /\ Unlock(c, "failed")
       \/ reply = "gone" /\ WakeStep(c, "cold") /\ UNCHANGED lock
    /\ reply' = "none"
    /\ UNCHANGED <<asleep, sleep, failures, disabled, fenced, agent, broken, image, restores, workVars>>

EndCheckpoint(c) ==
    /\ waker[c] = "restored"
    /\ IF inst[listed].st = "checkpointed"
       THEN /\ inst' = [inst EXCEPT ![listed].st = "running",
                                    ![listed].checkpointing = FALSE,
                                    ![listed].allowRestart = TRUE,
                                    ![listed].watchers = @ + 1]
            /\ paused' = FALSE
            /\ overtaken' = (overtaken \/ inst[listed].mon = "exited")
       ELSE UNCHANGED <<inst, paused, overtaken>>
    /\ WakeStep(c, "awake")
    /\ UNCHANGED <<asleep, coordVars, agentVars, listed, used, dead>>

(* The flag is cleared here, whether or not a handler still waits.         *)
WakeDone(c) ==
    /\ waker[c] = "awake"
    /\ asleep' = FALSE
    /\ Unlock(c, "ok")
    /\ UNCHANGED <<sleep, failures, disabled, fenced, agentVars, workVars>>

(* ColdStart (RecoverCheckpointed): a fresh instance for a checkpointed    *)
(* one; nothing checkpointed is a success.                                 *)
Recovered ==
    /\ inst' = [inst EXCEPT ![listed].checkpointing = FALSE, ![used + 1] = startInstance]
    /\ listed' = used + 1
    /\ used' = used + 1

ColdStart(c) ==
    /\ waker[c] = "cold"
    /\ IF inst[listed].st = "checkpointed"
       THEN used < MaxObj /\ Recovered /\ paused' = FALSE
       ELSE UNCHANGED <<inst, listed, used, paused>>
    /\ disabled' = TRUE
    /\ WakeStep(c, "cold_started")
    /\ UNCHANGED <<asleep, lock, sleep, failures, fenced, agentVars, dead, overtaken>>

ColdStarted(c) ==
    /\ waker[c] = "cold_started"
    /\ asleep' = FALSE
    /\ Unlock(c, "ok")
    /\ UNCHANGED <<sleep, failures, disabled, fenced, agentVars, workVars>>

(* The replacement cannot be started: the proxy stays asleep.              *)
ColdStartFails(c) ==
    /\ waker[c] = "cold" /\ inst[listed].st = "checkpointed"
    /\ inst' = [inst EXCEPT ![listed].checkpointing = FALSE, ![listed].st = "failed"]
    /\ paused' = FALSE
    /\ disabled' = TRUE
    /\ Unlock(c, "failed")
    /\ UNCHANGED <<asleep, sleep, failures, fenced, agentVars, listed, used, dead, overtaken>>

-----------------------------------------------------------------------------
(* A request was sent and no answer came in time: the outcome is unknown.  *)
Waiting == sleep = "await" \/ \E c \in Conns : waker[c] = "await"

(* Mutant of fenceUncertain: the channel is lost, so cold start in place.  *)
coldStartUncertain ==
    /\ Waiting
    /\ broken' = TRUE
    /\ IF sleep = "await"
       THEN SleepStep("aborting_lost") /\ UNCHANGED asleep
       ELSE /\ waker' = [c \in Conns |-> IF waker[c] = "await" THEN "cold" ELSE waker[c]]
            /\ UNCHANGED <<asleep, conn, expired, sleep>>
    /\ UNCHANGED <<lock, failures, disabled, fenced, agent, reply, image, restores, workVars>>

(* fenceUncertain: PID 1 exits, and the kernel ends every process of the   *)
(* container, also one that the agent is only just restoring.              *)
fenceUncertain ==
    /\ Waiting
    /\ fenced' = TRUE /\ disabled' = TRUE
    /\ asleep' = TRUE
    /\ broken' = TRUE
    /\ inst' = [o \in Obj |-> IF inst[o].tree = "alive" THEN [inst[o] EXCEPT !.tree = "dead"] ELSE inst[o]]
    /\ UNCHANGED <<conn, waker, expired, lock, sleep, failures, agent, reply, image, restores,
                   listed, used, paused, dead, overtaken>>

-----------------------------------------------------------------------------
(* The agent.  A dump ends the tree; a restore brings it back and uses the *)
(* images up.  An answer on a channel that was closed is lost.             *)
Answers(r) ==
    /\ agent' = "none"
    /\ reply' = IF broken THEN "none" ELSE r
    /\ UNCHANGED <<broken, proxyVars, coordVars>>

Exits(o) == [inst EXCEPT ![o].tree = "dead", ![o].mon = IF @ = "wait" THEN "exited" ELSE @]

AgentDumps ==
    /\ agent = "dump" /\ inst[listed].tree = "alive"
    /\ inst' = Exits(listed)
    /\ image' = listed
    /\ Answers("ok")
    /\ UNCHANGED <<restores, listed, used, paused, dead, overtaken>>

AgentRestores ==
    /\ agent = "restore" /\ image # 0 /\ restores < MaxRestores
    /\ inst' = [inst EXCEPT ![image].tree = "alive"]
    /\ image' = 0 /\ restores' = restores + 1
    /\ Answers("ok")
    /\ UNCHANGED <<listed, used, paused, dead, overtaken>>

AgentRefuses ==
    /\ agent = "dump" \/ (agent = "restore" /\ image # 0)
    /\ Answers("refused")
    /\ UNCHANGED <<image, restores, workVars>>

AgentLosesImage ==
    /\ agent = "restore"
    /\ image' = 0
    /\ Answers("gone")
    /\ UNCHANGED <<restores, workVars>>

-----------------------------------------------------------------------------
(* The workload crashes.                                                   *)
Crash(o) ==
    /\ inst[o].tree = "alive"
    /\ inst' = Exits(o)
    /\ UNCHANGED <<proxyVars, coordVars, agentVars, listed, used, paused, dead, overtaken>>

(* A process that stopped is restarted or, by its policy, not; then        *)
(* checkAllInstancesDead looks at the one listed instance.                 *)
Decided(o, r) ==
    \/ /\ inst[o].allowRestart
       /\ inst' = [inst EXCEPT ![o] = [r EXCEPT !.retries = @ + 1]]
       /\ UNCHANGED dead
    \/ /\ inst' = [inst EXCEPT ![o] = r]
       /\ dead' = (dead \/ inst'[listed].st \notin {"running", "checkpointed"})

(* monitorInstance has seen the exit of the process it waited for.  One    *)
(* that may not restart, and was not dumped, is left as it is.             *)
RecordExit(o) ==
    /\ inst[o].mon = "exited"
    /\ \/ /\ inst[o].checkpointing \/ ~inst[o].allowRestart
          /\ inst' = [inst EXCEPT ![o].mon = "done",
                         ![o].st = IF inst[o].checkpointing THEN "checkpointed" ELSE "stopped"]
          /\ UNCHANGED dead
       \/ /\ ~inst[o].checkpointing /\ inst[o].allowRestart
          /\ Decided(o, [inst[o] EXCEPT !.mon = "done", !.st = "stopped"])
    /\ UNCHANGED <<proxyVars, coordVars, agentVars, listed, used, paused, overtaken>>

(* monitorRestored, at a tick: no longer its business; or the pid is gone. *)
monitorRestored(o) ==
    /\ inst[o].watchers > 0
    /\ \/ /\ inst[o].st # "running"
          /\ inst' = [inst EXCEPT ![o].watchers = @ - 1]
          /\ UNCHANGED dead
       \/ /\ inst[o].st = "running" /\ inst[o].tree = "dead"
          /\ Decided(o, [inst[o] EXCEPT !.watchers = @ - 1, !.st = "stopped"])
    /\ UNCHANGED <<proxyVars, coordVars, agentVars, listed, used, paused, overtaken>>

(* attemptRestart, after its backoff: a replacement takes the place of the *)
(* listed instance, or cannot be started.                                  *)
attemptRestart(o) ==
    /\ inst[o].retries > 0 /\ used < MaxObj
    /\ inst' = [inst EXCEPT ![o].retries = @ - 1, ![used + 1] = startInstance]
    /\ listed' = used + 1
    /\ used' = used + 1
    /\ UNCHANGED <<proxyVars, coordVars, agentVars, paused, dead, overtaken>>

attemptRestartFails(o) ==
    /\ inst[o].retries > 0
    /\ inst' = [inst EXCEPT ![o].retries = @ - 1, ![o].st = "failed"]
    /\ dead' = (dead \/ inst'[listed].st \notin {"running", "checkpointed"})
    /\ UNCHANGED <<proxyVars, coordVars, agentVars, listed, used, paused, overtaken>>

-----------------------------------------------------------------------------
HandlerStep(c) == CheckAsleep(c) \/ AfterWake(c) \/ handleObservation(c)

WakeSteps(c) ==
    \/ WakeExpires(c) \/ wake(c) \/ WakerEnds(c) \/ WakeLock(c) \/ RestoreSend(c)
    \/ RestoreReply(c) \/ EndCheckpoint(c) \/ WakeDone(c) \/ ColdStart(c) \/ ColdStarted(c)
    \/ ColdStartFails(c)

SleepSteps ==
    \/ SleepMark \/ SleepCount \/ Quiesce \/ SleepRecount \/ BeginCheckpoint \/ CheckpointSend
    \/ CheckpointReply \/ AbortCheckpoint \/ CompleteCheckpoint

AgentStep == AgentDumps \/ AgentRestores \/ AgentRefuses \/ AgentLosesImage

WorkloadStep(o) ==
    Crash(o) \/ RecordExit(o) \/ monitorRestored(o) \/ attemptRestart(o) \/ attemptRestartFails(o)

Next ==
    \/ ~fenced /\ \E c \in Conns : Accept(c) \/ HandlerStep(c) \/ Served(c)
    \/ ~fenced /\ \E c \in Conns : WakeSteps(c)
    \/ ~fenced /\ ((\E requested \in Requested : SleepBegin(requested)) \/ SleepSteps \/ fenceUncertain)
    \/ ~fenced /\ AgentStep
    \/ ~fenced /\ \E o \in Obj : WorkloadStep(o)
    \/ fenced /\ UNCHANGED vars

Spec == Init /\ [][Next]_vars

(* The goroutines of the proxy and of the coordinator run, and deadlines   *)
(* pass.  Nothing is assumed of the agent, of the workload, of how long a  *)
(* connection lasts, or of the monitors.  (Of one client, either the       *)
(* handler or its Wake goroutine has a step to take; of sleep and an       *)
(* unanswered request, sleep or its deadline.)                             *)
Fairness ==
    /\ \A c \in Conns : WF_vars(~fenced /\ (HandlerStep(c) \/ WakeSteps(c)))
    /\ WF_vars(~fenced /\ (SleepSteps \/ fenceUncertain))

FairSpec == Spec /\ Fairness

-----------------------------------------------------------------------------
TypeOK ==
    /\ asleep \in BOOLEAN
    /\ conn \in [Conns -> {"none", "opened", "observing", "waking", "woken", "serving"}]
    /\ waker \in [Conns -> {"none", "queued", "locked", "await", "restored", "awake", "cold",
                              "cold_started", "ok", "failed"}]
    /\ expired \subseteq Conns
    /\ lock \in {"free", "sleep"} \cup Conns
    /\ sleep \in {"none", "decided", "marked", "quiet", "recount", "begin", "send", "await", "aborting",
                  "aborting_lost", "complete"}
    /\ failures \in 0..MaxFailures /\ disabled \in BOOLEAN /\ fenced \in BOOLEAN
    /\ agent \in {"none", "dump", "restore"}
    /\ reply \in {"none", "ok", "refused", "gone"}
    /\ broken \in BOOLEAN
    /\ image \in 0..MaxObj /\ restores \in 0..MaxRestores
    /\ inst \in [Obj -> InstanceType]
    /\ listed \in Obj /\ used \in Obj
    /\ paused \in BOOLEAN /\ dead \in BOOLEAN /\ overtaken \in BOOLEAN

(* From BeginCheckpoint until the dumped workload is back, or given up, no *)
(* connection is served by it: a request that comes in between waits in    *)
(* Wake, and is not frozen half way.                                       *)
Dumped == image = listed /\ inst[listed].checkpointing

NoTrafficIntoDump ==
    sleep \in {"begin", "send", "await", "complete"} \/ Dumped =>
        \A c \in Conns : conn[c] # "serving"

(* There are never two process trees, whatever the agent does with a       *)
(* request nobody waits for any more.  (Excepted: a restore that overtook  *)
(* the monitor of the dumped process.)                                     *)
OneTree == Cardinality(Trees) <= 1 \/ overtaken

(* The proxy does not believe that a running workload sleeps: it would ask *)
(* for a restore of what runs, and cold start it when there is none.       *)
AsleepIsStopped == asleep /\ lock = "free" /\ ~overtaken => Trees = {}

(* Whoever paused the health probes has resumed them when the workload is  *)
(* awake again, on every path out of a checkpoint.  (Excepted here too is  *)
(* a restore that overtook the monitor: the instance is then restarted     *)
(* twice, and the second replacement takes the place of one being dumped.) *)
ProbesResume == ~asleep /\ lock = "free" /\ ~overtaken => ~paused

(* With no operation under way, what the proxy believes, what runs and     *)
(* what is probed agree, after any refusal, lost channel, restore or cold  *)
(* start (coordinator.go, sleep and Wake).                                 *)
RestIsConsistent == AsleepIsStopped /\ ProbesResume

(* A client is never left hanging on a connection that was accepted: it is *)
(* served, or refused, or the container is fenced.                         *)
ClientAnswered == \A c \in Conns : conn[c] = "opened" ~> conn[c] \in {"none", "serving"} \/ fenced

(* Sleep and Wake always give opMu back, however silent the agent is.      *)
OperationEnds == lock # "free" ~> lock = "free" \/ fenced

(* Nobody waits for ever on an agent that is alive and silent: neither the *)
(* client of an accepted connection nor the next operation.                *)
NobodyWaits == ClientAnswered /\ OperationEnds

(* Not checked, violated: a dump is not a death (checkAllInstancesDead,    *)
(* supervisor.go:2514): "a checkpointed instance is alive-on-purpose, not  *)
(* dead", so the workload is never reported dead while its images wait to  *)
(* be restored.                                                            *)
DumpIsNoDeath == [][~dead /\ dead' => ~Dumped \/ overtaken]_vars
=============================================================================
