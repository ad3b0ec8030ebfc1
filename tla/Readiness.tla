----------------------------- MODULE Readiness -----------------------------
(***************************************************************************)
(* Container readiness: internal/readiness (Manager, the /readyz endpoint) *)
(* and the monitor of internal/process/manager_readiness.go that feeds it. *)
(*                                                                         *)
(* The monitor's pass walks m.processes under m.mu and, for each, asks the *)
(* supervisor for its state, then for its health, then hands both to the   *)
(* readiness manager, which evaluates all statuses anew and keeps the file *)
(* in step.  The file system may refuse a write or a removal, and somebody *)
(* else may delete the file.                                               *)
(***************************************************************************)
EXTENDS Naturals, FiniteSets

CONSTANTS
    Procs,      \* process names
    Checked,    \* the ones with a health check
    Oneshots,   \* the ones of type oneshot
    Listed,     \* readiness.processes: names, or {} for "all"
    Modes,      \* readiness.mode: all_healthy, all_running
    MaxChanges, \* bound: changes of the processes
    MaxFaults   \* bound: failures of the file system, deletions by others

ASSUME ReadinessAssumption ==
    /\ IsFiniteSet(Procs) /\ Checked \subseteq Procs /\ Oneshots \subseteq Procs
    /\ Listed \subseteq Procs
    /\ Modes \subseteq {"all_healthy", "all_running"}
    /\ MaxChanges \in Nat /\ MaxFaults \in Nat

VARIABLES
    sup,        \* the supervisors: registered, state, instances, health
    mode,       \* readiness.mode
    phase,      \* StartReadinessMonitor: boot, started, or monitoring
    pass,       \* the pass under way: names to do, the state read for one
    closed,     \* shutdownCh is closed: no further tick
    processes,  \* statuses the readiness manager holds, by name
    isReady, stopped,
    file,       \* the readiness file is there
    unremoved,  \* history: a removal failed and no transition came since
    changes, faults \* bounds: how many are left

readinessVars == <<sup, mode, phase, pass, closed, processes, isReady, stopped, file, unremoved,
                   changes, faults>>

States == {"starting", "running", "stopping", "stopped", "completed", "failed", "checkpointed"}
NoPass == [todo |-> {}, name |-> "none", state |-> "none"]

ReadinessInit ==
    /\ sup = [p \in Procs |-> [reg |-> TRUE, state |-> "running", known |-> FALSE, ok |-> FALSE]]
    /\ mode \in Modes
    /\ phase = "boot" /\ pass = NoPass /\ closed = FALSE
    /\ processes = << >>
    /\ isReady = FALSE /\ stopped = FALSE
    /\ file \in BOOLEAN         \* left by an earlier run of the container
    /\ unremoved = FALSE
    /\ changes = MaxChanges /\ faults = MaxFaults

----------------------------------------------------------------------------
(* The processes.                                                          *)

Change(p) ==
    /\ changes > 0 /\ changes' = changes - 1 /\ sup[p].reg
    /\ \/ \E s \in States :
             /\ s # sup[p].state
             /\ s = "completed" => p \in Oneshots
             /\ sup' = [sup EXCEPT ![p].state = s]
       \/ /\ p \in Checked /\ sup[p].state = "running"
          /\ \E ok \in BOOLEAN : sup' = [sup EXCEPT ![p].known = TRUE, ![p].ok = ok]
    /\ UNCHANGED <<mode, phase, pass, closed, processes, isReady, stopped, file, unremoved, faults>>

(* RemoveProcess takes the name out of m.processes; a pass holds m.mu.     *)
RemoveProcess(p) ==
    /\ changes > 0 /\ changes' = changes - 1 /\ sup[p].reg /\ pass = NoPass
    /\ sup' = [sup EXCEPT ![p].reg = FALSE]
    /\ UNCHANGED <<mode, phase, pass, closed, processes, isReady, stopped, file, unremoved, faults>>

----------------------------------------------------------------------------
(* The file.                                                               *)

createReadinessFile ==
    \/ file' = TRUE /\ UNCHANGED faults
    \/ faults > 0 /\ faults' = faults - 1 /\ UNCHANGED file

removeReadinessFile ==
    \/ file' = FALSE /\ unremoved' = FALSE /\ UNCHANGED faults
    \/ file /\ faults > 0 /\ faults' = faults - 1 /\ unremoved' = TRUE /\ UNCHANGED file

(* A tmpfs cleaner, a sidecar, an operator.                                *)
SomebodyDeletes ==
    /\ file /\ faults > 0
    /\ file' = FALSE /\ unremoved' = FALSE /\ faults' = faults - 1
    /\ UNCHANGED <<sup, mode, phase, pass, closed, processes, isReady, stopped, changes>>

----------------------------------------------------------------------------
(* The readiness manager.                                                  *)

(* Start: the container begins as not ready.                               *)
StartManager ==
    /\ phase = "boot" /\ phase' = "started"
    /\ removeReadinessFile
    /\ UNCHANGED <<sup, mode, pass, closed, processes, isReady, stopped, changes>>

Unknown == [state |-> "stopped", health |-> "unknown"]

(* SetTrackedProcesses, and the monitor is started.                        *)
Track ==
    /\ phase = "started" /\ phase' = "monitoring"
    /\ processes' = [p \in (IF Listed # {} THEN Listed
                            ELSE {q \in Procs : sup[q].reg /\ q \notin Oneshots}) |-> Unknown]
    /\ UNCHANGED <<sup, mode, pass, closed, isReady, stopped, file, unremoved, changes, faults>>

isProcessReady(status) ==
    \/ status.state = "healthy"
    \/ status.state = "running" /\ (mode = "all_running" \/ status.health = "healthy")

(* Mutant: a stopped manager goes on keeping the file.                     *)
setReadyAfterStop(ready) ==
    /\ isReady' = ready
    /\ \/ ready /\ (~isReady \/ ~file) /\ createReadinessFile /\ UNCHANGED unremoved
       \/ ~ready /\ isReady /\ removeReadinessFile
       \/ ready = isReady /\ (ready => file) /\ UNCHANGED <<file, unremoved, faults>>

setReady(ready) ==
    IF stopped THEN UNCHANGED <<isReady, file, unremoved, faults>>
    ELSE /\ isReady' = ready
         /\ \/ ready /\ (~isReady \/ ~file) /\ createReadinessFile /\ UNCHANGED unremoved
            \/ ~ready /\ isReady /\ removeReadinessFile
            \/ ready = isReady /\ (ready => file) /\ UNCHANGED <<file, unremoved, faults>>

(* Mutant: once ready, nothing is evaluated again.                         *)
UpdateProcessStateOnce(p, status) ==
    IF p \notin DOMAIN processes /\ Listed # {}
    THEN UNCHANGED <<processes, isReady, file, unremoved, faults>>
    ELSE /\ processes' = [q \in DOMAIN processes \cup {p} |-> IF q = p THEN status ELSE processes[q]]
         /\ IF isReady THEN UNCHANGED <<isReady, file, unremoved, faults>>
            ELSE setReady(\A q \in DOMAIN processes' : isProcessReady(processes'[q]))

(* A name nobody asked for is taken in when no list is configured.         *)
UpdateProcessState(p, status) ==
    IF p \notin DOMAIN processes /\ Listed # {}
    THEN UNCHANGED <<processes, isReady, file, unremoved, faults>>
    ELSE /\ processes' = [q \in DOMAIN processes \cup {p} |-> IF q = p THEN status ELSE processes[q]]
         /\ setReady(\A q \in DOMAIN processes' : isProcessReady(processes'[q]))

(* Stop, in Shutdown, at any moment of a pass.                             *)
StopManager ==
    /\ phase = "monitoring" /\ ~stopped
    /\ stopped' = TRUE /\ isReady' = FALSE
    /\ removeReadinessFile
    /\ UNCHANGED <<sup, mode, phase, pass, closed, processes, changes>>

(* The HTTP answer, Snapshot: from memory.                                 *)
Readyz == isReady /\ ~stopped

----------------------------------------------------------------------------
(* The monitor.                                                            *)

Tick ==
    /\ phase = "monitoring" /\ ~closed /\ pass = NoPass
    /\ {p \in Procs : sup[p].reg} # {}
    /\ pass' = [NoPass EXCEPT !.todo = {p \in Procs : sup[p].reg}]
    /\ UNCHANGED <<sup, mode, phase, closed, processes, isReady, stopped, file, unremoved,
                   changes, faults>>

Close ==
    /\ stopped /\ ~closed /\ closed' = TRUE
    /\ UNCHANGED <<sup, mode, phase, pass, processes, isReady, stopped, file, unremoved,
                   changes, faults>>

(* GetState.                                                               *)
ReadState(p) ==
    /\ pass.name = "none" /\ p \in pass.todo
    /\ pass' = [pass EXCEPT !.name = p, !.state = sup[p].state]
    /\ UNCHANGED <<sup, mode, phase, closed, processes, isReady, stopped, file, unremoved,
                   changes, faults>>

(* HealthSnapshot.                                                         *)
Health(p) == IF p \notin Checked THEN "healthy"
             ELSE IF ~sup[p].known THEN "unknown"
             ELSE IF sup[p].ok THEN "healthy" ELSE "unhealthy"

(* What updateReadinessStates makes of a state read and the health now;    *)
(* a supervisor that is starting or stopping has instances here.           *)
StatusOf(p, state) ==
    CASE state = "running" ->
           [state  |-> IF Health(p) = "healthy" THEN "healthy" ELSE "running",
            health |-> Health(p)]
      [] state = "checkpointed" -> [state |-> "healthy", health |-> "checkpointed"]
      [] state = "failed" -> [state |-> "failed", health |-> "unhealthy"]
      [] state \in {"starting", "stopping"} -> [state |-> "running", health |-> "unknown"]
      [] OTHER -> Unknown

Push ==
    /\ pass.name # "none"
    /\ UpdateProcessState(pass.name, StatusOf(pass.name, pass.state))
    /\ pass' = [NoPass EXCEPT !.todo = pass.todo \ {pass.name}]
    /\ UNCHANGED <<sup, mode, phase, closed, stopped, changes>>

ReadinessNext ==
    \/ \E p \in Procs : Change(p) \/ RemoveProcess(p) \/ ReadState(p)
    \/ SomebodyDeletes \/ StartManager \/ Track \/ StopManager \/ Tick \/ Close \/ Push

ReadinessSpec == ReadinessInit /\ [][ReadinessNext]_readinessVars

(* The monitor is a goroutine with a ticker; Start and Track are calls     *)
(* serve.go makes.                                                         *)
FairReadinessSpec ==
    /\ ReadinessSpec
    /\ WF_readinessVars(StartManager) /\ WF_readinessVars(Track)
    /\ WF_readinessVars(Tick) /\ WF_readinessVars(Push)
    /\ \A p \in Procs : WF_readinessVars(ReadState(p))

----------------------------------------------------------------------------
(* Properties.                                                             *)

(* Once the monitor runs, the readiness file is never there while /readyz  *)
(* answers 503, not even after Stop with a pass still under way, unless    *)
(* the file system refused the removal.                                    *)
FileNeverLies == phase = "monitoring" /\ file => Readyz \/ unremoved

Fine(p) == sup[p].reg /\ isProcessReady(StatusOf(p, sup[p].state))

(* Processes that stay ready get the file in the end and keep it, whatever *)
(* removed it or failed to write it before, as long as nothing has been    *)
(* stopped: every process that counts is then ready.                       *)
ReadyIsReported ==
    <>[](~stopped /\ \A p \in Procs : Fine(p)) => <>[](file /\ Readyz)

(* A process that counts and stays unready takes the file away in the end, *)
(* unless the file system refused.                                         *)
UnreadyIsReported ==
    \A p \in Procs :
        <>[](p \in DOMAIN processes /\ sup[p].reg /\ ~Fine(p))
            => <>[](~Readyz /\ (file => unremoved))

(* A state that lasts is what the orchestrator sees in the end.            *)
StateIsReported == ReadyIsReported /\ UnreadyIsReported

(* Not checked, violated: "track all enabled longrun processes": with no   *)
(* list configured, the longrun processes alone decide.                    *)
LongrunsDecide ==
    <>[](~stopped /\ \A p \in Procs \ Oneshots : Fine(p)) => <>[]Readyz

(* Not checked, violated: "container starts as not ready": no file of an   *)
(* earlier run is left by the time processes run.                          *)
StartsUnready == phase = "boot" => ~file

=============================================================================
