------------------------------ MODULE Schedule ------------------------------
(***************************************************************************)
(* Scheduled processes: internal/schedule (Scheduler, ScheduledJob,        *)
(* ProcessExecutor, ExecutionHistory) and the manager's calls to it, for   *)
(* one process name.                                                       *)
(*                                                                         *)
(* A job object is what AddJob makes; removing a name and adding it again  *)
(* makes a second object, and whatever still runs or waits in the first    *)
(* goes on.  An execution is a goroutine in executeSync: started by a cron *)
(* tick, by Trigger (which does not wait) or by TriggerSync (the client's  *)
(* own goroutine).  Executions of one object are serialised by             *)
(* executionMu, held from Begin to Close; state and history have locks of  *)
(* their own and change one after the other.                               *)
(***************************************************************************)
EXTENDS Naturals, Sequences, FiniteSets, SequencesExt

CONSTANTS
    Jobs,           \* job objects: 1..n in the order AddJob makes them
    Execs,          \* executions: 1..n in the order they come (a bound)
    MaxArrivals,    \* bound: objects made and executions come, together
    HistorySize     \* entries kept per job (schedule_history_size)

ASSUME ScheduleAssumption ==
    /\ IsFiniteSet(Jobs) /\ Jobs = 1..Cardinality(Jobs)
    /\ IsFiniteSet(Execs) /\ Execs = 1..Cardinality(Execs)
    /\ MaxArrivals \in Nat /\ HistorySize \in Nat \ {0}

VARIABLES
    scheduler,  \* new, started or stopped
    config,     \* the executor's configs[name]: the object it came with, or 0
    made,       \* how many objects AddJob has made
    adding,     \* the object AddJob is still wiring up, or 0
    registered, \* s.jobs[name], or 0
    job,        \* the job objects
    exec,       \* the executions
    timeout,    \* whether schedule_timeout is set
    crashed     \* PID 1 is gone: a panic nobody recovered

vars == <<scheduler, config, made, adding, registered, job, exec, timeout, crashed>>

Steps == {"unused", "checked", "waiting", "executing", "command", "returned", "left", "done"}

(* Between executionMu.Lock and its Unlock; the part of it in which the    *)
(* job's state is JobStateExecuting.                                       *)
Running == {"executing", "command", "returned"}
Holding == Running \cup {"left"}

JobType ==
    [state   : {"idle", "executing", "paused"},
     current : 0..Cardinality(Execs),
     base    : {"background", "run"},
     nextID  : 1..(Cardinality(Execs) + 1),
     history : Seq([id : Nat, ended : BOOLEAN])]

ExecType ==
    [at     : Steps,
     job    : Jobs \cup {0},
     by     : {"none", "schedule", "trigger", "sync"},
     ctx    : {"background", "run", "request", "gone"},
     id     : Nat,
     panics : BOOLEAN,
     overlap : BOOLEAN,     \* history: it came while the job was executing
     early  : BOOLEAN]      \* history: it came before AddJob was through

(* NewScheduledJobWithOptions, NewExecutionHistory.                        *)
NewJob == [state |-> "idle", current |-> 0, base |-> "background", nextID |-> 1, history |-> <<>>]
Unused == [at |-> "unused", job |-> 0, by |-> "none", ctx |-> "background", id |-> 0,
           panics |-> FALSE, overlap |-> FALSE, early |-> FALSE]
Done   == [Unused EXCEPT !.at = "done"]

Init ==
    /\ scheduler = "new" /\ config = 0 /\ made = 0 /\ adding = 0 /\ registered = 0
    /\ job = [j \in Jobs |-> NewJob]
    /\ exec = [e \in Execs |-> Unused]
    /\ timeout \in BOOLEAN
    /\ crashed = FALSE

WithinBound  == made + Cardinality({e \in Execs : exec[e].at # "unused"}) < MaxArrivals
Fresh(e)     == exec[e].at = "unused" /\ \A f \in 1..(e - 1) : exec[f].at # "unused"
Cancelled(e) == exec[e].ctx = "gone" \/ (exec[e].ctx = "run" /\ scheduler = "stopped")
At(e, step)  == exec[e].at = step
Go(e, step)  == exec' = [exec EXCEPT ![e].at = step]

(* Mutant: executionMu is released before the result is recorded.          *)
LockedWhileRunning(j) == \E e \in Execs : exec[e].job = j /\ exec[e].at \in Running

(* Some execution of the object holds executionMu.                         *)
Locked(j) == \E e \in Execs : exec[e].job = j /\ exec[e].at \in Holding

----------------------------------------------------------------------------
(* The scheduler.                                                          *)

(* registerScheduledProcess: the executor learns the command first, then   *)
(* AddJob makes the object and gives it to cron.  From here on a tick may  *)
(* come, although AddJob has not handed over the run context yet.          *)
AddJob ==
    /\ config = 0 /\ made + 1 \in Jobs /\ WithinBound
    /\ made' = made + 1 /\ config' = made' /\ adding' = made'
    /\ UNCHANGED <<scheduler, registered, job, exec, timeout, crashed>>

(* SetBaseContext, and the entry in s.jobs.                                *)
AddJobEnd ==
    /\ adding # 0
    /\ job' = [job EXCEPT ![adding].base = IF scheduler = "started" THEN "run" ELSE @]
    /\ registered' = adding /\ adding' = 0
    /\ UNCHANGED <<scheduler, config, made, exec, timeout, crashed>>

(* unregisterScheduledProcess: no tick comes after RemoveJob; executions   *)
(* under way are neither cancelled nor waited for.                         *)
RemoveJob ==
    /\ registered # 0 /\ registered' = 0
    /\ UNCHANGED <<scheduler, config, made, adding, job, exec, timeout, crashed>>

UnregisterProcess ==
    /\ adding = 0 /\ registered = 0 /\ config # 0
    /\ config' = 0
    /\ UNCHANGED <<scheduler, made, adding, registered, job, exec, timeout, crashed>>

(* Mutant: jobs added before Start keep their background context.          *)
StartWithoutContext ==
    /\ scheduler = "new" /\ adding = 0
    /\ scheduler' = "started"
    /\ UNCHANGED <<config, made, adding, registered, job, exec, timeout, crashed>>

(* Scheduler.Start, once in Manager.Start.                                 *)
Start ==
    /\ scheduler = "new" /\ adding = 0
    /\ scheduler' = "started"
    /\ job' = [j \in Jobs |-> IF j = registered THEN [job[j] EXCEPT !.base = "run"] ELSE job[j]]
    /\ UNCHANGED <<config, made, adding, registered, exec, timeout, crashed>>

(* Scheduler.Stop, in Manager.Shutdown: the run context is cancelled, cron *)
(* fires no more and is waited for (see Drained).                          *)
Stop ==
    /\ scheduler = "started" /\ adding = 0
    /\ scheduler' = "stopped"
    /\ UNCHANGED <<config, made, adding, registered, job, exec, timeout, crashed>>

----------------------------------------------------------------------------
(* What starts executions, and the pause.                                  *)

Arrive(e, j, by, ctx, step) ==
    /\ Fresh(e) /\ WithinBound
    /\ exec' = [exec EXCEPT ![e] =
           [Unused EXCEPT !.at = step, !.job = j, !.by = by, !.ctx = ctx,
                          !.overlap = (job[j].state = "executing"), !.early = (j = adding)]]

(* Run, for an entry cron has: it goes straight to executeSync.            *)
Tick(e, j) ==
    /\ scheduler = "started" /\ j \in {registered, adding} \ {0}
    /\ Arrive(e, j, "schedule", job[j].base, "waiting")
    /\ UNCHANGED <<scheduler, config, made, adding, registered, job, timeout, crashed>>

(* Trigger and TriggerSync: the state is read, and executeSync is called   *)
(* some time later.  Trigger detaches the execution from the request.      *)
Trigger(e, by) ==
    /\ adding = 0 /\ registered # 0 /\ job[registered].state = "idle"
    /\ Arrive(e, registered, by, IF by = "sync" THEN "request" ELSE "background", "checked")
    /\ UNCHANGED <<scheduler, config, made, adding, registered, job, timeout, crashed>>

TriggerExecutes(e) ==
    /\ At(e, "checked") /\ Go(e, "waiting")
    /\ UNCHANGED <<scheduler, config, made, adding, registered, job, timeout, crashed>>

(* The client of TriggerSync goes away: net/http cancels its context.      *)
ClientLeaves(e) ==
    /\ exec[e].ctx = "request"
    /\ exec' = [exec EXCEPT ![e].ctx = "gone"]
    /\ UNCHANGED <<scheduler, config, made, adding, registered, job, timeout, crashed>>

Pause ==
    /\ adding = 0 /\ registered # 0 /\ job[registered].state = "idle"
    /\ job' = [job EXCEPT ![registered].state = "paused"]
    /\ UNCHANGED <<scheduler, config, made, adding, registered, exec, timeout, crashed>>

Resume ==
    /\ adding = 0 /\ registered # 0 /\ job[registered].state = "paused"
    /\ job' = [job EXCEPT ![registered].state = "idle"]
    /\ UNCHANGED <<scheduler, config, made, adding, registered, exec, timeout, crashed>>

----------------------------------------------------------------------------
(* executeSync.                                                            *)

(* StartExecution and EndExecution on a history.                           *)
StartExecution(h, id) ==
    Append(IF Len(h) >= HistorySize THEN Tail(h) ELSE h, [id |-> id, ended |-> FALSE])

EndExecution(h, id) ==
    [i \in 1..Len(h) |-> IF h[i].id = id THEN [h[i] EXCEPT !.ended = TRUE] ELSE h[i]]

Begin(e) ==
    LET j == exec[e].job IN
    /\ At(e, "waiting") /\ ~Locked(j) /\ job[j].state = "idle"
    /\ job' = [job EXCEPT ![j].state = "executing", ![j].current = job[j].nextID,
                          ![j].nextID = @ + 1,
                          ![j].history = StartExecution(@, job[j].nextID)]
    /\ exec' = [exec EXCEPT ![e].at = "executing", ![e].id = job[j].nextID]
    /\ UNCHANGED <<scheduler, config, made, adding, registered, timeout, crashed>>

(* The state was not idle when the execution got executionMu.              *)
Skip(e) ==
    /\ At(e, "waiting") /\ ~Locked(exec[e].job) /\ job[exec[e].job].state # "idle"
    /\ exec' = [exec EXCEPT ![e] = Done]
    /\ UNCHANGED <<scheduler, config, made, adding, registered, job, timeout, crashed>>

Returns(e, panics) ==
    /\ exec' = [exec EXCEPT ![e].at = "returned", ![e].panics = panics]
    /\ UNCHANGED <<scheduler, config, made, adding, registered, job, timeout, crashed>>

(* Execute, whose exit code and error make no difference to what follows. *)
(* It looks the command up by name and starts it; it fails at once    *)
(* when the name is gone or the context is, and may fail anyway.           *)
CommandStarts(e) ==
    /\ At(e, "executing") /\ config # 0 /\ ~Cancelled(e)
    /\ Go(e, "command")
    /\ UNCHANGED <<scheduler, config, made, adding, registered, job, timeout, crashed>>

CommandFails(e) == At(e, "executing") /\ Returns(e, FALSE)

(* The command ends by itself, by its timeout, or killed with its context. *)
CommandEnds(e) == At(e, "command") /\ Returns(e, FALSE)

(* Something reachable from Execute panics.                                *)
Panics(e) == exec[e].at \in {"executing", "command"} /\ Returns(e, TRUE)

(* Mutant: the state is reset on the normal path only.                     *)
LeaveUnlessPanic(e) ==
    /\ At(e, "returned") /\ Go(e, "left")
    /\ job' = IF exec[e].panics THEN job
              ELSE [job EXCEPT ![exec[e].job].state = "idle", ![exec[e].job].current = 0]
    /\ UNCHANGED <<scheduler, config, made, adding, registered, timeout, crashed>>

(* Back to idle: on the normal path, and in the deferred function.         *)
Leave(e) ==
    /\ At(e, "returned") /\ Go(e, "left")
    /\ job' = [job EXCEPT ![exec[e].job].state = "idle", ![exec[e].job].current = 0]
    /\ UNCHANGED <<scheduler, config, made, adding, registered, timeout, crashed>>

(* The result is recorded and executionMu released.  A panic goes on: the  *)
(* cron chain recovers it, net/http recovers TriggerSync's, nobody         *)
(* recovers that of the goroutine Trigger started.                         *)
Close(e) ==
    /\ At(e, "left") /\ exec' = [exec EXCEPT ![e] = Done]
    /\ job' = [job EXCEPT ![exec[e].job].history = EndExecution(@, exec[e].id)]
    /\ crashed' = (exec[e].panics /\ exec[e].by = "trigger")
    /\ UNCHANGED <<scheduler, config, made, adding, registered, timeout>>

----------------------------------------------------------------------------
SchedulerStep == AddJob \/ AddJobEnd \/ RemoveJob \/ UnregisterProcess \/ Start \/ Stop

ControlStep ==
    \/ Pause \/ Resume
    \/ \E e \in Execs : \/ \E j \in Jobs : Tick(e, j)
                        \/ \E by \in {"trigger", "sync"} : Trigger(e, by)
                        \/ ClientLeaves(e)

ExecuteStep(e) ==
    \/ TriggerExecutes(e) \/ Begin(e) \/ Skip(e)
    \/ CommandStarts(e) \/ CommandFails(e) \/ CommandEnds(e) \/ Panics(e)
    \/ Leave(e) \/ Close(e)

Next == ~crashed /\ (SchedulerStep \/ ControlStep \/ \E e \in Execs : ExecuteStep(e))

Spec == Init /\ [][Next]_vars

(* The Go scheduler runs every goroutine, executionMu hands itself over to *)
(* waiters, and a command ends when its context is cancelled or it has a   *)
(* timeout; any other command may run for ever.                            *)
Fairness ==
    \A e \in Execs :
        /\ WF_vars(~crashed /\ (TriggerExecutes(e) \/ Begin(e) \/ Skip(e)))
        /\ WF_vars(~crashed /\ (CommandStarts(e) \/ CommandFails(e)))
        /\ WF_vars(~crashed /\ (timeout \/ Cancelled(e)) /\ CommandEnds(e))
        /\ WF_vars(~crashed /\ (Leave(e) \/ Close(e)))

FairSpec == Spec /\ Fairness

----------------------------------------------------------------------------
(* Types: a history never outgrows its ring.                               *)
TypeOK ==
    /\ scheduler \in {"new", "started", "stopped"}
    /\ {config, adding, registered, made} \subseteq Jobs \cup {0}
    /\ \A j \in Jobs : job[j] \in JobType /\ Len(job[j].history) <= HistorySize
    /\ exec \in [Execs -> ExecType]
    /\ timeout \in BOOLEAN /\ crashed \in BOOLEAN

(* A history's entries that say the run is still going (IsRunning).        *)
Unended(j) == {h.id : h \in {x \in ToSet(job[j].history) : ~x.ended}}

(* Every job object, removed ones included, keeps what AbstractJob         *)
(* promises, whatever ticks, triggers, pauses, panics and removals         *)
(* coincide: one run at a time along the documented edges, each with an    *)
(* entry that is still in the ring when its result arrives.                *)
Abstract == INSTANCE AbstractJob WITH
    state  <- [j \in Jobs |-> job[j].state],
    open   <- [j \in Jobs |-> Unended(j)],
    opened <- [j \in Jobs |-> job[j].nextID - 1]

KeepsPromise == Abstract!Spec

(* What Status and the API show is what happens: a job says it executes,   *)
(* and which run, exactly while an execution is between Begin and Leave    *)
(* (a panic included), and that run is the newest entry of its history.    *)
StatusIsTruthful ==
    \A j \in Jobs :
        LET inside == {e \in Execs : exec[e].job = j /\ exec[e].at \in Running} IN
        /\ (job[j].state = "executing") <=> (inside # {})
        /\ \A e \in inside : /\ job[j].current = exec[e].id
                            /\ Last(job[j].history) = [id |-> exec[e].id, ended |-> FALSE]

(* The wait of cron.Stop ends: once the scheduler has stopped, every       *)
(* execution cron started gets done, unless PID 1 is gone or a manual      *)
(* execution (or one that came before AddJob was through, which has no     *)
(* context to cancel) without a timeout runs on in front of it.            *)
Drained == \A e \in Execs : exec[e].by # "schedule"
Stuck   == ~timeout /\ \E e \in Execs : /\ At(e, "command") /\ ~Cancelled(e)
                                  /\ (exec[e].by # "schedule" \/ exec[e].early)
StopDrains == scheduler = "stopped" ~> (Drained \/ Stuck \/ crashed)

(* Not checked, violated: "a job that is still running when its next tick  *)
(* fires is always skipped" (job.go): an execution that came while the job *)
(* was executing never begins.                                             *)
OverlapIsSkipped == \A e \in Execs : exec[e].overlap => exec[e].at \notin Holding
============================================================================
