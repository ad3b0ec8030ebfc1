----------------------------- MODULE AbstractJob -----------------------------
(***************************************************************************)
(* What a scheduled job promises (the comments on JobState, ScheduledJob   *)
(* and ExecutionEntry in internal/schedule): a job is idle, executing or   *)
(* paused, goes between them along four edges only, executes one run at a  *)
(* time, and a run has one history entry that is closed once, before the   *)
(* next run is opened.  The promise is made for each job object.           *)
(***************************************************************************)
EXTENDS Naturals

CONSTANT Jobs

VARIABLES
    state,      \* idle, executing or paused, per job
    open,       \* the runs that have been opened and not closed, per job
    opened      \* how many runs have been opened, per job

vars == <<state, open, opened>>

Init ==
    /\ state = [j \in Jobs |-> "idle"]
    /\ open = [j \in Jobs |-> {}]
    /\ opened = [j \in Jobs |-> 0]

To(j, s) == state' = [state EXCEPT ![j] = s]

(* Idle to executing, on a trigger or on schedule.                         *)
Begin(j) ==
    /\ state[j] = "idle" /\ open[j] = {}
    /\ To(j, "executing")
    /\ opened' = [opened EXCEPT ![j] = @ + 1]
    /\ open' = [open EXCEPT ![j] = {opened[j] + 1}]

(* Executing to idle, on completion of whatever kind.                      *)
Leave(j) ==
    /\ state[j] = "executing" /\ To(j, "idle")
    /\ UNCHANGED <<open, opened>>

(* The run's entry gets its result.                                        *)
Close(j) ==
    /\ state[j] # "executing" /\ open[j] # {}
    /\ open' = [open EXCEPT ![j] = {}]
    /\ UNCHANGED <<state, opened>>

Pause(j) ==
    /\ state[j] = "idle" /\ To(j, "paused")
    /\ UNCHANGED <<open, opened>>

Resume(j) ==
    /\ state[j] = "paused" /\ To(j, "idle")
    /\ UNCHANGED <<open, opened>>

Next == \E j \in Jobs : Begin(j) \/ Leave(j) \/ Close(j) \/ Pause(j) \/ Resume(j)

Spec == Init /\ [][Next]_vars
==============================================================================
