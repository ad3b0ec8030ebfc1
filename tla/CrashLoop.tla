----------------------------- MODULE CrashLoop -----------------------------
(***************************************************************************)
(* One instance slot of a supervisor that keeps exiting: the restart       *)
(* bookkeeping of Supervisor.monitorInstance and attemptRestart            *)
(* (internal/process/supervisor.go) over the policies of restart.go.       *)
(* A step is one exit or one restart; the concurrency around them is in    *)
(* module Supervisor.                                                      *)
(***************************************************************************)
EXTENDS RestartPolicy

CONSTANTS
    Attempts,     \* values of global.max_restart_attempts in the config file
    Initials,     \* values of restart_backoff_initial
    Ceilings,     \* values of restart_backoff_max
    Windows,      \* whether restart_stability_window is enabled
    CountBound    \* bound: an instance restarted this often exits no more

ASSUME CrashLoopAssumption ==
    /\ Attempts \subseteq Int
    /\ Initials \subseteq Durations
    /\ Ceilings \subseteq Durations
    /\ Windows \subseteq BOOLEAN
    /\ CountBound \in Nat

VARIABLES
    setup,          \* the configuration, fixed at the start
    phase,          \* "up", "backoff" or "abandoned"
    restartCount,   \* instance.restartCount
    delay,          \* the last backoff that was waited for
    streak          \* history: restarts since the last stable run

loopVars == <<setup, phase, restartCount, delay, streak>>

(* setGlobalBasicDefaults replaces an unset (zero) value, and NewSupervisor *)
(* then a negative one; the legacy restart_backoff both fall back to is    *)
(* left at its default of 5 s.                                             *)
effectiveAttempts(configured) == IF configured = 0 THEN 3 ELSE configured

FiveSeconds  == {9, 12, 13, 14, 15, 16, 18, 25, 27, 29, 32}
SixtySeconds == {11, 12, 14, 16, 17, 18, 22, 27, 28, 29, 30, 31, 32, 34, 35}

effectiveInitial(configured) == IF Positive(configured) THEN configured ELSE FiveSeconds
effectiveCeiling(configured) ==
    CASE configured = {}      -> SixtySeconds
      [] Positive(configured) -> configured
      [] OTHER                -> FiveSeconds

Configs == [policy : Policies, configured : Attempts, initial : Initials,
            max : Ceilings, window : Windows]

LoopInit ==
    /\ setup \in Configs
    /\ phase = "up"
    /\ restartCount = 0
    /\ delay = {}
    /\ streak = 0

(* monitorInstance sees the exit, after an uptime that reached the         *)
(* stability window (up) or did not.                                       *)
Exit(exitCode, up) ==
    LET stable == resetRestartBudget(setup.window, up)
        count  == IF stable THEN 0 ELSE restartCount
    IN  /\ phase = "up"
        /\ restartCount < CountBound
        /\ restartCount' = count
        /\ streak' = IF setup.window /\ up THEN 0 ELSE streak
        /\ IF ShouldRestart(setup.policy, effectiveAttempts(setup.configured), exitCode, count)
           THEN /\ phase' = "backoff"
                /\ delay' = BackoffDuration(setup.policy, effectiveInitial(setup.initial),
                                            effectiveCeiling(setup.max), count)
           ELSE /\ phase' = "abandoned"
                /\ UNCHANGED delay
        /\ UNCHANGED setup

(* attemptRestart after the backoff: the replacement carries the count on. *)
Restart ==
    /\ phase = "backoff"
    /\ phase' = "up"
    /\ restartCount' = restartCount + 1
    /\ streak' = streak + 1
    /\ UNCHANGED <<setup, delay>>

LoopNext == Restart \/ \E exitCode \in {0, 1}, up \in BOOLEAN : Exit(exitCode, up)

LoopSpec == LoopInit /\ [][LoopNext]_loopVars

-----------------------------------------------------------------------------
LoopTypeOK ==
    /\ setup \in Configs
    /\ phase \in {"up", "backoff", "abandoned"}
    /\ restartCount \in 0..CountBound
    /\ delay \in Durations
    /\ streak \in Nat

(* The delay the documentation promises, over unbounded integers:          *)
(* initial * 2^n, clamped by the ceiling.                                  *)
Promised(n) ==
    LET exact == {b + n : b \in effectiveInitial(setup.initial)}
        max   == effectiveCeiling(setup.max)
        diff  == SymDiff(exact, max)
    IN  IF diff # {} /\ Max(diff) \in exact THEN max ELSE exact

Fits(n) == \A b \in effectiveInitial(setup.initial) : b + n < SignBit

(* As long as initial * 2^n fits into 63 bits, the wait before a restart is *)
(* exactly the documented min(initial * 2^n, max).                          *)
DelayIsPromised ==
    phase = "backoff" /\ Fits(restartCount) => delay = Promised(restartCount)

(* Whatever overflows, the ceiling is never exceeded.                      *)
CeilingHolds == phase = "backoff" => ~Less(effectiveCeiling(setup.max), delay)

(* An instance that keeps crashing before the stability window is          *)
(* restarted at most max_restart_attempts times in a row.                  *)
BudgetRespected ==
    effectiveAttempts(setup.configured) > 0 => streak <= effectiveAttempts(setup.configured)

(* A service is given up on only for a reason the policy names: it is      *)
(* never restarted at all, it exited cleanly under on-failure, or it spent *)
(* its whole budget since its last stable run.                             *)
AbandonedForCause ==
    [][phase' = "abandoned" /\ phase # "abandoned" =>
          \/ setup.policy = "never"
          \/ /\ effectiveAttempts(setup.configured) > 0
             /\ streak' >= effectiveAttempts(setup.configured)
          \/ /\ setup.policy = "on-failure"
             /\ Exit(0, TRUE) \/ Exit(0, FALSE)]_loopVars

(* The backoff of restart.go keeps its word while its arithmetic does, and *)
(* is never longer than the ceiling even when the product wraps around.    *)
BackoffIsBounded == DelayIsPromised /\ CeilingHolds

(* The budget of restarts is spent exactly: never more of them in a row    *)
(* than it allows, and no service is given up on before (ShouldRestart and *)
(* resetRestartBudget).                                                    *)
BudgetIsExact == []BudgetRespected /\ AbandonedForCause

(* Not checked, violated: the documentation's unconditional claim          *)
(* (docs/configuration/global-settings.md:125): backoff grows as initial * *)
(* 2^n and is clamped by restart_backoff_max, for every restart count.     *)
DelayAlwaysPromised ==
    phase = "backoff" => delay = Promised(restartCount)
=============================================================================
