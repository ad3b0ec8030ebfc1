--------------------------- MODULE RestartPolicy ---------------------------
(***************************************************************************)
(* internal/process/restart.go: whether an exited instance is restarted,   *)
(* and after which delay.                                                  *)
(*                                                                         *)
(* A time.Duration is a signed 64-bit integer.  It is represented here by  *)
(* the set of its 1 bits in two's complement: bit 63 is the sign, {} is 0. *)
(* Shifting left then really loses the bits that leave the word, as the    *)
(* Go multiplication by a power of two does.                               *)
(***************************************************************************)
EXTENDS Integers, FiniteSetsExt

SignBit   == 63
Word      == 0..SignBit
Durations == SUBSET Word

Positive(d)    == d # {} /\ SignBit \notin d
NotPositive(d) == ~Positive(d)

(* Signed comparison: the sign decides, then the highest bit that differs. *)
Less(d, e) ==
    LET diff == SymDiff(d, e)
    IN  /\ diff # {}
        /\ IF SignBit \in diff THEN SignBit \in d ELSE Max(diff) \in e

(* 1 s = 10^9 ns = 2^9 * 1953125 *)
OneSecond == {9, 11, 14, 15, 17, 19, 20, 23, 24, 25, 27, 28, 29}

maxShift == 62

(* delay := initial * (1 << restartCount) in 64 bits *)
ShiftLeft(d, n) == {b + n : b \in d} \cap Word

(* Mutant of calculateBackoff: the clamp is forgotten. *)
calculateBackoffUncapped(initial, max, restartCount) ==
    ShiftLeft(IF NotPositive(initial) THEN OneSecond ELSE initial,
              Min({Max({restartCount, 0}), maxShift}))

calculateBackoff(initial, max, restartCount) ==
    LET from  == IF NotPositive(initial) THEN OneSecond ELSE initial
        shift == Min({Max({restartCount, 0}), maxShift})
        delay == ShiftLeft(from, shift)
    IN  IF Positive(max) /\ Less(max, delay) THEN max ELSE delay

Policies == {"always", "on-failure", "never"}

withinBudget(maxAttempts, restartCount) ==
    maxAttempts <= 0 \/ restartCount < maxAttempts

ShouldRestart(policy, maxAttempts, exitCode, restartCount) ==
    CASE policy = "always"     -> withinBudget(maxAttempts, restartCount)
      [] policy = "on-failure" -> exitCode # 0 /\ withinBudget(maxAttempts, restartCount)
      [] OTHER                 -> FALSE

BackoffDuration(policy, initial, max, restartCount) ==
    IF policy \in {"always", "on-failure"}
    THEN calculateBackoff(initial, max, restartCount)
    ELSE {}

(* Mutant of resetRestartBudget: a stable run earns nothing. *)
resetRestartBudgetNever(windowEnabled, up) == FALSE

(* resetRestartBudget: up is whether the uptime reached the window. *)
resetRestartBudget(windowEnabled, up) == windowEnabled /\ up

=============================================================================
