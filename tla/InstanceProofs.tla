--------------------------- MODULE InstanceProofs ---------------------------
(***************************************************************************)
(* TLAPS proofs about what runs beside an instance: its health monitor     *)
(* (Health), for every threshold, restart budget and set of                *)
(* configurations; the readiness file that reports what becomes of it      *)
(* (Readiness); and what becomes of its output (Output), for every text,   *)
(* every logging configuration and every size of a buffer.                 *)
(***************************************************************************)
EXTENDS Health, Readiness, Output, TLAPS, FiniteSetTheorems, WellFoundedInduction

MonType == [fails : 0..FailureThreshold, succ : 0..SuccessThreshold, healthy : BOOLEAN,
            ever : BOOLEAN, fast : BOOLEAN, recent : BOOLEAN, grace : BOOLEAN, paused : BOOLEAN]
ProbeType == [at : {"idle", "checking", "checked", "sending"}, ok : BOOLEAN, valid : BOOLEAN,
              status : Status, first : BOOLEAN]
HandlerType == [at : {"receive", "accepted"}, status : Status]

(* A result that would get the process killed.                             *)
Condemns(status) == status.valid /\ ~status.ok /\ ~status.healthy

Earned(status) == Condemns(status) => against = FailureThreshold

(* Wherever a result is that is still the monitor's (half way out of the   *)
(* monitor, in the channel, in the handler's hands), if it condemns the    *)
(* process, then as many failures as the threshold have been counted since *)
(* the last reset.                                                         *)
EarnedInv ==
    /\ mon.fails <= against
    /\ Earned(probe.status)
    /\ \A status \in chan : Earned(status)
    /\ Earned(handler.status)

(* A waiter that has seen the signal of a run that was not replaced since. *)
WaiterInv == waiter.at = "saw" /\ waiter.valid => signal.ready

(* The signal is closed, or about to be, only by a success of this run or  *)
(* by one it inherited.                                                    *)
ProvenType == proven \in {"none", "inherited", "own"}
ProvenInv  == signal.ready \/ UnderWay => proven # "none"

IInv == TypeOK /\ EarnedInv /\ WaiterInv /\ ProvenInv

-----------------------------------------------------------------------------
(* The constant statuses and monitors are of their types.                  *)
LEMMA Constants ==
    /\ NoStatus \in Status /\ ~Condemns(NoStatus)
    /\ Received \in HandlerType
    /\ \A first \in BOOLEAN : Idle(first) \in ProbeType
    /\ \A delay \in BOOLEAN : Reset(delay) \in MonType
    /\ NewHealthMonitor \in MonType
<1>1. NoStatus \in Status /\ ~Condemns(NoStatus)
    BY DEF NoStatus, Status, Condemns
<1>2. Received \in HandlerType
    BY <1>1 DEF Received, HandlerType
<1>3. \A first \in BOOLEAN : Idle(first) \in ProbeType
    BY <1>1 DEF Idle, ProbeType
<1>4. \A delay \in BOOLEAN : Reset(delay) \in MonType
    BY HealthAssumption DEF Reset, MonType
<1>5. NewHealthMonitor \in MonType
    BY <1>4 DEF NewHealthMonitor, MonType
<1> QED BY <1>1, <1>2, <1>3, <1>4, <1>5

(* The parts of TypeOK the steps below need.                               *)
LEMMA TypeParts ==
    ASSUME TypeOK
    PROVE  /\ mon \in MonType /\ probe \in ProbeType /\ handler \in HandlerType
           /\ cfg.delay \in BOOLEAN /\ cfg.restart \in BOOLEAN
BY HealthAssumption DEF TypeOK, MonType, ProbeType, HandlerType

(* Settled only touches the windows.                                       *)
LEMMA SettledKeeps ==
    ASSUME NEW m \in MonType
    PROVE  Settled(m) \in MonType /\ Settled(m).fails = m.fails
BY DEF Settled, MonType

(* The counters stop at the thresholds; a condemning verdict is reached    *)
(* only when the failures have.                                            *)
LEMMA FailedKeeps ==
    ASSUME NEW m \in MonType
    PROVE  /\ Failed(m) \in MonType
           /\ Failed(m).fails = LeastOf(m.fails + 1, FailureThreshold)
<1>1. LeastOf(m.fails + 1, FailureThreshold) \in 0..FailureThreshold
    BY HealthAssumption DEF LeastOf, MonType
<1> DEFINE fails   == LeastOf(m.fails + 1, FailureThreshold)
           healthy == m.healthy /\ fails < FailureThreshold
           recent  == m.recent \/ (~m.ever /\ m.fast)
<1>2. healthy \in BOOLEAN /\ recent \in BOOLEAN
    BY Zenon
<1>3. Failed(m) = [m EXCEPT !.fails = fails, !.succ = 0, !.healthy = healthy, !.recent = recent]
    BY DEF Failed
<1> HIDE DEF fails, healthy, recent
<1>4. 0 \in 0..SuccessThreshold
    BY HealthAssumption
<1>5. fails \in 0..FailureThreshold
    BY <1>1 DEF fails
<1>6. Failed(m) \in MonType /\ Failed(m).fails = fails
    BY <1>2, <1>3, <1>4, <1>5 DEF MonType
<1> QED BY <1>6 DEF fails

(* A success forgets the failures.                                         *)
LEMMA SucceededKeeps ==
    ASSUME NEW m \in MonType
    PROVE  Succeeded(m) \in MonType /\ Succeeded(m).fails = 0
<1>1. LeastOf(m.succ + 1, SuccessThreshold) \in 0..SuccessThreshold
    BY HealthAssumption DEF LeastOf, MonType
<1> DEFINE succ    == LeastOf(m.succ + 1, SuccessThreshold)
           healthy == m.healthy \/ succ = SuccessThreshold
<1>2. healthy \in BOOLEAN
    BY Zenon
<1>3. Succeeded(m) = [m EXCEPT !.ever = TRUE, !.succ = succ, !.fails = 0, !.healthy = healthy]
    BY DEF Succeeded
<1>4. succ \in 0..SuccessThreshold /\ 0 \in 0..FailureThreshold
    BY <1>1, HealthAssumption
<1> HIDE DEF succ, healthy
<1> QED BY <1>2, <1>3, <1>4 DEF MonType

(* invalidateLocked: nothing under way in the monitor or the channel can   *)
(* condemn the process any more.                                           *)
LEMMA InvalidatedKeeps ==
    ASSUME TypeOK
    PROVE  /\ Invalidated \in ProbeType /\ ~Condemns(Invalidated.status)
           /\ Stale(chan) \in SUBSET Status /\ \A status \in Stale(chan) : ~Condemns(status)
<1>1. probe \in ProbeType
    BY TypeParts
<1> QED BY <1>1, Constants DEF Invalidated, ProbeType, Stale

(* The invariant holds before the monitor starts.                          *)
LEMMA IInvInit == Init => IInv
<1> SUFFICES ASSUME Init PROVE IInv
    OBVIOUS
<1>1. TypeOK
    <2>1. mon \in MonType /\ probe \in ProbeType /\ handler \in HandlerType
        BY Constants DEF Init
    <2>2. left \in 0..MaxRestarts /\ against \in 0..FailureThreshold
        BY HealthAssumption DEF Init
    <2>3. waiter \in [at : {"none", "watching", "saw"}, valid : BOOLEAN, ready : BOOLEAN]
          /\ signal \in [ready : BOOLEAN, failed : BOOLEAN]
        BY DEF Init
    <2>4. /\ cfg \in Setups /\ proc = "up" /\ answers \in BOOLEAN /\ chan = {}
          /\ checkpoint = "none" /\ proven = "none"
        BY DEF Init
    <2> QED BY <2>1, <2>2, <2>3, <2>4 DEF TypeOK, MonType, ProbeType, HandlerType
<1>2. EarnedInv
    BY Constants DEF Init, EarnedInv, Earned, NewHealthMonitor, Reset, Idle, Received
<1>3. WaiterInv
    BY DEF Init, WaiterInv
<1>4. ProvenInv
    BY DEF Init, ProvenInv, UnderWay, Idle, Received
<1> QED BY <1>1, <1>2, <1>3, <1>4 DEF IInv

-----------------------------------------------------------------------------
(* What a success comes to: only Check makes one, and by then it is this   *)
(* run's; every other step passes it on, drops it, or hands it down.       *)
LEMMA ProvenKeeps ==
    ASSUME IInv, Next
    PROVE  ProvenInv' /\ ProvenType'
<1>0. /\ probe \in ProbeType /\ handler \in HandlerType /\ ProvenInv /\ ProvenType
      /\ signal \in [ready : BOOLEAN, failed : BOOLEAN]
    BY TypeParts DEF IInv, TypeOK, ProvenType
<1>1. ASSUME UNCHANGED proven, signal'.ready \/ UnderWay' => signal.ready \/ UnderWay
      PROVE  ProvenInv' /\ ProvenType'
    BY <1>0, <1>1 DEF ProvenInv, ProvenType
<1>2. ASSUME NEW success \in BOOLEAN, Inherits(success), signal'.ready \/ UnderWay' => success
      PROVE  ProvenInv' /\ ProvenType'
    BY <1>2 DEF Inherits, ProvenInv, ProvenType
<1>3. UnderWay \in BOOLEAN
    BY DEF UnderWay
<1>4. CASE ProbeBegin \/ FirstSkipped
    <2>1. /\ probe'.at \notin {"checked", "sending"}
          /\ UNCHANGED <<chan, handler, signal, proven>>
        <3>1. probe' = [probe EXCEPT !.at = "checking", !.valid = TRUE] \/ probe' = Idle(FALSE)
            BY <1>4 DEF ProbeBegin, FirstSkipped
        <3>2. probe'.at \in {"checking", "idle"}
            <4>1. [probe EXCEPT !.at = "checking", !.valid = TRUE].at = "checking"
                BY <1>0 DEF ProbeType
            <4>2. Idle(FALSE).at = "idle"
                BY DEF Idle
            <4> QED BY <3>1, <4>1, <4>2
        <3>3. UNCHANGED <<chan, handler, signal, proven>>
            BY <1>4 DEF ProbeBegin, FirstSkipped
        <3> QED BY <3>2, <3>3
    <2> QED BY <1>1, <2>1 DEF UnderWay
<1>5. CASE Check
    <2>1. CASE probe.valid /\ Alive /\ answers
        BY <1>5, <2>1 DEF Check, ProvenInv, ProvenType
    <2>2. CASE ~(probe.valid /\ Alive /\ answers)
        <3>1. /\ probe'.at = "checked" /\ probe'.ok = FALSE
              /\ UNCHANGED <<chan, handler, signal, proven>>
            BY <1>0, <1>5, <2>2 DEF Check, ProbeType
        <3> QED BY <1>1, <3>1 DEF UnderWay
    <2> QED BY <2>1, <2>2
<1>6. CASE Judge
    <2>1. /\ probe'.at = "sending" /\ probe'.status.ok => probe.at = "checked" /\ probe.ok
          /\ probe'.at # "checked"
        <3>1. CASE probe' = Idle(FALSE)
            BY <3>1 DEF Idle
        <3>2. ASSUME NEW status, probe' = Sends(status)
              PROVE  probe'.at = "sending" /\ probe'.status = status
            BY <1>0, <3>2 DEF Sends, ProbeType
        <3>3. CASE probe' = Sends([ok |-> FALSE, healthy |-> mon'.fails < FailureThreshold,
                                   valid |-> TRUE])
            <4> DEFINE healthy == mon'.fails < FailureThreshold
                       status  == [ok |-> FALSE, healthy |-> healthy, valid |-> TRUE]
            <4> HIDE DEF healthy
            <4>1. ~status.ok
                OBVIOUS
            <4>2. probe' = Sends(status)
                BY <3>3 DEF healthy
            <4> HIDE DEF status
            <4>3. probe'.at = "sending" /\ probe'.status = status
                BY <3>2, <4>2
            <4> QED BY <4>1, <4>3
        <3>4. CASE probe.ok /\ probe' = Sends([ok |-> TRUE, healthy |-> mon'.healthy, valid |-> TRUE])
            <4>1. probe.at = "checked"
                BY <1>6 DEF Judge
            <4> DEFINE status == [ok |-> TRUE, healthy |-> mon'.healthy, valid |-> TRUE]
            <4>2. probe' = Sends(status)
                BY <3>4
            <4> HIDE DEF status
            <4>3. probe'.at = "sending"
                BY <3>2, <4>2
            <4> QED BY <3>4, <4>1, <4>3
        <3> QED BY <1>6, <3>1, <3>3, <3>4 DEF Judge
    <2>2. UNCHANGED <<chan, handler, signal, proven>>
        BY <1>6 DEF Judge
    <2> QED BY <1>1, <2>1, <2>2 DEF UnderWay
<1>7. CASE Send
    <2>1. /\ probe.at = "sending" /\ chan' = {probe.status} /\ probe'.at = "idle"
          /\ UNCHANGED <<handler, signal, proven>>
        BY <1>7 DEF Send, Idle
    <2> QED BY <1>1, <2>1 DEF UnderWay
<1>8. CASE TimePasses
    BY <1>1, <1>8 DEF TimePasses, UnderWay
<1>9. CASE Receive
    <2>1. PICK status \in chan :
             handler' = IF Accepts(status) THEN [at |-> "accepted", status |-> status] ELSE Received
        BY <1>9 DEF Receive
    <2>2. chan' = {} /\ UNCHANGED <<probe, signal, proven>>
        BY <1>9 DEF Receive
    <2> QED BY <1>1, <2>1, <2>2 DEF UnderWay, Received
<1>10. CASE markReady
    <2>1. /\ handler.at = "accepted" /\ handler.status.ok /\ UNCHANGED proven
        BY <1>10 DEF markReady
    <2> QED BY <1>1, <2>1 DEF UnderWay
<1>11. CASE LeaveAlone
    BY <1>1, <1>11 DEF LeaveAlone, UnderWay, Received
<1>12. ASSUME NEW m, MonitorReset(m)
       PROVE  ~(probe'.at = "checked" /\ probe'.ok) /\ ~(probe'.at = "sending" /\ probe'.status.ok)
              /\ \A status \in chan' : ~status.ok
    BY <1>0, <1>12 DEF MonitorReset, Invalidated, Stale, NoStatus, ProbeType
<1>13. CASE Kill
    <2>1. \E m : MonitorReset(m)
        BY <1>13 DEF Kill
    <2>2. handler'.at = "receive" /\ UNCHANGED <<signal, proven>>
        BY <1>13 DEF Kill, Received
    <2> QED BY <1>1, <1>12, <2>1, <2>2 DEF UnderWay
<1>14. CASE AnswersChange \/ Exit \/ Replaced \/ MarkCheckpointing
    BY <1>1, <1>14 DEF AnswersChange, Exit, Replaced, MarkCheckpointing, UnderWay
<1>15. CASE attemptRestart \/ Start
    <2>1. /\ Inherits(UnderWay) /\ signal'.ready = FALSE
          /\ UNCHANGED <<probe, chan, handler>>
        BY <1>15 DEF attemptRestart, Start, resetReadiness
    <2>2. UnderWay' = UnderWay
        BY <2>1 DEF UnderWay
    <2> QED BY <1>2, <1>3, <2>1, <2>2
<1>16. CASE GivesUp
    <2>1. signal'.ready = signal.ready /\ UNCHANGED <<probe, chan, handler, proven>>
        BY <1>0, <1>16 DEF GivesUp
    <2> QED BY <1>1, <2>1 DEF UnderWay
<1>17. CASE Stop
    <2>1. /\ probe'.at = "idle" /\ chan' = {} /\ handler'.at = "receive"
          /\ UNCHANGED <<signal, proven>>
        BY <1>17 DEF Stop, Idle, Received
    <2> QED BY <1>1, <2>1 DEF UnderWay
<1>18. HandlerStale => handler'.at = handler.at /\ handler'.status.ok = handler.status.ok
    BY <1>0 DEF HandlerStale, HandlerType, Status
<1>19. CASE Pause
    <2>1. /\ ~(probe'.at = "checked" /\ probe'.ok) /\ ~(probe'.at = "sending" /\ probe'.status.ok)
          /\ \A status \in chan' : ~status.ok
          /\ HandlerStale /\ UNCHANGED <<signal, proven>>
        BY <1>0, <1>19 DEF Pause, Invalidated, Stale, NoStatus, ProbeType
    <2> QED BY <1>1, <1>18, <2>1 DEF UnderWay
<1>20. ASSUME NEW cold \in BOOLEAN, Resume(cold)
       PROVE  ProvenInv' /\ ProvenType'
    <2>1. MonitorReset(Reset(cfg.delay)) /\ HandlerStale /\ UNCHANGED signal
        BY <1>20 DEF Resume
    <2>2. UnderWay' => UnderWay
        BY <1>12, <1>18, <2>1 DEF UnderWay
    <2>3. CASE cold
        <3>1. Inherits(signal.ready \/ UnderWay)
            BY <1>20, <2>3 DEF Resume
        <3>2. (signal.ready \/ UnderWay) \in BOOLEAN
            OBVIOUS
        <3> QED BY <1>2, <2>1, <2>2, <3>1, <3>2
    <2>4. CASE ~cold
        BY <1>1, <1>20, <2>1, <2>2, <2>4 DEF Resume
    <2> QED BY <2>3, <2>4
<1>21. CASE WaiterStep
    BY <1>1, <1>21 DEF WaiterStep, WaitBegin, SeesReady, Return, WaitFails, UnderWay
<1> QED BY <1>4, <1>5, <1>6, <1>7, <1>8, <1>9, <1>10, <1>11, <1>13, <1>14, <1>15, <1>16, <1>17,
           <1>19, <1>20, <1>21 DEF Next, MonitorStep, HandlerStep, ProcessStep

(* The steps of the system preserve the invariant: first those of the      *)
(* monitor's goroutine.                                                    *)
LEMMA MonitorStepKeeps ==
    ASSUME IInv, MonitorStep
    PROVE  IInv'
<1> USE DEF ProvenType
<1>p. ProvenInv' /\ ProvenType'
    BY ProvenKeeps DEF Next
<1> USE <1>p
<1> DEFINE Rest == UNCHANGED <<processVars, handler, signal, waiter>>
<1>0. mon \in MonType /\ probe \in ProbeType /\ handler \in HandlerType /\ chan \in SUBSET Status
      /\ against \in 0..FailureThreshold
    BY TypeParts DEF IInv, TypeOK
<1>1. ASSUME Rest, mon' \in MonType, probe' \in ProbeType, chan' \in SUBSET Status,
             against' \in 0..FailureThreshold
      PROVE  TypeOK' /\ WaiterInv'
    BY <1>1, <1>0 DEF IInv, TypeOK, WaiterInv, processVars, MonType, ProbeType, HandlerType
<1>2. CASE ProbeBegin
    <2>1. probe' \in ProbeType /\ probe'.status = probe.status /\ Rest
          /\ UNCHANGED <<mon, chan, against>>
        BY <1>0, <1>2 DEF ProbeBegin, ProbeType
    <2>2. EarnedInv'
        BY <2>1 DEF IInv, EarnedInv, Earned
    <2> QED BY <1>0, <1>1, <2>1, <2>2 DEF IInv
<1>3. CASE FirstSkipped
    <2>1. probe' = Idle(FALSE) /\ mon' = Settled(mon) /\ Rest /\ UNCHANGED <<chan, against>>
        BY <1>3 DEF FirstSkipped
    <2>2. probe' \in ProbeType /\ mon' \in MonType /\ mon'.fails = mon.fails
        BY <1>0, <2>1, Constants, SettledKeeps
    <2>3. ~Condemns(probe'.status)
        BY <2>1, Constants DEF Idle
    <2>4. EarnedInv'
        BY <2>1, <2>2, <2>3 DEF IInv, EarnedInv, Earned
    <2> QED BY <1>0, <1>1, <2>1, <2>2, <2>4 DEF IInv
<1>4. CASE Check
    <2>1. probe' \in ProbeType /\ probe'.status = probe.status /\ Rest
          /\ UNCHANGED <<mon, chan, against>>
        BY <1>0, <1>4 DEF Check, ProbeType, Alive, IInv, TypeOK
    <2>2. EarnedInv'
        BY <2>1 DEF IInv, EarnedInv, Earned
    <2> QED BY <1>0, <1>1, <2>1, <2>2 DEF IInv
<1>5. CASE Judge
    <2>0. Rest /\ UNCHANGED chan
        BY <1>5 DEF Judge
    <2>1. CASE probe' = Idle(FALSE) /\ mon' = Settled(mon) /\ UNCHANGED against
        <3>1. probe' \in ProbeType /\ mon' \in MonType /\ mon'.fails = mon.fails
            BY <1>0, <2>1, Constants, SettledKeeps
        <3>2. ~Condemns(probe'.status)
            BY <2>1, Constants DEF Idle
        <3>3. EarnedInv'
            BY <2>0, <2>1, <3>1, <3>2 DEF IInv, EarnedInv, Earned
        <3> QED BY <1>0, <1>1, <2>0, <2>1, <3>1, <3>3 DEF IInv
    <2>2. CASE /\ mon' = Failed(mon)
               /\ against' = LeastOf(against + 1, FailureThreshold)
               /\ probe' = Sends([ok |-> FALSE, healthy |-> mon'.fails < FailureThreshold,
                                  valid |-> TRUE])
        <3>1. mon' \in MonType /\ mon'.fails = LeastOf(mon.fails + 1, FailureThreshold)
            BY <1>0, <2>2, FailedKeeps
        <3>2. against' \in 0..FailureThreshold
            BY <1>0, <2>2, HealthAssumption DEF LeastOf
        <3>3. mon.fails \in Nat /\ mon.fails <= against
            BY <1>0 DEF IInv, EarnedInv, MonType
        <3>4. mon'.fails <= against'
            BY <1>0, <2>2, <3>1, <3>3, HealthAssumption DEF LeastOf
        <3>5. mon'.fails >= FailureThreshold => against' = FailureThreshold
            BY <1>0, <2>2, <3>1, <3>2, <3>3, <3>4, HealthAssumption DEF MonType
        <3> DEFINE healthy == mon'.fails < FailureThreshold
                   status  == [ok |-> FALSE, healthy |-> healthy, valid |-> TRUE]
        <3>a. healthy \in BOOLEAN
            BY <3>1, HealthAssumption DEF MonType
        <3>b. ~healthy => against' = FailureThreshold
            BY <1>0, <3>1, <3>5, HealthAssumption DEF MonType
        <3> HIDE DEF healthy
        <3>c. status \in Status
            BY <3>a DEF Status
        <3>d. status.healthy = healthy
            OBVIOUS
        <3>e. probe' = Sends(status)
            BY <2>2 DEF healthy
        <3> HIDE DEF status
        <3>6. probe' \in ProbeType /\ probe'.status = status
            BY <1>0, <3>c, <3>e DEF Sends, ProbeType
        <3>7. (Earned(probe.status))'
            BY <3>6, <3>b, <3>d DEF Earned, Condemns
        <3>8. against = FailureThreshold => against' = FailureThreshold
            BY <1>0, <2>2, HealthAssumption DEF LeastOf
        <3>9. EarnedInv'
            BY <2>0, <3>4, <3>7, <3>8 DEF IInv, EarnedInv, Earned
        <3> QED BY <1>0, <1>1, <2>0, <3>1, <3>2, <3>6, <3>9 DEF IInv
    <2>3. CASE /\ mon' = Succeeded(mon)
               /\ probe' = Sends([ok |-> TRUE, healthy |-> mon'.healthy, valid |-> TRUE])
               /\ UNCHANGED against
        <3>1. mon' \in MonType /\ mon'.fails = 0
            BY <1>0, <2>3, SucceededKeeps
        <3>2. probe' \in ProbeType /\ probe'.status.ok = TRUE
            BY <1>0, <2>3, <3>1 DEF Sends, ProbeType, Status, MonType
        <3>3. EarnedInv'
            BY <1>0, <2>0, <2>3, <3>1, <3>2 DEF IInv, EarnedInv, Earned, Condemns
        <3> QED BY <1>0, <1>1, <2>0, <2>3, <3>1, <3>2, <3>3 DEF IInv
    <2> QED BY <1>5, <2>1, <2>2, <2>3 DEF Judge
<1>6. CASE Send
    <2>1. chan' = {probe.status} /\ probe' = Idle(FALSE) /\ mon' = Settled(mon) /\ Rest
          /\ UNCHANGED against
        BY <1>6 DEF Send
    <2>2. probe' \in ProbeType /\ mon' \in MonType /\ mon'.fails = mon.fails
        BY <1>0, <2>1, Constants, SettledKeeps
    <2>3. ~Condemns(probe'.status)
        BY <2>1, Constants DEF Idle
    <2>4. chan' \in SUBSET Status
        BY <1>0, <2>1 DEF ProbeType
    <2>5. EarnedInv'
        BY <2>1, <2>2, <2>3 DEF IInv, EarnedInv, Earned
    <2> QED BY <1>0, <1>1, <2>1, <2>2, <2>4, <2>5 DEF IInv
<1> QED BY <1>2, <1>3, <1>4, <1>5, <1>6 DEF MonitorStep

LEMMA TimeKeeps ==
    ASSUME IInv, TimePasses
    PROVE  IInv'
<1> USE DEF ProvenType
<1>p. ProvenInv' /\ ProvenType'
    BY ProvenKeeps DEF Next
<1> USE <1>p
<1>1. mon \in MonType
    BY TypeParts DEF IInv
<1>2. mon' \in MonType /\ mon'.fails = mon.fails
    BY <1>1 DEF TimePasses, GraceEnds, WindowEnds, PeriodEnds, MonType
<1>3. UNCHANGED <<processVars, probe, chan, handler, signal, waiter, against>>
    BY DEF TimePasses
<1> QED BY <1>2, <1>3 DEF IInv, TypeOK, EarnedInv, Earned, WaiterInv, processVars, MonType

(* The re-arming of the monitor after a kill and after a checkpoint.       *)
LEMMA ResetKeeps ==
    ASSUME IInv, NEW m \in MonType, m.fails = 0, MonitorReset(m),
           handler' \in HandlerType, ~Condemns(handler'.status)
    PROVE  /\ mon' \in MonType /\ probe' \in ProbeType /\ chan' \in SUBSET Status
           /\ against' \in 0..FailureThreshold
           /\ EarnedInv'
<1>1. mon' = m /\ against' = 0 /\ probe' = Invalidated /\ chan' = Stale(chan)
    BY DEF MonitorReset
<1>2. /\ Invalidated \in ProbeType /\ ~Condemns(Invalidated.status)
      /\ Stale(chan) \in SUBSET Status /\ \A status \in Stale(chan) : ~Condemns(status)
    BY InvalidatedKeeps DEF IInv
<1> QED BY <1>1, <1>2, HealthAssumption DEF EarnedInv, Earned

LEMMA HandlerStepKeeps ==
    ASSUME IInv, HandlerStep
    PROVE  IInv'
<1> USE DEF ProvenType
<1>p. ProvenInv' /\ ProvenType'
    BY ProvenKeeps DEF Next
<1> USE <1>p
<1>0. /\ mon \in MonType /\ probe \in ProbeType /\ handler \in HandlerType
      /\ cfg.delay \in BOOLEAN /\ chan \in SUBSET Status
    BY TypeParts DEF IInv, TypeOK
<1>1. CASE Receive
    <2>1. PICK status \in chan :
             handler' = IF Accepts(status) THEN [at |-> "accepted", status |-> status] ELSE Received
        BY <1>1 DEF Receive
    <2>2. handler' \in HandlerType /\ handler'.status \in {status, NoStatus}
        BY <1>0, <2>1, Constants DEF HandlerType, Received
    <2>3. Earned(handler'.status)
        BY <2>2, Constants DEF IInv, EarnedInv, Earned
    <2>4. chan' = {} /\ UNCHANGED <<processVars, mon, probe, signal, waiter, against>>
        BY <1>1 DEF Receive
    <2>5. EarnedInv'
        BY <2>3, <2>4 DEF IInv, EarnedInv, Earned
    <2> QED BY <2>2, <2>4, <2>5 DEF IInv, TypeOK, WaiterInv, processVars, HandlerType
<1>2. CASE markReady
    <2>1. handler' = Received /\ UNCHANGED <<processVars, mon, probe, chan, waiter, against>>
          /\ signal' = [signal EXCEPT !.ready = TRUE]
        BY <1>2 DEF markReady
    <2>2. handler' \in HandlerType /\ ~Condemns(handler'.status)
        BY <2>1, Constants DEF Received
    <2>3. signal' \in [ready : BOOLEAN, failed : BOOLEAN] /\ signal'.ready
        BY <2>1 DEF IInv, TypeOK
    <2>4. EarnedInv'
        BY <2>1, <2>2 DEF IInv, EarnedInv, Earned
    <2> QED BY <2>1, <2>2, <2>3, <2>4 DEF IInv, TypeOK, WaiterInv, processVars, HandlerType
<1>3. CASE LeaveAlone
    <2>1. handler' = Received /\ UNCHANGED <<processVars, mon, probe, chan, signal, waiter, against>>
        BY <1>3 DEF LeaveAlone
    <2>2. handler' \in HandlerType /\ ~Condemns(handler'.status)
        BY <2>1, Constants DEF Received
    <2>3. EarnedInv'
        BY <2>1, <2>2 DEF IInv, EarnedInv, Earned
    <2> QED BY <2>1, <2>2, <2>3 DEF IInv, TypeOK, WaiterInv, processVars, HandlerType
<1>4. CASE Kill
    <2> DEFINE m == [Reset(cfg.delay) EXCEPT !.paused = mon.paused]
    <2>1. m \in MonType /\ m.fails = 0
        <3>1. Reset(cfg.delay) \in MonType /\ Reset(cfg.delay).fails = 0
            BY <1>0, Constants DEF Reset
        <3>2. mon.paused \in BOOLEAN
            BY <1>0 DEF MonType
        <3> QED BY <3>1, <3>2 DEF MonType
    <2>2. MonitorReset(m) /\ handler' = Received
          /\ UNCHANGED <<cfg, left, answers, checkpoint, signal, waiter>>
          /\ proc' \in {proc, "killed"}
        BY <1>4 DEF Kill
    <2>3. handler' \in HandlerType /\ ~Condemns(handler'.status)
        BY <2>2, Constants DEF Received
    <2> HIDE DEF m
    <2>4. /\ mon' \in MonType /\ probe' \in ProbeType /\ chan' \in SUBSET Status
          /\ against' \in 0..FailureThreshold
          /\ EarnedInv'
        BY <2>1, <2>2, <2>3, ResetKeeps
    <2> QED BY <2>2, <2>3, <2>4 DEF IInv, TypeOK, WaiterInv, MonType, ProbeType, HandlerType
<1> QED BY <1>1, <1>2, <1>3, <1>4 DEF HandlerStep

-----------------------------------------------------------------------------
(* resetReadiness takes the signal away from a waiter that has seen it.    *)
LEMMA ResetReadinessKeeps ==
    ASSUME TypeOK, resetReadiness
    PROVE  /\ signal' \in [ready : BOOLEAN, failed : BOOLEAN]
           /\ waiter' \in [at : {"none", "watching", "saw"}, valid : BOOLEAN, ready : BOOLEAN]
           /\ WaiterInv'
<1>1. /\ waiter \in [at : {"none", "watching", "saw"}, valid : BOOLEAN, ready : BOOLEAN]
      /\ signal.ready \in BOOLEAN
    BY DEF TypeOK
<1>2. CASE waiter.valid
    <2> DEFINE seen == waiter.at = "watching" /\ signal.ready
    <2>1. seen \in BOOLEAN
        BY <1>1
    <2> HIDE DEF seen
    <2>2. waiter' = [waiter EXCEPT !.valid = FALSE, !.ready = seen]
        BY <1>2 DEF resetReadiness, seen
    <2> QED BY <1>1, <2>1, <2>2 DEF resetReadiness, WaiterInv
<1>3. CASE ~waiter.valid
    BY <1>1, <1>3 DEF resetReadiness, WaiterInv
<1> QED BY <1>1, <1>2, <1>3

(* A result the handler holds condemns nobody once it is stale.            *)
LEMMA HandlerStaleKeeps ==
    ASSUME TypeOK, HandlerStale
    PROVE  handler' \in HandlerType /\ ~Condemns(handler'.status)
<1>1. handler \in HandlerType
    BY TypeParts
<1> QED BY <1>1 DEF HandlerStale, HandlerType, Status, Condemns

LEMMA ProcessStepKeeps ==
    ASSUME IInv, ProcessStep
    PROVE  IInv'
<1> USE DEF ProvenType
<1>p. ProvenInv' /\ ProvenType'
    BY ProvenKeeps DEF Next
<1> USE <1>p
<1>0. /\ mon \in MonType /\ probe \in ProbeType /\ handler \in HandlerType
      /\ cfg.delay \in BOOLEAN /\ chan \in SUBSET Status /\ TypeOK
    BY TypeParts DEF IInv, TypeOK
<1>1. CASE AnswersChange
    BY <1>1 DEF AnswersChange, IInv, TypeOK, EarnedInv, Earned, WaiterInv
<1>2. CASE Exit
    <2>1. /\ proc' = "exited" /\ answers' \in BOOLEAN
          /\ UNCHANGED <<cfg, left, checkpoint, mon, probe, chan, handler, signal, waiter, against>>
        BY <1>2 DEF Exit
    <2>2. TypeOK'
        BY <1>0, <2>1 DEF TypeOK
    <2>3. EarnedInv' /\ WaiterInv'
        BY <2>1 DEF IInv, EarnedInv, Earned, WaiterInv
    <2> QED BY <2>2, <2>3 DEF IInv
<1>3. CASE attemptRestart
    <2>1. resetReadiness /\ UNCHANGED <<cfg, answers, checkpoint, mon, probe, chan, handler, against>>
          /\ proc' = "backoff" /\ left' \in 0..MaxRestarts
        BY <1>0, <1>3, HealthAssumption DEF attemptRestart, TypeOK
    <2> QED BY <1>0, <2>1, ResetReadinessKeeps DEF IInv, TypeOK, EarnedInv, Earned
<1>4. CASE GivesUp
    <2>1. /\ proc' = "failed" /\ signal' = [signal EXCEPT !.failed = TRUE]
          /\ UNCHANGED <<cfg, left, answers, checkpoint, mon, probe, chan, handler, waiter, against>>
        BY <1>4 DEF GivesUp
    <2>2. signal' \in [ready : BOOLEAN, failed : BOOLEAN] /\ signal'.ready = signal.ready
        BY <1>0, <2>1 DEF TypeOK
    <2> QED BY <2>1, <2>2 DEF IInv, TypeOK, EarnedInv, Earned, WaiterInv
<1>5. CASE Replaced
    BY <1>5 DEF Replaced, IInv, TypeOK, EarnedInv, Earned, WaiterInv
<1>6. CASE Stop
    <2>1. /\ proc' = "stopped" /\ answers' = FALSE /\ probe' = Idle(TRUE) /\ chan' = {}
          /\ handler' = Received /\ mon' = NewHealthMonitor /\ against' = 0
          /\ UNCHANGED <<cfg, left, checkpoint, signal, waiter>>
        BY <1>6 DEF Stop
    <2>2. probe' \in ProbeType /\ handler' \in HandlerType /\ mon' \in MonType
        BY <2>1, Constants
    <2>3. EarnedInv'
        BY <2>1, Constants DEF EarnedInv, Earned, NewHealthMonitor, Reset, Idle, Received
    <2>4. against' \in 0..FailureThreshold
        BY <2>1, HealthAssumption
    <2> QED BY <2>1, <2>2, <2>3, <2>4
            DEF IInv, TypeOK, WaiterInv, MonType, ProbeType, HandlerType
<1>7. CASE Start
    <2>1. resetReadiness /\ UNCHANGED <<cfg, checkpoint, mon, probe, chan, handler, against>>
          /\ proc' = "up" /\ left' \in 0..MaxRestarts /\ answers' \in BOOLEAN
        BY <1>7, HealthAssumption DEF Start
    <2> QED BY <1>0, <2>1, ResetReadinessKeeps DEF IInv, TypeOK, EarnedInv, Earned
<1>8. CASE Pause
    <2>1. /\ checkpoint' = "paused" /\ mon' = [mon EXCEPT !.paused = TRUE]
          /\ probe' = Invalidated /\ chan' = Stale(chan) /\ HandlerStale
          /\ UNCHANGED <<cfg, proc, left, answers, signal, waiter, against>>
        BY <1>8 DEF Pause
    <2>2. mon' \in MonType /\ mon'.fails = mon.fails
        BY <1>0, <2>1 DEF MonType
    <2>3. handler' \in HandlerType /\ ~Condemns(handler'.status)
        BY <1>0, <2>1, HandlerStaleKeeps
    <2>4. /\ probe' \in ProbeType /\ ~Condemns(probe'.status)
          /\ chan' \in SUBSET Status /\ \A status \in chan' : ~Condemns(status)
        BY <1>0, <2>1, InvalidatedKeeps
    <2>5. EarnedInv'
        BY <2>1, <2>2, <2>3, <2>4 DEF IInv, EarnedInv, Earned
    <2> QED BY <2>1, <2>2, <2>3, <2>4, <2>5
            DEF IInv, TypeOK, WaiterInv, MonType, ProbeType, HandlerType
<1>9. CASE MarkCheckpointing
    BY <1>9 DEF MarkCheckpointing, IInv, TypeOK, EarnedInv, Earned, WaiterInv
<1>10. ASSUME NEW cold \in BOOLEAN, Resume(cold)
       PROVE  IInv'
    <2>1. /\ checkpoint' = "none" /\ MonitorReset(Reset(cfg.delay)) /\ HandlerStale
          /\ answers' \in BOOLEAN /\ UNCHANGED <<cfg, proc, left, signal, waiter>>
        BY <1>0, <1>10 DEF Resume, TypeOK
    <2>2. handler' \in HandlerType /\ ~Condemns(handler'.status)
        BY <1>0, <2>1, HandlerStaleKeeps
    <2>3. Reset(cfg.delay) \in MonType /\ Reset(cfg.delay).fails = 0
        BY <1>0, Constants DEF Reset
    <2>4. /\ mon' \in MonType /\ probe' \in ProbeType /\ chan' \in SUBSET Status
          /\ against' \in 0..FailureThreshold
          /\ EarnedInv'
        BY <2>1, <2>2, <2>3, ResetKeeps
    <2> QED BY <2>1, <2>2, <2>4 DEF IInv, TypeOK, WaiterInv, MonType, ProbeType, HandlerType
<1> QED BY <1>1, <1>2, <1>3, <1>4, <1>5, <1>6, <1>7, <1>8, <1>9, <1>10 DEF ProcessStep

LEMMA WaiterStepKeeps ==
    ASSUME IInv, WaiterStep
    PROVE  IInv'
<1> USE DEF ProvenType
<1>p. ProvenInv' /\ ProvenType'
    BY ProvenKeeps DEF Next
<1> USE <1>p
<1>1. UNCHANGED <<processVars, mon, probe, chan, handler, signal, against>>
    BY DEF WaiterStep, WaitBegin, SeesReady, Return, WaitFails
<1>2. waiter \in [at : {"none", "watching", "saw"}, valid : BOOLEAN, ready : BOOLEAN]
    BY DEF IInv, TypeOK
<1>3. /\ waiter' \in [at : {"none", "watching", "saw"}, valid : BOOLEAN, ready : BOOLEAN]
      /\ WaiterInv'
    <2>1. CASE WaitBegin \/ Return \/ WaitFails
        <3>1. waiter' = Watching \/ waiter' = NoWaiter
            BY <2>1 DEF WaitBegin, Return, WaitFails
        <3>2. waiter'.at # "saw"
            BY <3>1 DEF Watching, NoWaiter
        <3>3. {Watching, NoWaiter} \subseteq
                  [at : {"none", "watching", "saw"}, valid : BOOLEAN, ready : BOOLEAN]
            BY DEF Watching, NoWaiter
        <3> QED BY <3>1, <3>2, <3>3 DEF WaiterInv
    <2>2. CASE SeesReady
        BY <1>1, <1>2, <2>2 DEF SeesReady, WaiterInv
    <2> QED BY <2>1, <2>2 DEF WaiterStep
<1> QED BY <1>1, <1>3 DEF IInv, TypeOK, EarnedInv, Earned, processVars

(* One case per group of actions.                                          *)
LEMMA IInvNext == IInv /\ [Next]_vars => IInv'
<1> SUFFICES ASSUME IInv, [Next]_vars PROVE IInv'
    OBVIOUS
<1>1. CASE UNCHANGED vars
    BY <1>1 DEF vars, IInv, TypeOK, EarnedInv, Earned, WaiterInv, ProvenInv, UnderWay
<1> QED BY <1>1, MonitorStepKeeps, TimeKeeps, HandlerStepKeeps, ProcessStepKeeps,
           WaiterStepKeeps DEF Next

(* The inductive invariant.                                                *)
THEOREM Invariance == Spec => []IInv
BY IInvInit, IInvNext, PTL DEF Spec

-----------------------------------------------------------------------------
(* Only handleHealthStatus kills, and only on a result it may act on.      *)
LEMMA KillStep ==
    ASSUME IInv, [Next]_vars, proc = "up", proc' = "killed"
    PROVE  against = FailureThreshold /\ ~mon.paused
<1>1. Kill
    BY DEF Next, vars, processVars, MonitorStep, ProbeBegin, FirstSkipped, Check, Judge, Send,
           TimePasses, HandlerStep, Receive, markReady, LeaveAlone,
           ProcessStep, AnswersChange, Exit, attemptRestart, GivesUp, Replaced, Stop, Start,
           Pause, MarkCheckpointing, Resume,
           WaiterStep, WaitBegin, SeesReady, Return, WaitFails
<1>2. Condemns(handler.status) /\ ~mon.paused
    BY <1>1 DEF Kill, Unhealthy, Accepts, Condemns
<1> QED BY <1>2 DEF IInv, EarnedInv, Earned

(* handleHealthStatus and Rearm: for every threshold, a process is killed  *)
(* only after that many failures since the monitor was last reset, and     *)
(* never once a checkpoint has paused the probes.                          *)
THEOREM KillEarned == Spec => KillIsEarned
<1>1. IInv /\ [Next]_vars =>
          [proc = "up" /\ proc' = "killed" => against = FailureThreshold /\ ~mon.paused]_vars
    BY KillStep
<1> QED BY <1>1, Invariance, PTL DEF Spec, KillIsEarned

(* Only Return releases a waiter that has seen a signal.                   *)
LEMMA ReleaseStep ==
    ASSUME IInv, [Next]_vars, waiter.at = "saw", waiter'.at = "none"
    PROVE  signal.ready /\ proven # "none"
<1>1. waiter \in [at : {"none", "watching", "saw"}, valid : BOOLEAN, ready : BOOLEAN]
    BY DEF IInv, TypeOK
<1>2. ~resetReadiness
    BY <1>1 DEF resetReadiness
<1>3. Return
    BY <1>1, <1>2 DEF Next, vars, processVars, MonitorStep, ProbeBegin, FirstSkipped, Check, Judge,
           Send, TimePasses, HandlerStep, Receive, markReady, LeaveAlone, Kill,
           ProcessStep, AnswersChange, Exit, attemptRestart, GivesUp, Replaced, Stop, Start,
           Pause, MarkCheckpointing, Resume, WaiterStep, WaitBegin, SeesReady, WaitFails
<1>4. waiter.valid
    BY <1>3 DEF Return, Watching
<1>5. signal.ready
    BY <1>3, <1>4 DEF IInv, WaiterInv, Return
<1> QED BY <1>5 DEF IInv, ProvenInv

(* WaitForReadiness: through any number of restarts, stops and checkpoints *)
(* a dependent is released only while the current run's signal is closed,  *)
(* by a success of that run or by one of its predecessor that was under    *)
(* way when it was replaced or that a cold start kept.                     *)
THEOREM ReleaseCurrent == Spec => NoStaleRelease
<1>1. IInv /\ [Next]_vars => [waiter.at = "saw" /\ waiter'.at = "none"
                                  => signal.ready /\ proven # "none"]_vars
    BY ReleaseStep
<1> QED BY <1>1, Invariance, PTL DEF Spec, NoStaleRelease

-----------------------------------------------------------------------------
(***************************************************************************)
(* What is made of the health: the readiness file.  Readiness, for every   *)
(* set of processes, list, mode and number of failures of the file system. *)
(***************************************************************************)

(* FileNeverLies is not inductive by itself: SetTrackedProcesses begins    *)
(* the monitoring with whatever Start has left.  What is: from Start on    *)
(* the file is only there while /readyz says ready, or undeletable.        *)
FileInv == phase # "boot" /\ file => Readyz \/ unremoved

(* The two flags of the readiness manager, and its being stopped.          *)
FlagsType == isReady \in BOOLEAN /\ stopped \in BOOLEAN /\ file \in BOOLEAN

ReadyInv == FlagsType /\ FileInv

-----------------------------------------------------------------------------
(* removeReadinessFile leaves no file, or says that it could not.          *)
LEMMA Removed ==
    ASSUME FlagsType, removeReadinessFile
    PROVE  file' \in BOOLEAN /\ (file' => unremoved')
BY DEF FlagsType, removeReadinessFile

(* setReady, in both outcomes of the file system: a manager that is        *)
(* running writes the file only when it becomes or is ready, and removes   *)
(* it when it no longer is; a stopped one touches nothing.                 *)
LEMMA SetReadyKeeps ==
    ASSUME ReadyInv, NEW ready \in BOOLEAN, setReady(ready), UNCHANGED <<phase, stopped>>
    PROVE  ReadyInv'
<1>1. CASE stopped
    BY <1>1 DEF setReady, ReadyInv, FlagsType, FileInv, Readyz
<1>2. CASE ~stopped
    <2>1. isReady' = ready /\ stopped' = FALSE /\ isReady' \in BOOLEAN
        BY <1>2 DEF setReady, ReadyInv, FlagsType
    <2>2. CASE ready /\ createReadinessFile /\ UNCHANGED unremoved
        BY <2>1, <2>2 DEF createReadinessFile, ReadyInv, FlagsType, FileInv, Readyz
    <2>3. CASE ~ready /\ removeReadinessFile
        BY <2>1, <2>3, Removed DEF ReadyInv, FlagsType, FileInv
    <2>4. CASE ready = isReady /\ UNCHANGED <<file, unremoved>>
        BY <1>2, <2>1, <2>4 DEF ReadyInv, FlagsType, FileInv, Readyz
    <2> QED BY <1>2, <2>2, <2>3, <2>4 DEF setReady
<1> QED BY <1>1, <1>2 DEF ReadyInv, FlagsType

(* A pass may still push a status after Stop.                              *)
LEMMA PushKeeps ==
    ASSUME ReadyInv, Push
    PROVE  ReadyInv'
<1> DEFINE p == pass.name
           ready == \A q \in DOMAIN processes' : isProcessReady(processes'[q])
<1>1. UNCHANGED <<phase, stopped>>
    BY DEF Push
<1>2. CASE UNCHANGED <<isReady, file, unremoved>>
    BY <1>1, <1>2 DEF ReadyInv, FlagsType, FileInv, Readyz
<1>3. CASE setReady(ready)
    BY <1>1, <1>3, SetReadyKeeps
<1> QED BY <1>2, <1>3 DEF Push, UpdateProcessState

(* One case per action.                                                    *)
LEMMA ReadyInvNext == ReadyInv /\ [ReadinessNext]_readinessVars => ReadyInv'
<1> SUFFICES ASSUME ReadyInv, [ReadinessNext]_readinessVars PROVE ReadyInv'
    OBVIOUS
<1>1. CASE UNCHANGED <<phase, isReady, stopped, file, unremoved>>
    BY <1>1 DEF ReadyInv, FlagsType, FileInv, Readyz
<1>2. ASSUME NEW p \in Procs, Change(p) \/ RemoveProcess(p) \/ ReadState(p)
      PROVE  ReadyInv'
    BY <1>1, <1>2 DEF Change, RemoveProcess, ReadState
<1>3. CASE SomebodyDeletes
    BY <1>3 DEF SomebodyDeletes, ReadyInv, FlagsType, FileInv
<1>4. CASE StartManager
    BY <1>4, Removed DEF StartManager, ReadyInv, FlagsType, FileInv
<1>5. CASE Track
    BY <1>5 DEF Track, ReadyInv, FlagsType, FileInv, Readyz
<1>6. CASE StopManager
    BY <1>6, Removed DEF StopManager, ReadyInv, FlagsType, FileInv
<1>7. CASE Tick \/ Close
    BY <1>1, <1>7 DEF Tick, Close
<1>8. CASE Push
    BY <1>8, PushKeeps
<1>9. CASE UNCHANGED readinessVars
    BY <1>1, <1>9 DEF readinessVars
<1> QED BY <1>2, <1>3, <1>4, <1>5, <1>6, <1>7, <1>8, <1>9 DEF ReadinessNext

(* readiness.Manager: once the monitor runs, no orchestrator finds the     *)
(* file while /readyz answers 503, whatever passes, Stop, failed writes    *)
(* and removals and deletions by others coincide, unless a removal failed. *)
THEOREM FileTruthful == ReadinessSpec => []FileNeverLies
<1>1. ReadinessInit => ReadyInv
    BY DEF ReadinessInit, ReadyInv, FlagsType, FileInv
<1>2. ReadyInv => FileNeverLies
    BY DEF ReadyInv, FileInv, FileNeverLies
<1> QED BY <1>1, <1>2, ReadyInvNext, PTL DEF ReadinessSpec

---------------------------------------------------------------------------
(* Output.  Induction over data is by the least counterexample.            *)

LEMMA LeastNat ==
    ASSUME NEW T, T \subseteq Nat, T # {}
    PROVE  \E x \in T : \A y \in T : x <= y
<1>1. PICK x \in T : \A y \in T : ~(<<y, x>> \in OpToRel(<, Nat))
    BY NatLessThanWellFounded, WFMin
<1>2. \A y \in T : ~(y < x)
    BY <1>1 DEF OpToRel
<1> QED BY <1>2

Run(f, w, p, n) == f = [i \in 0..n |-> IF i = 0 THEN w ELSE Consume(f[i - 1], p[i])]

(* The recursion of Lines has a solution.                                  *)
LEMMA RunExists ==
    ASSUME NEW w, NEW p, NEW n \in Nat
    PROVE  \E f : Run(f, w, p, n)
<1> DEFINE T == {k \in Nat : ~ \E f : Run(f, w, p, k)}
<1>1. SUFFICES ASSUME T # {} PROVE FALSE
    OBVIOUS
<1>2. PICK k \in T : \A m \in T : k <= m
    BY <1>1, LeastNat
<1>3. CASE k = 0
    <2> DEFINE f == [i \in 0..0 |-> w]
    <2>1. f = [i \in 0..0 |-> IF i = 0 THEN w ELSE Consume(f[i - 1], p[i])]
        OBVIOUS
    <2> QED BY <1>3, <2>1 DEF Run
<1>4. CASE k # 0
    <2>1. k - 1 \in Nat /\ k - 1 \notin T
        BY <1>2, <1>4
    <2>2. PICK f : Run(f, w, p, k - 1)
        BY <2>1
    <2> DEFINE g == [i \in 0..k |-> IF i = k THEN Consume(f[k - 1], p[k]) ELSE f[i]]
    <2>3. \A i \in 0..(k - 1) : f[i] = IF i = 0 THEN w ELSE Consume(f[i - 1], p[i])
        BY <2>2 DEF Run
    <2>4. \A i \in 0..k : g[i] = IF i = 0 THEN w ELSE Consume(g[i - 1], p[i])
        <3> TAKE i \in 0..k
        <3>1. CASE i = k
            <4>1. g[i] = Consume(f[k - 1], p[k])
                BY <3>1
            <4>2. g[k - 1] = f[k - 1]
                BY <2>1
            <4> HIDE DEF g
            <4> QED BY <3>1, <4>1, <4>2, <1>4
        <3>2. CASE i # k
            <4>1. i \in 0..(k - 1) /\ g[i] = f[i]
                BY <3>2
            <4>2. i # 0 => g[i - 1] = f[i - 1]
                BY <3>2
            <4> HIDE DEF g
            <4> QED BY <4>1, <4>2, <2>3
        <3> QED BY <3>1, <3>2
    <2>5. g = [i \in 0..k |-> IF i = 0 THEN w ELSE Consume(g[i - 1], p[i])]
        BY <2>4
    <2> QED BY <2>5 DEF Run
<1> QED BY <1>3, <1>4

LEMMA LinesRun ==
    ASSUME NEW w, NEW p, Len(p) \in Nat
    PROVE  \E f : Run(f, w, p, Len(p)) /\ Lines(w, p) = f[Len(p)]
<1> DEFINE f == CHOOSE g : g = [i \in 0..Len(p) |-> IF i = 0 THEN w ELSE Consume(g[i - 1], p[i])]
<1>1. Run(f, w, p, Len(p))
    <2>1. \E g : g = [i \in 0..Len(p) |-> IF i = 0 THEN w ELSE Consume(g[i - 1], p[i])]
        <3>1. PICK g : Run(g, w, p, Len(p))
            BY RunExists, Zenon
        <3> QED BY <3>1, Zenon DEF Run
    <2> QED BY <2>1, Zenon DEF Run
<1>2. Lines(w, p) = f[Len(p)]
    BY Zenon DEF Lines
<1> QED BY <1>1, <1>2

---------------------------------------------------------------------------
(* Texts and their ids.                                                    *)

Token == [id : Nat \ {0}, kind : Kinds \cup {Newline}]

LEMMA IdsFacts ==
    ASSUME NEW text \in Seq(Token)
    PROVE  /\ IdsOf(text) \in Seq(Nat \ {0})
           /\ Len(IdsOf(text)) = Len(text) /\ DOMAIN IdsOf(text) = 1..Len(text)
           /\ \A i \in 1..Len(text) : IdsOf(text)[i] = text[i].id
           /\ Ids(text) = {text[i].id : i \in 1..Len(text)}
           /\ Ids(text) \in SUBSET (Nat \ {0})
<1>1. DOMAIN text = 1..Len(text) /\ \A i \in 1..Len(text) : text[i].id \in Nat \ {0}
    <2>1. DOMAIN text = 1..Len(text) /\ \A i \in 1..Len(text) : text[i] \in Token
        OBVIOUS
    <2> QED BY <2>1 DEF Token
<1>2. IdsOf(text) = [i \in 1..Len(text) |-> text[i].id]
    BY <1>1 DEF IdsOf
<1>3. IdsOf(text) \in Seq(Nat \ {0}) /\ Len(IdsOf(text)) = Len(text)
    BY <1>1, <1>2
<1> QED BY <1>1, <1>2, <1>3 DEF Ids, Range

(* Two functions on intervals, one after the other.                        *)
Joined(c, a, b, m, n) ==
    /\ m \in Nat /\ n \in Nat
    /\ DOMAIN a = 1..m /\ DOMAIN b = 1..n /\ DOMAIN c = 1..(m + n)
    /\ \A i \in 1..m : c[i] = a[i]
    /\ \A i \in 1..n : c[m + i] = b[i]

LEMMA CatJoins ==
    ASSUME NEW S, NEW a \in Seq(S), NEW b \in Seq(S)
    PROVE  /\ a \o b \in Seq(S) /\ Len(a \o b) = Len(a) + Len(b)
           /\ Joined(a \o b, a, b, Len(a), Len(b))
<1>1. Len(a) \in Nat /\ Len(b) \in Nat /\ DOMAIN a = 1..Len(a) /\ DOMAIN b = 1..Len(b)
    OBVIOUS
<1>2. a \o b \in Seq(S) /\ Len(a \o b) = Len(a) + Len(b)
    OBVIOUS
<1>3. DOMAIN (a \o b) = 1..(Len(a) + Len(b))
    BY <1>2
<1>4. \A i \in 1..Len(a) : (a \o b)[i] = a[i]
    OBVIOUS
<1>5. ASSUME NEW i \in 1..Len(b) PROVE (a \o b)[Len(a) + i] = b[i]
    <2>1. Len(a) + i \in (Len(a) + 1)..(Len(a) + Len(b)) /\ (Len(a) + i) - Len(a) = i
        BY <1>1
    <2>2. (a \o b)[Len(a) + i] = b[(Len(a) + i) - Len(a)]
        BY <2>1, <1>1
    <2> QED BY <2>1, <2>2
<1> QED BY <1>1, <1>2, <1>3, <1>4, <1>5 DEF Joined

LEMMA JoinedRange ==
    ASSUME NEW a, NEW b, NEW c, NEW m, NEW n, Joined(c, a, b, m, n)
    PROVE  Range(c) = Range(a) \cup Range(b)
<1> USE DEF Joined
<1>1. ASSUME NEW x \in Range(c) PROVE x \in Range(a) \cup Range(b)
    <2>1. PICK i \in 1..(m + n) : x = c[i]
        BY DEF Range
    <2>2. CASE i <= m
        <3>1. i \in 1..m
            BY <2>2
        <3> QED BY <2>1, <3>1 DEF Range
    <2>3. CASE i > m
        <3>1. i - m \in 1..n /\ m + (i - m) = i
            BY <2>3
        <3>2. x = b[i - m]
            BY <2>1, <3>1
        <3> QED BY <3>1, <3>2 DEF Range
    <2> QED BY <2>2, <2>3
<1>2. ASSUME NEW x \in Range(a) PROVE x \in Range(c)
    <2>1. PICK i \in 1..m : x = a[i]
        BY DEF Range
    <2>2. i \in 1..(m + n) /\ x = c[i]
        BY <2>1
    <2> QED BY <2>2 DEF Range
<1>3. ASSUME NEW x \in Range(b) PROVE x \in Range(c)
    <2>1. PICK i \in 1..n : x = b[i]
        BY DEF Range
    <2>2. m + i \in 1..(m + n) /\ x = c[m + i]
        BY <2>1
    <2> QED BY <2>2 DEF Range
<1> QED BY <1>1, <1>2, <1>3

(* Where an index of the whole lies.                                       *)
LEMMA JoinedAt ==
    ASSUME NEW a, NEW b, NEW c, NEW m, NEW n, Joined(c, a, b, m, n), NEW i \in DOMAIN c
    PROVE  \/ i <= m /\ i \in DOMAIN a /\ c[i] = a[i]
           \/ i > m /\ i - m \in DOMAIN b /\ c[i] = b[i - m]
<1> USE DEF Joined
<1>1. CASE i <= m
    <2>1. i \in 1..m
        BY <1>1
    <2> QED BY <1>1, <2>1
<1>2. CASE i > m
    <2>1. i - m \in 1..n /\ m + (i - m) = i
        BY <1>2
    <2>2. c[m + (i - m)] = b[i - m]
        BY <2>1
    <2> QED BY <1>2, <2>1, <2>2
<1> QED BY <1>1, <1>2

LEMMA JoinedIncreasing ==
    ASSUME NEW a, NEW b, NEW c, NEW m, NEW n, Joined(c, a, b, m, n),
           Increasing(a), Increasing(b), Below(Range(a), Range(b))
    PROVE  Increasing(c)
<1> SUFFICES ASSUME NEW i \in DOMAIN c, NEW j \in DOMAIN c, i < j PROVE c[i] < c[j]
    BY DEF Increasing
<1>0. m \in Nat /\ i \in Nat /\ j \in Nat
    BY DEF Joined
<1>1. CASE j <= m
    <2>1. i <= m
        BY <1>0, <1>1
    <2> QED BY <1>0, <1>1, <2>1, JoinedAt DEF Increasing
<1>2. CASE i <= m /\ j > m
    <2>1. i \in DOMAIN a /\ c[i] = a[i] /\ j - m \in DOMAIN b /\ c[j] = b[j - m]
        BY <1>0, <1>2, JoinedAt
    <2>2. c[i] \in Range(a) /\ c[j] \in Range(b)
        BY <2>1 DEF Range
    <2> QED BY <2>2 DEF Below
<1>3. CASE i > m
    <2>1. j > m /\ i - m < j - m
        BY <1>0, <1>3
    <2>2. i - m \in DOMAIN b /\ c[i] = b[i - m] /\ j - m \in DOMAIN b /\ c[j] = b[j - m]
        BY <1>0, <1>3, <2>1, JoinedAt
    <2> QED BY <2>1, <2>2 DEF Increasing
<1> QED BY <1>0, <1>1, <1>2, <1>3

LEMMA CatIds ==
    ASSUME NEW a \in Seq(Token), NEW b \in Seq(Token)
    PROVE  /\ a \o b \in Seq(Token)
           /\ Ids(a \o b) = Ids(a) \cup Ids(b)
           /\ Increasing(IdsOf(a)) /\ Increasing(IdsOf(b)) /\ Below(Ids(a), Ids(b))
              => Increasing(IdsOf(a \o b))
<1>1. a \o b \in Seq(Token) /\ Len(a \o b) = Len(a) + Len(b) /\ Joined(a \o b, a, b, Len(a), Len(b))
    BY CatJoins
<1>2. Joined(IdsOf(a \o b), IdsOf(a), IdsOf(b), Len(a), Len(b))
    <2> DEFINE c == a \o b m == Len(a) n == Len(b)
    <2>1. Joined(c, a, b, m, n)
        BY <1>1
    <2> HIDE DEF c, m, n
    <2> QED BY <2>1 DEF Joined, IdsOf
<1> QED BY <1>1, <1>2, JoinedRange, JoinedIncreasing DEF Ids

LEMMA EmptyIds == Ids(<<>>) = {} /\ Increasing(IdsOf(<<>>)) /\ AllIds(<<>>) = {} /\ InOrder(<<>>)
BY DEF Ids, IdsOf, Range, Increasing, AllIds, InOrder

LEMMA OneId ==
    ASSUME NEW t \in Token
    PROVE  <<t>> \in Seq(Token) /\ Ids(<<t>>) = {t.id} /\ Increasing(IdsOf(<<t>>))
<1>1. <<t>> \in Seq(Token) /\ Len(<<t>>) = 1 /\ <<t>>[1] = t
    OBVIOUS
<1>2. Ids(<<t>>) = {t.id}
    BY <1>1 DEF Ids, IdsOf, Range
<1>3. DOMAIN IdsOf(<<t>>) = 1..1
    <2> DEFINE x == <<t>>
    <2>1. x \in Seq(Token) /\ Len(x) = 1
        BY <1>1
    <2> HIDE DEF x
    <2>2. DOMAIN IdsOf(x) = 1..1
        BY <2>1, IdsFacts
    <2> QED BY <2>2 DEF x
<1> QED BY <1>1, <1>2, <1>3 DEF Increasing

LEMMA JoinedAllIds ==
    ASSUME NEW a, NEW b, NEW c, NEW m, NEW n, Joined(c, a, b, m, n)
    PROVE  AllIds(c) = AllIds(a) \cup AllIds(b)
<1> USE DEF Joined
<1>1. ASSUME NEW i \in DOMAIN c PROVE Ids(c[i]) \subseteq AllIds(a) \cup AllIds(b)
    <2>1. CASE i \in DOMAIN a /\ c[i] = a[i]
        BY <2>1 DEF AllIds
    <2>2. CASE i - m \in DOMAIN b /\ c[i] = b[i - m]
        BY <2>2 DEF AllIds
    <2> HIDE DEF Joined
    <2> QED BY <2>1, <2>2, JoinedAt
<1>2. ASSUME NEW i \in DOMAIN a PROVE Ids(a[i]) \subseteq AllIds(c)
    <2>1. i \in DOMAIN c /\ c[i] = a[i]
        OBVIOUS
    <2> QED BY <2>1 DEF AllIds
<1>3. ASSUME NEW i \in DOMAIN b PROVE Ids(b[i]) \subseteq AllIds(c)
    <2>1. m + i \in DOMAIN c /\ c[m + i] = b[i]
        OBVIOUS
    <2> QED BY <2>1 DEF AllIds
<1>4. AllIds(c) \subseteq AllIds(a) \cup AllIds(b)
    BY <1>1 DEF AllIds
<1>5. AllIds(a) \subseteq AllIds(c) /\ AllIds(b) \subseteq AllIds(c)
    BY <1>2, <1>3 DEF AllIds
<1> QED BY <1>4, <1>5

LEMMA JoinedInOrder ==
    ASSUME NEW a, NEW b, NEW c, NEW m, NEW n, Joined(c, a, b, m, n)
    PROVE  InOrder(c) <=> InOrder(a) /\ InOrder(b) /\ Below(AllIds(a), AllIds(b))
<1>0. m \in Nat /\ n \in Nat /\ DOMAIN a = 1..m /\ DOMAIN b = 1..n /\ DOMAIN c = 1..(m + n)
    BY DEF Joined
<1>1. ASSUME InOrder(c) PROVE InOrder(a) /\ InOrder(b) /\ Below(AllIds(a), AllIds(b))
    <2>1. \A i \in DOMAIN a : i \in DOMAIN c /\ c[i] = a[i]
        BY <1>0 DEF Joined
    <2>2. \A i \in DOMAIN b : m + i \in DOMAIN c /\ c[m + i] = b[i]
        BY <1>0 DEF Joined
    <2>3. InOrder(a)
        BY <1>1, <2>1 DEF InOrder
    <2>4. InOrder(b)
        <3>1. \A i \in DOMAIN b : Increasing(IdsOf(b[i]))
            BY <1>1, <2>2 DEF InOrder
        <3>2. ASSUME NEW i \in DOMAIN b, NEW j \in DOMAIN b, i < j
              PROVE  Below(Ids(b[i]), Ids(b[j]))
            <4>1. m + i < m + j
                BY <1>0, <3>2
            <4> QED BY <1>1, <2>2, <4>1 DEF InOrder
        <3> QED BY <3>1, <3>2 DEF InOrder
    <2>5. Below(AllIds(a), AllIds(b))
        <3> SUFFICES ASSUME NEW x \in AllIds(a), NEW y \in AllIds(b) PROVE x < y
            BY DEF Below
        <3>1. PICK i \in DOMAIN a, j \in DOMAIN b : x \in Ids(a[i]) /\ y \in Ids(b[j])
            BY DEF AllIds
        <3>2. i < m + j
            BY <1>0
        <3>3. Below(Ids(c[i]), Ids(c[m + j]))
            BY <1>1, <2>1, <2>2, <3>2 DEF InOrder
        <3> QED BY <2>1, <2>2, <3>1, <3>3 DEF Below
    <2> QED BY <2>3, <2>4, <2>5
<1>2. ASSUME InOrder(a), InOrder(b), Below(AllIds(a), AllIds(b)) PROVE InOrder(c)
    <2>1. \A i \in DOMAIN c : Increasing(IdsOf(c[i]))
        BY <1>2, JoinedAt DEF InOrder
    <2>2. ASSUME NEW i \in DOMAIN c, NEW j \in DOMAIN c, i < j
          PROVE  Below(Ids(c[i]), Ids(c[j]))
        <3>0. i \in Nat /\ j \in Nat
            BY <1>0
        <3>1. CASE j <= m
            <4>1. i <= m
                BY <1>0, <2>2, <3>0, <3>1
            <4>2. i \in DOMAIN a /\ j \in DOMAIN a /\ c[i] = a[i] /\ c[j] = a[j]
                <5>1. ~(i > m) /\ ~(j > m)
                    BY <1>0, <3>0, <3>1, <4>1
                <5>2. i \in DOMAIN a /\ c[i] = a[i]
                    BY <5>1, JoinedAt
                <5>3. j \in DOMAIN a /\ c[j] = a[j]
                    BY <5>1, JoinedAt
                <5> QED BY <5>2, <5>3
            <4> QED BY <1>2, <2>2, <4>2 DEF InOrder
        <3>2. CASE i <= m /\ j > m
            <4>1. i \in DOMAIN a /\ c[i] = a[i] /\ j - m \in DOMAIN b /\ c[j] = b[j - m]
                <5>1. ~(i > m) /\ ~(j <= m)
                    BY <1>0, <3>0, <3>2
                <5>2. i \in DOMAIN a /\ c[i] = a[i]
                    BY <5>1, JoinedAt
                <5>3. j - m \in DOMAIN b /\ c[j] = b[j - m]
                    BY <5>1, JoinedAt
                <5> QED BY <5>2, <5>3
            <4>2. Ids(c[i]) \subseteq AllIds(a) /\ Ids(c[j]) \subseteq AllIds(b)
                BY <4>1 DEF AllIds
            <4> QED BY <1>2, <4>2 DEF Below
        <3>3. CASE i > m
            <4>1. j > m /\ i - m < j - m
                BY <1>0, <2>2, <3>0, <3>3
            <4>2. i - m \in DOMAIN b /\ c[i] = b[i - m] /\ j - m \in DOMAIN b /\ c[j] = b[j - m]
                <5>1. ~(i <= m) /\ ~(j <= m)
                    BY <1>0, <3>0, <3>3, <4>1
                <5>2. i - m \in DOMAIN b /\ c[i] = b[i - m]
                    BY <5>1, JoinedAt
                <5>3. j - m \in DOMAIN b /\ c[j] = b[j - m]
                    BY <5>1, JoinedAt
                <5> QED BY <5>2, <5>3
            <4> QED BY <1>2, <4>1, <4>2 DEF InOrder
        <3> QED BY <1>0, <3>0, <3>1, <3>2, <3>3
    <2> QED BY <2>1, <2>2 DEF InOrder
<1> QED BY <1>1, <1>2

LEMMA CatTexts ==
    ASSUME NEW a \in Seq(Seq(Token)), NEW b \in Seq(Seq(Token))
    PROVE  /\ a \o b \in Seq(Seq(Token))
           /\ AllIds(a \o b) = AllIds(a) \cup AllIds(b)
           /\ InOrder(a \o b) <=> InOrder(a) /\ InOrder(b) /\ Below(AllIds(a), AllIds(b))
<1>1. a \o b \in Seq(Seq(Token)) /\ Joined(a \o b, a, b, Len(a), Len(b))
    BY CatJoins
<1> QED BY <1>1, JoinedAllIds, JoinedInOrder

LEMMA OneText ==
    ASSUME NEW x \in Seq(Token)
    PROVE  /\ <<x>> \in Seq(Seq(Token))
           /\ AllIds(<<x>>) = Ids(x)
           /\ InOrder(<<x>>) <=> Increasing(IdsOf(x))
<1>1. DOMAIN <<x>> = {1} /\ <<x>>[1] = x /\ <<x>> \in Seq(Seq(Token))
    OBVIOUS
<1> QED BY <1>1 DEF AllIds, InOrder

LEMMA TwoTexts ==
    ASSUME NEW x \in Seq(Token), NEW y \in Seq(Token)
    PROVE  /\ <<x, y>> \in Seq(Seq(Token))
           /\ AllIds(<<x, y>>) = Ids(x) \cup Ids(y)
           /\ InOrder(<<x, y>>) <=> /\ Increasing(IdsOf(x)) /\ Increasing(IdsOf(y))
                                   /\ Below(Ids(x), Ids(y))
<1>1. /\ <<x, y>> \in Seq(Seq(Token))
      /\ DOMAIN <<x, y>> = {1, 2} /\ <<x, y>>[1] = x /\ <<x, y>>[2] = y
    OBVIOUS
<1> DEFINE o == <<x, y>>
<1> HIDE DEF o
<1>2. DOMAIN o = {1, 2} /\ o[1] = x /\ o[2] = y
    BY <1>1 DEF o
<1>3. AllIds(o) = Ids(x) \cup Ids(y)
    BY <1>2 DEF AllIds
<1>4. InOrder(o) <=> /\ Increasing(IdsOf(x)) /\ Increasing(IdsOf(y)) /\ Below(Ids(x), Ids(y))
    BY <1>2 DEF InOrder
<1> QED BY <1>1, <1>3, <1>4 DEF o

LEMMA AppendText ==
    ASSUME NEW o \in Seq(Seq(Token)), NEW x \in Seq(Token)
    PROVE  /\ Append(o, x) \in Seq(Seq(Token))
           /\ AllIds(Append(o, x)) = AllIds(o) \cup Ids(x)
           /\ InOrder(Append(o, x)) <=> /\ InOrder(o) /\ Increasing(IdsOf(x))
                                        /\ Below(AllIds(o), Ids(x))
<1>1. Append(o, x) = o \o <<x>>
    OBVIOUS
<1> DEFINE q == <<x>> c == Append(o, x)
<1> HIDE DEF q, c
<1>2. /\ q \in Seq(Seq(Token)) /\ AllIds(q) = Ids(x) /\ (InOrder(q) <=> Increasing(IdsOf(x)))
      /\ c = o \o q
    BY <1>1, OneText DEF q, c
<1>3. /\ c \in Seq(Seq(Token)) /\ AllIds(c) = AllIds(o) \cup AllIds(q)
      /\ InOrder(c) <=> InOrder(o) /\ InOrder(q) /\ Below(AllIds(o), AllIds(q))
    BY <1>2, CatTexts
<1> QED BY <1>2, <1>3 DEF c

LEMMA AppendToken ==
    ASSUME NEW x \in Seq(Token), NEW t \in Token
    PROVE  /\ Append(x, t) \in Seq(Token)
           /\ Ids(Append(x, t)) = Ids(x) \cup {t.id}
           /\ Increasing(IdsOf(x)) /\ Below(Ids(x), {t.id}) => Increasing(IdsOf(Append(x, t)))
<1>1. Append(x, t) = x \o <<t>>
    OBVIOUS
<1>2. <<t>> \in Seq(Token)
    BY OneId
<1> QED BY <1>1, <1>2, OneId, CatIds

LEMMA HeadTail ==
    ASSUME NEW o \in Seq(Seq(Token)), o # <<>>
    PROVE  /\ Head(o) \in Seq(Token) /\ Tail(o) \in Seq(Seq(Token))
           /\ AllIds(o) = Ids(Head(o)) \cup AllIds(Tail(o))
           /\ InOrder(o) <=> /\ Increasing(IdsOf(Head(o))) /\ InOrder(Tail(o))
                             /\ Below(Ids(Head(o)), AllIds(Tail(o)))
<1>1. Head(o) \in Seq(Token) /\ Tail(o) \in Seq(Seq(Token))
    OBVIOUS
<1>2. o = <<Head(o)>> \o Tail(o)
    OBVIOUS
<1> DEFINE h == Head(o) r == Tail(o)
<1> HIDE DEF h, r
<1>3. h \in Seq(Token) /\ r \in Seq(Seq(Token)) /\ o = <<h>> \o r
    BY <1>1, <1>2 DEF h, r
<1> DEFINE q == <<h>>
<1> HIDE DEF q
<1>4. /\ q \in Seq(Seq(Token)) /\ AllIds(q) = Ids(h) /\ (InOrder(q) <=> Increasing(IdsOf(h)))
      /\ o = q \o r
    BY <1>3, OneText DEF q
<1>5. /\ AllIds(q \o r) = AllIds(q) \cup AllIds(r)
      /\ InOrder(q \o r) <=> InOrder(q) /\ InOrder(r) /\ Below(AllIds(q), AllIds(r))
    BY <1>3, <1>4, CatTexts, Zenon
<1> QED BY <1>1, <1>4, <1>5 DEF h, r

---------------------------------------------------------------------------
(* What the mutex guards: what a call has decided to emit, the buffered    *)
(* entry and the partial line, in that order.                              *)

WriterType ==
    [partial : Seq(Token), lines : Nat, text : Seq(Token), aged : BOOLEAN,
     timer : {"nil", "running", "spent"}, loose : Nat, out : Seq(Seq(Token))]

Held(w)    == Ids(w.text) \cup Ids(w.partial)
Carried(w) == AllIds(w.out) \cup Held(w)

(* Lines are not collected.                                                *)
Direct == ~config.multiline.enabled \/ config.multiline.start = {}

Sorted(w) ==
    /\ Direct => w.text = <<>>
    /\ InOrder(w.out) /\ Increasing(IdsOf(w.text)) /\ Increasing(IdsOf(w.partial))
    /\ Below(AllIds(w.out), Held(w)) /\ Below(Ids(w.text), Ids(w.partial))

(* v is w after some of what it holds was moved towards the log.           *)
Moved(w, v) ==
    /\ v \in WriterType /\ Sorted(v)
    /\ Carried(v) = Carried(w) /\ Held(v) \subseteq Held(w)

LEMMA flushMoves ==
    ASSUME NEW w \in WriterType, Sorted(w)
    PROVE  /\ Moved(w, flush(w))
           /\ flush(w).text = <<>> /\ flush(w).lines = 0 /\ flush(w).partial = w.partial
           /\ w.text = <<>> /\ w.lines = 0 => flush(w).out = w.out
<1> DEFINE e == [w EXCEPT !.lines = 0, !.text = <<>>, !.aged = FALSE]
<1>0. <<>> \in Seq(Token)
    OBVIOUS
<1>1. /\ e \in WriterType /\ e.text = <<>> /\ e.lines = 0 /\ e.partial = w.partial /\ e.out = w.out
      /\ w.text \in Seq(Token) /\ w.out \in Seq(Seq(Token)) /\ w.lines \in Nat
    <2>1. e.text = <<>> /\ e.lines = 0 /\ e.partial = w.partial /\ e.out = w.out
        BY DEF WriterType
    <2>2. w.text \in Seq(Token) /\ w.out \in Seq(Seq(Token)) /\ w.lines \in Nat
        BY DEF WriterType
    <2>3. e \in WriterType
        BY <1>0 DEF WriterType
    <2> QED BY <2>1, <2>2, <2>3
<1> HIDE DEF e
<1>2. CASE IsEmptyText(w.lines, w.text)
    <2>1. flush(w) = e /\ w.text = <<>>
        BY <1>2 DEF flush, Emit, e, IsEmptyText
    <2> QED BY <1>1, <2>1, EmptyIds DEF Moved, Sorted, Carried, Held
<1>3. CASE ~IsEmptyText(w.lines, w.text)
    <2> DEFINE f == [e EXCEPT !.out = Append(e.out, w.text)]
    <2>1. flush(w) = f
        BY <1>3 DEF flush, Emit, e
    <2>2. /\ Append(w.out, w.text) \in Seq(Seq(Token))
          /\ AllIds(Append(w.out, w.text)) = AllIds(w.out) \cup Ids(w.text)
          /\ InOrder(Append(w.out, w.text)) <=> /\ InOrder(w.out) /\ Increasing(IdsOf(w.text))
                                                /\ Below(AllIds(w.out), Ids(w.text))
        BY <1>1, AppendText
    <2>3. /\ f \in WriterType /\ f.text = <<>> /\ f.lines = 0 /\ f.partial = w.partial
          /\ f.out = Append(w.out, w.text)
        BY <1>1, <2>2 DEF WriterType
    <2> HIDE DEF f
    <2>4. Below(AllIds(w.out), Ids(w.text)) /\ Below(AllIds(w.out), Ids(w.partial))
        BY DEF Sorted, Held, Below
    <2>5. Sorted(f)
        BY <2>2, <2>3, <2>4, EmptyIds DEF Sorted, Held, Below
    <2>6. Carried(f) = Carried(w) /\ Held(f) \subseteq Held(w)
        BY <2>2, <2>3, EmptyIds DEF Carried, Held
    <2>7. ~(w.text = <<>> /\ w.lines = 0)
        BY <1>3 DEF IsEmptyText
    <2> QED BY <2>1, <2>3, <2>5, <2>6, <2>7 DEF Moved
<1> QED BY <1>2, <1>3

(* The line that follows what is buffered.                                 *)
LEMMA AddMoves ==
    ASSUME NEW w \in WriterType, Sorted(w), config.multiline.enabled,
           NEW e, e = [w EXCEPT !.partial = <<>>]
    PROVE  Moved(w, Add(e, w.partial)) /\ Add(e, w.partial).partial = <<>>
<1> DEFINE line == w.partial
           start == config.multiline.start
           more == [e EXCEPT !.lines = e.lines + 1, !.text = e.text \o line]
<1>0. <<>> \in Seq(Token)
    OBVIOUS
<1>1. /\ e \in WriterType /\ e.partial = <<>> /\ e.text = w.text /\ e.out = w.out /\ e.lines = w.lines
      /\ line \in Seq(Token) /\ w.text \in Seq(Token) /\ w.out \in Seq(Seq(Token)) /\ w.lines \in Nat
    <2>1. e.partial = <<>> /\ e.text = w.text /\ e.out = w.out /\ e.lines = w.lines
        BY DEF WriterType
    <2>2. line \in Seq(Token) /\ w.text \in Seq(Token) /\ w.out \in Seq(Seq(Token)) /\ w.lines \in Nat
        BY DEF WriterType
    <2>3. e \in WriterType
        BY <1>0 DEF WriterType
    <2> QED BY <2>1, <2>2, <2>3
<1>2. Sorted(e)
    BY <1>1, EmptyIds DEF Sorted, Held, Below
<1>3. Carried(w) = Carried(e) \cup Ids(line) /\ Held(w) = Held(e) \cup Ids(line)
    BY <1>1, EmptyIds DEF Carried, Held
<1>4. /\ Below(AllIds(w.out), Ids(w.text)) /\ Below(AllIds(w.out), Ids(line))
      /\ Below(Ids(w.text), Ids(line)) /\ Increasing(IdsOf(line)) /\ Increasing(IdsOf(w.text))
      /\ InOrder(w.out)
    BY DEF Sorted, Held, Below
<1> HIDE DEF line
<1>5. CASE start = {}
    <2>1. w.text = <<>> /\ Ids(w.text) = {}
        BY <1>5, EmptyIds DEF Sorted, Direct
    <2>2. CASE IsEmptyText(1, line)
        <3>1. Add(e, line) = e /\ line = <<>>
            BY <1>5, <2>2 DEF Add, Emit, IsEmptyText
        <3> QED BY <1>1, <1>2, <1>3, <3>1, EmptyIds DEF Moved, line
    <2>3. CASE ~IsEmptyText(1, line)
        <3> DEFINE f == [e EXCEPT !.out = Append(e.out, line)]
        <3>1. Add(e, line) = f
            BY <1>5, <2>3 DEF Add, Emit
        <3>2. /\ Append(w.out, line) \in Seq(Seq(Token))
              /\ AllIds(Append(w.out, line)) = AllIds(w.out) \cup Ids(line)
              /\ InOrder(Append(w.out, line))
            BY <1>1, <1>4, AppendText
        <3>3. f \in WriterType /\ f.text = w.text /\ f.partial = <<>> /\ f.out = Append(w.out, line)
            BY <1>1, <3>2 DEF WriterType
        <3> HIDE DEF f
        <3>4. Sorted(f)
            BY <2>1, <3>2, <3>3, EmptyIds DEF Sorted, Held, Below
        <3>5. Carried(f) = Carried(e) \cup Ids(line) /\ Held(f) = {}
            BY <1>1, <2>1, <3>2, <3>3, EmptyIds DEF Carried, Held
        <3> QED BY <1>3, <3>1, <3>3, <3>4, <3>5 DEF Moved, line
    <2> QED BY <2>2, <2>3
<1>6. CASE start # {} /\ MatchString(start, line) /\ e.lines # 0
    <2> DEFINE f == flush(e) g == [f EXCEPT !.lines = 1, !.text = line]
    <2>1. Add(e, line) = g
        BY <1>6 DEF Add
    <2>2. Moved(e, f) /\ f.text = <<>> /\ f.partial = <<>>
        BY <1>1, <1>2, flushMoves
    <2> HIDE DEF f
    <2>3. g \in WriterType /\ g.text = line /\ g.partial = <<>> /\ g.out = f.out
        BY <1>1, <2>2 DEF WriterType, Moved
    <2> HIDE DEF g
    <2>4. AllIds(f.out) = Carried(e) /\ InOrder(f.out)
        BY <2>2, EmptyIds DEF Moved, Sorted, Carried, Held
    <2>5. Carried(e) = AllIds(w.out) \cup Ids(w.text)
        BY <1>1, EmptyIds DEF Carried, Held
    <2>6. Below(Carried(e), Ids(line))
        BY <1>4, <2>5 DEF Below
    <2>7. ~Direct
        BY <1>6 DEF Direct
    <2>8. Sorted(g)
        BY <1>4, <2>3, <2>4, <2>6, <2>7, EmptyIds DEF Sorted, Held, Below
    <2>9. Carried(g) = Carried(e) \cup Ids(line) /\ Held(g) = Ids(line)
        BY <2>3, <2>4, EmptyIds DEF Carried, Held
    <2> QED BY <1>3, <2>1, <2>3, <2>8, <2>9 DEF Moved, line
<1>7. CASE start # {} /\ ~(MatchString(start, line) /\ e.lines # 0)
    <2>1. /\ w.text \o line \in Seq(Token) /\ Ids(w.text \o line) = Ids(w.text) \cup Ids(line)
          /\ Increasing(IdsOf(w.text \o line))
        BY <1>1, <1>4, CatIds
    <2>2. /\ more \in WriterType /\ more.text = w.text \o line /\ more.partial = <<>>
          /\ more.out = w.out
        <3>1. e.lines + 1 \in Nat /\ e.text \o line \in Seq(Token)
            BY <1>1, <2>1
        <3>2. more \in WriterType
            BY <1>1, <3>1 DEF WriterType
        <3>3. more.text = w.text \o line /\ more.partial = <<>> /\ more.out = w.out
            BY <1>1 DEF WriterType
        <3> QED BY <3>2, <3>3
    <2> HIDE DEF more
    <2>3. ~Direct
        BY <1>7 DEF Direct
    <2>4. Sorted(more)
        BY <1>4, <2>1, <2>2, <2>3, EmptyIds DEF Sorted, Held, Below
    <2>5. Carried(more) = Carried(w) /\ Held(more) = Held(w)
        BY <1>1, <2>1, <2>2, EmptyIds DEF Carried, Held, line
    <2>6. Moved(more, flush(more)) /\ flush(more).partial = <<>>
        BY <2>2, <2>4, flushMoves
    <2>7. Add(e, line) \in {flush(more), more}
        BY <1>7 DEF Add, more
    <2> QED BY <2>2, <2>4, <2>5, <2>6, <2>7 DEF Moved, line
<1> QED BY <1>5, <1>6, <1>7

LEMMA EndLineMoves ==
    ASSUME NEW w \in WriterType, Sorted(w)
    PROVE  Moved(w, EndLine(w)) /\ EndLine(w).partial = <<>>
<1> DEFINE line == w.partial
           e == [w EXCEPT !.partial = <<>>]
<1>1. CASE config.multiline.enabled
    <2> DEFINE v == Add(e, line)
               u == [v EXCEPT !.timer = IF v.lines = 0 THEN "nil" ELSE "running"]
    <2>1. EndLine(w) = u
        BY <1>1 DEF EndLine, processLine, armFlushTimerLocked
    <2>2. Moved(w, v) /\ v.partial = <<>>
        BY <1>1, AddMoves
    <2> HIDE DEF v
    <2>3. /\ u \in WriterType /\ u.text = v.text /\ u.partial = v.partial /\ u.out = v.out
        BY <2>2 DEF Moved, WriterType
    <2> HIDE DEF u
    <2> QED BY <2>1, <2>2, <2>3 DEF Moved, Sorted, Carried, Held
<1>2. CASE ~config.multiline.enabled
    <2> DEFINE f == [e EXCEPT !.out = Append(e.out, line)]
    <2>0. <<>> \in Seq(Token)
        OBVIOUS
    <2>1. EndLine(w) = f
        BY <1>2 DEF EndLine, processLine
    <2>2. /\ w.text = <<>> /\ Ids(w.text) = {} /\ line \in Seq(Token) /\ w.out \in Seq(Seq(Token))
          /\ InOrder(w.out) /\ Increasing(IdsOf(line)) /\ Below(AllIds(w.out), Ids(line))
        BY <1>2, EmptyIds DEF Sorted, Direct, Held, Below, WriterType
    <2>3. /\ Append(w.out, line) \in Seq(Seq(Token)) /\ InOrder(Append(w.out, line))
          /\ AllIds(Append(w.out, line)) = AllIds(w.out) \cup Ids(line)
        BY <2>2, AppendText
    <2>4. f.text = w.text /\ f.partial = <<>> /\ f.out = Append(w.out, line)
        BY DEF WriterType
    <2>5. f \in WriterType
        BY <2>0, <2>3 DEF WriterType
    <2> HIDE DEF f
    <2>6. Sorted(f)
        BY <2>2, <2>3, <2>4, EmptyIds DEF Sorted, Held, Below
    <2>7. Carried(f) = Carried(w) /\ Held(f) = {}
        BY <2>2, <2>3, <2>4, EmptyIds DEF Carried, Held
    <2> QED BY <2>1, <2>4, <2>5, <2>6, <2>7 DEF Moved
<1> QED BY <1>1, <1>2

(* The text among the first n tokens of p.                                 *)
TextIn(p, n) == {p[i].id : i \in {j \in 1..n : p[j].kind # Newline}}

(* A call of Write keeps the order and adds to it what it was given.       *)
LEMMA LinesMoves ==
    ASSUME NEW w \in WriterType, Sorted(w), NEW p \in Seq(Token), Increasing(IdsOf(p)),
           Below(Carried(w), Ids(p))
    PROVE  LET v == Lines(w, p)
           IN  /\ v \in WriterType /\ Sorted(v)
               /\ Carried(v) = Carried(w) \cup TextIn(p, Len(p))
               /\ Held(v) \subseteq Held(w) \cup Ids(p)
<1>0. Len(p) \in Nat
    OBVIOUS
<1>1. PICK f : Run(f, w, p, Len(p)) /\ Lines(w, p) = f[Len(p)]
    BY <1>0, LinesRun
<1>2. \A i \in 0..Len(p) : f[i] = IF i = 0 THEN w ELSE Consume(f[i - 1], p[i])
    BY <1>1 DEF Run
<1> DEFINE Good(i) == /\ f[i] \in WriterType /\ Sorted(f[i])
                      /\ Carried(f[i]) = Carried(w) \cup TextIn(p, i)
                      /\ Held(f[i]) \subseteq Held(w) \cup Ids(p)
           T == {i \in Nat : i <= Len(p) /\ ~Good(i)}
<1>3. SUFFICES ASSUME T # {} PROVE FALSE
    BY <1>0, <1>1
<1>4. PICK k \in T : \A i \in T : k <= i
    BY <1>3, LeastNat
<1>5. CASE k = 0
    <2>1. f[0] = w
        BY <1>0, <1>2
    <2>2. TextIn(p, 0) = {}
        BY DEF TextIn
    <2> QED BY <1>4, <1>5, <2>1, <2>2
<1>6. CASE k # 0
    <2> DEFINE v == f[k - 1] t == p[k]
    <2>0. k \in 1..Len(p) /\ k - 1 \in Nat /\ k - 1 < k /\ k - 1 <= Len(p)
        BY <1>0, <1>4, <1>6
    <2>1. Good(k - 1)
        BY <1>4, <2>0
    <2>2. f[k] = Consume(v, t)
        BY <1>2, <1>6, <2>0
    <2>3. t \in Token /\ IdsOf(p)[k] = t.id /\ t.id \in Ids(p)
        BY <2>0, IdsFacts
    <2>4. v \in WriterType /\ Sorted(v)
        BY <2>1
    <2>5. TextIn(p, k) = TextIn(p, k - 1) \cup (IF t.kind = Newline THEN {} ELSE {t.id})
        <3>1. \A j : j \in 1..k <=> j \in 1..(k - 1) \/ j = k
            BY <2>0
        <3> QED BY <3>1 DEF TextIn
    <2>6. \A x \in Carried(v) : x < t.id
        <3>1. \A x \in Carried(w) : x < t.id
            BY <2>3 DEF Below
        <3>2. ASSUME NEW x \in TextIn(p, k - 1) PROVE x < t.id
            <4>1. PICK j \in 1..(k - 1) : x = p[j].id
                BY DEF TextIn
            <4>2. j \in 1..Len(p) /\ j < k
                BY <2>0, <1>0
            <4>3. IdsOf(p)[j] = x /\ j \in DOMAIN IdsOf(p) /\ k \in DOMAIN IdsOf(p)
                BY <2>0, <4>1, <4>2, IdsFacts
            <4> QED BY <2>3, <4>2, <4>3 DEF Increasing
        <3> QED BY <2>1, <3>1, <3>2
    <2> HIDE DEF v, t
    <2>7. CASE t.kind = Newline
        <3>1. Moved(v, f[k])
            BY <2>2, <2>4, <2>7, EndLineMoves DEF Consume
        <3>2. Carried(f[k]) = Carried(w) \cup TextIn(p, k) /\ Held(f[k]) \subseteq Held(w) \cup Ids(p)
            BY <2>1, <2>5, <2>7, <3>1 DEF Moved, v
        <3> QED BY <1>4, <3>1, <3>2 DEF Moved
    <2>8. CASE t.kind # Newline
        <3> DEFINE u == [v EXCEPT !.partial = Append(v.partial, t)]
        <3>1. f[k] = u
            BY <2>2, <2>8 DEF Consume
        <3>2. v.partial \in Seq(Token) /\ Increasing(IdsOf(v.partial))
            BY <2>4 DEF WriterType, Sorted
        <3>3. Below(Ids(v.partial), {t.id})
            BY <2>6 DEF Carried, Held, Below
        <3>4. /\ Append(v.partial, t) \in Seq(Token)
              /\ Ids(Append(v.partial, t)) = Ids(v.partial) \cup {t.id}
              /\ Increasing(IdsOf(Append(v.partial, t)))
            BY <2>3, <3>2, <3>3, AppendToken
        <3>5. u.partial = Append(v.partial, t) /\ u.text = v.text /\ u.out = v.out
            BY <2>4 DEF WriterType
        <3>6. u \in WriterType
            BY <2>4, <3>4 DEF WriterType
        <3> HIDE DEF u
        <3>7. Sorted(u)
            BY <2>4, <2>6, <3>4, <3>5 DEF Sorted, Held, Carried, Below
        <3>8. Carried(u) = Carried(v) \cup {t.id} /\ Held(u) = Held(v) \cup {t.id}
            BY <3>4, <3>5 DEF Carried, Held
        <3>9. Carried(u) = Carried(w) \cup TextIn(p, k) /\ Held(u) \subseteq Held(w) \cup Ids(p)
            BY <2>1, <2>3, <2>5, <2>8, <3>8 DEF v
        <3> QED BY <1>4, <3>1, <3>6, <3>7, <3>9
    <2> QED BY <2>7, <2>8
<1> QED BY <1>5, <1>6

LEMMA WriteMoves ==
    ASSUME NEW w \in WriterType, Sorted(w), NEW p \in Seq(Token), Increasing(IdsOf(p)),
           Below(Carried(w), Ids(p))
    PROVE  LET v == Write(w, p)
           IN  /\ v \in WriterType /\ Sorted(v)
               /\ Carried(v) = Carried(w) \cup TextIn(p, Len(p))
               /\ Held(v) \subseteq Held(w) \cup Ids(p)
<1> DEFINE fed == Lines(w, p)
           timed == IF fed.aged /\ fed.lines # 0 THEN flush(fed) ELSE fed
<1>1. /\ fed \in WriterType /\ Sorted(fed)
      /\ Carried(fed) = Carried(w) \cup TextIn(p, Len(p))
      /\ Held(fed) \subseteq Held(w) \cup Ids(p)
    BY LinesMoves
<1>2. Write(w, p) \in {timed, EndLine(timed)}
    BY DEF Write
<1> HIDE DEF fed
<1>3. Moved(fed, timed)
    BY <1>1, flushMoves DEF Moved
<1> HIDE DEF timed
<1>4. Moved(timed, EndLine(timed))
    BY <1>3, EndLineMoves DEF Moved
<1> QED BY <1>1, <1>2, <1>3, <1>4 DEF Moved

LEMMA FlushMoves ==
    ASSUME NEW w \in WriterType, Sorted(w)
    PROVE  /\ Moved(w, Flush(w))
           /\ Flush(w).lines = 0 /\ Flush(w).text = <<>> /\ Flush(w).partial = <<>>
           /\ w.lines = 0 /\ w.text = <<>> /\ w.partial = <<>> => Flush(w).out = w.out
<1> DEFINE ended == IF w.partial = <<>> THEN w ELSE EndLine(w)
           v == flush(ended)
           u == [v EXCEPT !.timer = "nil"]
<1>1. Flush(w) = u
    BY DEF Flush
<1>2. Moved(w, ended) /\ ended.partial = <<>> /\ (w.partial = <<>> => ended = w)
    BY EndLineMoves DEF Moved
<1> HIDE DEF ended
<1>3. /\ Moved(ended, v) /\ v.lines = 0 /\ v.text = <<>> /\ v.partial = <<>>
      /\ ended.text = <<>> /\ ended.lines = 0 => v.out = ended.out
    BY <1>2, flushMoves DEF Moved
<1> HIDE DEF v
<1>4. u \in WriterType /\ u.lines = 0 /\ u.text = v.text /\ u.partial = v.partial /\ u.out = v.out
    BY <1>3 DEF Moved, WriterType
<1> HIDE DEF u
<1>5. Moved(v, u)
    BY <1>3, <1>4 DEF Moved, Sorted, Carried, Held
<1> QED BY <1>1, <1>2, <1>3, <1>4, <1>5 DEF Moved

LEMMA TimeoutMoves ==
    ASSUME NEW w \in WriterType, Sorted(w)
    PROVE  /\ Moved(w, flushOnTimeout(w))
           /\ w.lines = 0 => flushOnTimeout(w) = w
<1>1. CASE w.lines = 0
    BY <1>1 DEF flushOnTimeout, Moved
<1>2. CASE w.lines # 0
    <2> DEFINE v == flush(w)
               more == IF w.timer = "running" THEN 1 ELSE 0
               u == [v EXCEPT !.timer = "nil", !.loose = v.loose + more]
    <2>1. flushOnTimeout(w) = u
        BY <1>2 DEF flushOnTimeout
    <2>2. Moved(w, v)
        BY flushMoves
    <2> HIDE DEF v
    <2>3. u \in WriterType /\ u.text = v.text /\ u.partial = v.partial /\ u.out = v.out
        <3>1. v \in WriterType /\ v.loose \in Nat /\ more \in Nat
            BY <2>2 DEF Moved, WriterType
        <3> HIDE DEF more
        <3>2. v.loose + more \in Nat
            BY <3>1
        <3>3. u \in WriterType
            BY <3>1, <3>2 DEF WriterType
        <3> QED BY <3>1, <3>3 DEF WriterType
    <2> HIDE DEF u
    <2> QED BY <1>2, <2>1, <2>2, <2>3 DEF Moved, Sorted, Carried, Held
<1> QED BY <1>1, <1>2

LEMMA PartsFacts ==
    ASSUME NEW u \in Seq(Seq(Token)), NEW w \in WriterType
    PROVE  LET all == u \o <<w.text, w.partial>>
           IN  /\ AllIds(all) = AllIds(u) \cup Held(w)
               /\ InOrder(all) <=>
                     /\ InOrder(u) /\ Increasing(IdsOf(w.text)) /\ Increasing(IdsOf(w.partial))
                     /\ Below(AllIds(u), Held(w)) /\ Below(Ids(w.text), Ids(w.partial))
<1> DEFINE x == w.text y == w.partial b == <<x, y>>
<1>1. x \in Seq(Token) /\ y \in Seq(Token)
    BY DEF WriterType
<1>2. /\ b \in Seq(Seq(Token)) /\ AllIds(b) = Ids(x) \cup Ids(y)
      /\ InOrder(b) <=> Increasing(IdsOf(x)) /\ Increasing(IdsOf(y)) /\ Below(Ids(x), Ids(y))
    BY <1>1, TwoTexts
<1> HIDE DEF b
<1>3. /\ AllIds(u \o b) = AllIds(u) \cup AllIds(b)
      /\ InOrder(u \o b) <=> InOrder(u) /\ InOrder(b) /\ Below(AllIds(u), AllIds(b))
    BY <1>2, CatTexts, Zenon
<1>4. /\ AllIds(u \o b) = AllIds(u) \cup Held(w)
      /\ InOrder(u \o b) <=>
            /\ InOrder(u) /\ Increasing(IdsOf(x)) /\ Increasing(IdsOf(y))
            /\ Below(AllIds(u), Held(w)) /\ Below(Ids(x), Ids(y))
    BY <1>2, <1>3 DEF Held
<1> QED BY <1>4 DEF b

---------------------------------------------------------------------------
(* The invariant of the pipeline.                                          *)

PipelineType ==
    /\ config.bound.kinds \subseteq Kinds
    /\ process \in {"running", "exited"} /\ helper \in BOOLEAN
    /\ written \in [Streams -> Seq(Token)] /\ pipe \in [Streams -> Seq(Token)]
    /\ copier \in [Streams -> {"copying", "flushing", "done"}]
    /\ monitor \in [at : Nat, timedOut : BOOLEAN, flushed : [Streams -> Int]]
    /\ writer \in [Streams -> WriterType]
    /\ holder \in [Streams -> {Nobody, "copier", "timer", "monitor"}]
    /\ todo \in [Streams -> Seq(Seq(Token))]
    /\ DOMAIN sending = Streams
    /\ handled \in [Streams -> Seq(Nat)]

(* The mutex is held as long as there is something to process, and only    *)
(* the first of it can be in the ring.                                     *)
Queue(s) ==
    /\ writer[s].out = <<>> /\ (Direct => writer[s].text = <<>>)
    /\ holder[s] = Nobody <=> todo[s] = <<>>
    /\ sending[s] # None => todo[s] # <<>>

Conserved(s) ==
    /\ Increasing(handled[s]) /\ InOrder(Waiting(s))
    /\ Below(Range(handled[s]), AllIds(Waiting(s)))
    /\ Range(handled[s]) \cup AllIds(Waiting(s)) = Text(s, Taken(s))

(* A token's id is its place in the stream, and the pipe holds the last of *)
(* them.                                                                   *)
Source(s) ==
    /\ Len(pipe[s]) <= Len(written[s])
    /\ \A i \in 1..Len(written[s]) : written[s][i].id = i
    /\ pipe[s] = SubSeq(written[s], Taken(s) + 1, Len(written[s]))

(* What the writer holds was read after the monitor's flush.               *)
AfterFlush(s) ==
    /\ monitor.flushed[s] <= Taken(s)
    /\ \A id \in Held(writer[s]) : id > monitor.flushed[s]

(* The copier saw the end of the pipe and flushed.                         *)
Ended(s) ==
    copier[s] # "copying" =>
        /\ pipe[s] = <<>> /\ process = "exited" /\ ~helper
        /\ writer[s].lines = 0 /\ writer[s].text = <<>> /\ writer[s].partial = <<>>
        /\ holder[s] \in {Nobody, "copier"}
        /\ copier[s] = "done" => holder[s] = Nobody

Drained ==
    monitor.at > 0 /\ ~monitor.timedOut /\ ~config.snapshot => \A s \in Streams : copier[s] = "done"

StreamInv(s) == Queue(s) /\ Conserved(s) /\ Source(s) /\ AfterFlush(s) /\ Ended(s)

Pipeline == PipelineType /\ Drained /\ \A s \in Streams : StreamInv(s)

(* Everything StreamInv says of a stream.                                  *)
StreamState(s) ==
    <<written[s], pipe[s], copier[s], monitor.flushed[s], writer[s], holder[s], todo[s],
      sending[s], handled[s]>>

LEMMA Untouched ==
    ASSUME NEW s \in Streams, StreamInv(s), StreamState(s)' = StreamState(s), config' = config,
           copier[s] # "copying" /\ process = "exited" /\ ~helper => process' = "exited" /\ ~helper'
    PROVE  StreamInv(s)'
<1>1. /\ written'[s] = written[s] /\ pipe'[s] = pipe[s] /\ copier'[s] = copier[s]
      /\ monitor'.flushed[s] = monitor.flushed[s] /\ writer'[s] = writer[s]
      /\ holder'[s] = holder[s] /\ todo'[s] = todo[s] /\ sending'[s] = sending[s]
      /\ handled'[s] = handled[s]
    BY DEF StreamState
<1>2. Waiting(s)' = Waiting(s) /\ Taken(s)' = Taken(s)
    BY <1>1 DEF Waiting, Unprocessed, Taken
<1>3. \A n : Text(s, n)' = Text(s, n)
    BY <1>1 DEF Text
<1>4. Queue(s)'
    BY <1>1 DEF StreamInv, Queue, Direct
<1>5. Conserved(s)'
    <2>1. Text(s, Taken(s))' = Text(s, Taken(s))
        BY <1>1, <1>2 DEF Text
    <2> QED BY <1>1, <1>2, <2>1 DEF StreamInv, Conserved
<1>6. Source(s)'
    BY <1>1, <1>2 DEF StreamInv, Source
<1>7. AfterFlush(s)'
    BY <1>1, <1>2 DEF StreamInv, AfterFlush
<1>8. Ended(s)'
    BY <1>1 DEF StreamInv, Ended
<1> QED BY <1>4, <1>5, <1>6, <1>7, <1>8 DEF StreamInv

(* With the mutex free, what is waiting is what the writer holds.          *)
LEMMA Free ==
    ASSUME Pipeline, NEW s \in Streams, holder[s] = Nobody
    PROVE  /\ todo[s] = <<>> /\ sending[s] = None
           /\ writer[s] \in WriterType /\ Sorted(writer[s])
           /\ Carried(writer[s]) = Held(writer[s])
           /\ Increasing(handled[s]) /\ Below(Range(handled[s]), Held(writer[s]))
           /\ Range(handled[s]) \cup Held(writer[s]) = Text(s, Taken(s))
<1>1. todo[s] = <<>> /\ sending[s] = None /\ writer[s].out = <<>> /\ (Direct => writer[s].text = <<>>)
    BY DEF Pipeline, StreamInv, Queue
<1>2. writer[s] \in WriterType /\ <<>> \in Seq(Seq(Token))
    BY DEF Pipeline, PipelineType
<1>3. Waiting(s) = <<>> \o <<writer[s].text, writer[s].partial>>
    BY <1>1 DEF Waiting, Unprocessed
<1>4. /\ AllIds(Waiting(s)) = AllIds(<<>>) \cup Held(writer[s])
      /\ InOrder(Waiting(s)) <=>
            /\ InOrder(<<>>) /\ Increasing(IdsOf(writer[s].text)) /\ Increasing(IdsOf(writer[s].partial))
            /\ Below(AllIds(<<>>), Held(writer[s])) /\ Below(Ids(writer[s].text), Ids(writer[s].partial))
    BY <1>2, <1>3, PartsFacts
<1>5. AllIds(Waiting(s)) = Held(writer[s]) /\ Carried(writer[s]) = Held(writer[s])
    BY <1>1, <1>4, EmptyIds DEF Carried
<1>6. Conserved(s)
    BY DEF Pipeline, StreamInv
<1>7. Sorted(writer[s])
    BY <1>1, <1>4, <1>6, EmptyIds DEF Sorted, Conserved
<1> QED BY <1>1, <1>2, <1>5, <1>6, <1>7 DEF Conserved

(* Somebody takes the mutex and leaves v, which carries what the writer    *)
(* held and what is new.                                                   *)
LEMMA TakeKeeps ==
    ASSUME Pipeline, NEW s \in Streams, NEW who \in {"copier", "timer", "monitor"}, NEW v, NEW new,
           v \in WriterType, Sorted(v), Take(s, who, v),
           Carried(v) = Held(writer[s]) \cup new, Below(Text(s, Taken(s)), new),
           config' = config, sending' = sending, handled' = handled,
           Text(s, Taken(s))' = Text(s, Taken(s)) \cup new
    PROVE  /\ Queue(s)' /\ Conserved(s)'
           /\ writer' \in [Streams -> WriterType] /\ todo' \in [Streams -> Seq(Seq(Token))]
           /\ holder' \in [Streams -> {Nobody, "copier", "timer", "monitor"}]
           /\ writer'[s].lines = v.lines /\ writer'[s].text = v.text /\ writer'[s].partial = v.partial
           /\ holder'[s] = IF v.out = <<>> THEN Nobody ELSE who
           /\ \A x \in Streams \ {s} :
                 writer'[x] = writer[x] /\ todo'[x] = todo[x] /\ holder'[x] = holder[x]
<1> DEFINE w == [v EXCEPT !.out = <<>>]
<1>0. holder[s] = Nobody
    BY DEF Take
<1>1. /\ todo[s] = <<>> /\ sending[s] = None
      /\ Increasing(handled[s]) /\ Below(Range(handled[s]), Held(writer[s]))
      /\ Range(handled[s]) \cup Held(writer[s]) = Text(s, Taken(s))
    BY <1>0, Free
<1>2. PipelineType
    BY DEF Pipeline
<1>3. <<>> \in Seq(Seq(Token)) /\ v.out \in Seq(Seq(Token))
    BY DEF WriterType
<1>4. /\ w \in WriterType /\ w.lines = v.lines /\ w.text = v.text /\ w.partial = v.partial
      /\ w.out = <<>>
    BY <1>3 DEF WriterType
<1> HIDE DEF w
<1>5. /\ writer' = [writer EXCEPT ![s] = w] /\ todo' = [todo EXCEPT ![s] = v.out]
      /\ holder' = [holder EXCEPT ![s] = IF v.out = <<>> THEN Nobody ELSE who]
    BY DEF Take, w
<1>6. /\ writer' \in [Streams -> WriterType] /\ todo' \in [Streams -> Seq(Seq(Token))]
      /\ holder' \in [Streams -> {Nobody, "copier", "timer", "monitor"}]
    BY <1>2, <1>3, <1>4, <1>5 DEF PipelineType
<1>7. /\ writer'[s] = w /\ todo'[s] = v.out
      /\ holder'[s] = IF v.out = <<>> THEN Nobody ELSE who
      /\ \A x \in Streams \ {s} :
            writer'[x] = writer[x] /\ todo'[x] = todo[x] /\ holder'[x] = holder[x]
    BY <1>2, <1>5 DEF PipelineType
<1>8. Queue(s)'
    <2>1. who # Nobody
        BY DEF Nobody
    <2>2. Direct => w.text = <<>>
        BY <1>4 DEF Sorted
    <2> QED BY <1>1, <1>4, <1>7, <2>1, <2>2 DEF Queue, Direct
<1>9. Conserved(s)'
    <2>1. Waiting(s)' = v.out \o <<w.text, w.partial>>
        BY <1>1, <1>7 DEF Waiting, Unprocessed
    <2>2. /\ AllIds(v.out \o <<w.text, w.partial>>) = AllIds(v.out) \cup Held(w)
          /\ InOrder(v.out \o <<w.text, w.partial>>) <=>
                /\ InOrder(v.out) /\ Increasing(IdsOf(w.text)) /\ Increasing(IdsOf(w.partial))
                /\ Below(AllIds(v.out), Held(w)) /\ Below(Ids(w.text), Ids(w.partial))
        BY <1>3, <1>4, PartsFacts
    <2>3. Held(w) = Held(v)
        BY <1>4 DEF Held
    <2>4. AllIds(Waiting(s)') = Held(writer[s]) \cup new /\ InOrder(Waiting(s)')
        BY <1>4, <2>1, <2>2, <2>3 DEF Sorted, Carried
    <2>5. Range(handled[s]) \subseteq Text(s, Taken(s))
        BY <1>1
    <2>6. Below(Range(handled[s]), Held(writer[s]) \cup new)
        BY <1>1, <2>5 DEF Below
    <2>7. Range(handled[s]) \cup (Held(writer[s]) \cup new) = Text(s, Taken(s)) \cup new
        BY <1>1
    <2> QED BY <1>1, <2>4, <2>6, <2>7 DEF Conserved
<1> QED BY <1>4, <1>6, <1>7, <1>8, <1>9

LEMMA Suffix ==
    ASSUME NEW S, NEW r \in Seq(S), NEW d \in Nat, NEW m \in Nat, d + m = Len(r)
    PROVE  LET z == SubSeq(r, d + 1, Len(r))
           IN  z \in Seq(S) /\ Len(z) = m /\ \A i \in 1..m : z[i] = r[d + i]
<1>1. Len(r) \in Nat /\ Len(r) - (d + 1) + 1 = m
    OBVIOUS
<1>2. SubSeq(r, d + 1, Len(r)) \in Seq(S) /\ Len(SubSeq(r, d + 1, Len(r))) = m
    BY <1>1
<1>3. ASSUME NEW i \in 1..m PROVE SubSeq(r, d + 1, Len(r))[i] = r[d + i]
    <2>1. (d + 1) + i - 1 = d + i /\ i \in 1..(Len(r) - (d + 1) + 1)
        BY <1>1
    <2>2. SubSeq(r, d + 1, Len(r))[i] = r[(d + 1) + i - 1]
        BY <2>1, <1>1
    <2> QED BY <2>1, <2>2
<1> QED BY <1>2, <1>3

(* What is left after n tokens were taken from the pipe.                   *)
LEMMA Reading ==
    ASSUME Pipeline, NEW s \in Streams, NEW n \in 1..Len(pipe[s]),
           written' = written, pipe' = [pipe EXCEPT ![s] = SubSeq(@, n + 1, Len(@))]
    PROVE  LET p == SubSeq(pipe[s], 1, n)
           IN  /\ p \in Seq(Token) /\ Len(p) = n
               /\ Increasing(IdsOf(p)) /\ \A id \in Ids(p) : id > Taken(s)
               /\ Text(s, Taken(s) + n) = Text(s, Taken(s)) \cup TextIn(p, n)
               /\ Taken(s)' = Taken(s) + n /\ Taken(s) \in Nat /\ Source(s)'
               /\ pipe' \in [Streams -> Seq(Token)]
               /\ \A x \in Streams \ {s} : pipe'[x] = pipe[x]
<1> DEFINE q == pipe[s] r == written[s] p == SubSeq(q, 1, n) d == Len(r) - Len(q)
           e == SubSeq(q, n + 1, Len(q))
<1>0. PipelineType /\ Source(s)
    BY DEF Pipeline, StreamInv
<1>1. q \in Seq(Token) /\ r \in Seq(Token) /\ Len(q) \in Nat /\ Len(r) \in Nat
    BY <1>0 DEF PipelineType
<1>2. d \in Nat /\ d = Taken(s) /\ Len(q) + d = Len(r) /\ n \in Nat /\ n >= 1 /\ n <= Len(q)
    BY <1>0, <1>1 DEF Source, Taken
<1>3. /\ q = SubSeq(r, d + 1, Len(r)) /\ \A i \in 1..Len(r) : r[i].id = i
    BY <1>0, <1>2 DEF Source
<1>4. p \in Seq(Token) /\ Len(p) = n /\ \A i \in 1..n : p[i] = q[i]
    BY <1>1, <1>2
<1>5. e \in Seq(Token) /\ Len(e) = Len(q) - n /\ \A i \in 1..(Len(q) - n) : e[i] = q[n + i]
    BY <1>1, <1>2
<1>6. pipe' = [pipe EXCEPT ![s] = e] /\ pipe'[s] = e
    BY <1>0 DEF PipelineType
<1> HIDE DEF q, r, p, d, e
<1>7. ASSUME NEW i \in 1..Len(q) PROVE q[i] = r[d + i] /\ d + i \in 1..Len(r)
    <2>1. d + Len(q) = Len(r)
        BY <1>1, <1>2
    <2>2. SubSeq(r, d + 1, Len(r))[i] = r[d + i]
        BY <1>1, <1>2, <2>1, Suffix
    <2>3. q[i] = SubSeq(r, d + 1, Len(r))[i]
        BY <1>3
    <2>4. d + i \in 1..Len(r)
        BY <1>1, <1>2
    <2> QED BY <2>2, <2>3, <2>4
<1>8. ASSUME NEW i \in 1..n PROVE p[i] = r[d + i] /\ p[i].id = d + i
    <2>1. i \in 1..Len(q)
        BY <1>1, <1>2
    <2>2. p[i] = r[d + i] /\ d + i \in 1..Len(r)
        BY <1>4, <1>7, <2>1
    <2> QED BY <1>3, <2>2
<1>9. Increasing(IdsOf(p)) /\ \A id \in Ids(p) : id > d
    <2>1. DOMAIN IdsOf(p) = 1..n /\ \A i \in 1..n : IdsOf(p)[i] = d + i
        BY <1>4, <1>8, IdsFacts
    <2>2. Increasing(IdsOf(p))
        BY <1>2, <2>1 DEF Increasing
    <2>3. \A id \in Ids(p) : id > d
        BY <1>2, <2>1 DEF Ids, Range
    <2> QED BY <2>2, <2>3
<1>10. Text(s, d + n) = Text(s, d) \cup TextIn(p, n)
    <2>1. ASSUME NEW x \in Text(s, d + n), x \notin Text(s, d) PROVE x \in TextIn(p, n)
        <3>1. x \in 1..(d + n) /\ r[x].kind # Newline /\ x \notin 1..d
            BY <2>1, <1>2 DEF Text, r
        <3>2. x - d \in 1..n /\ d + (x - d) = x
            BY <1>2, <3>1
        <3>3. p[x - d] = r[x] /\ p[x - d].id = x
            BY <1>8, <3>2
        <3> QED BY <3>1, <3>2, <3>3 DEF TextIn
    <2>2. ASSUME NEW x \in TextIn(p, n) PROVE x \in Text(s, d + n)
        <3>1. PICK i \in 1..n : x = p[i].id /\ p[i].kind # Newline
            BY DEF TextIn
        <3>2. x = d + i /\ r[x].kind # Newline /\ x \in 1..(d + n)
            BY <1>2, <1>8, <3>1
        <3> QED BY <3>2 DEF Text, r
    <2>3. ASSUME NEW x \in Text(s, d) PROVE x \in Text(s, d + n)
        BY <1>2 DEF Text
    <2> QED BY <2>1, <2>2, <2>3
<1>11. Taken(s)' = d + n
    <2>1. Taken(s)' = Len(r) - Len(e)
        BY <1>6 DEF Taken, r
    <2>2. Len(q) \in Nat /\ Len(r) \in Nat /\ d \in Nat /\ n \in Nat /\ Len(q) + d = Len(r)
        BY <1>1, <1>2
    <2>3. Len(r) - (Len(q) - n) = d + n
        BY <2>2
    <2> QED BY <1>5, <2>1, <2>3
<1>12. Source(s)'
    <2>1. Len(e) <= Len(r)
        BY <1>1, <1>2, <1>5
    <2>2. e = SubSeq(r, d + n + 1, Len(r))
        <3> DEFINE z == SubSeq(r, d + n + 1, Len(r))
        <3>1. /\ z \in Seq(Token) /\ Len(z) = Len(r) - (d + n)
              /\ \A i \in 1..(Len(r) - (d + n)) : z[i] = r[(d + n) + i]
            BY <1>1, <1>2
        <3> HIDE DEF z
        <3>2. Len(z) = Len(e)
            BY <1>1, <1>2, <1>5, <3>1
        <3>3. ASSUME NEW i \in 1..Len(e) PROVE e[i] = z[i]
            <4>1. n + i \in 1..Len(q) /\ i \in 1..(Len(q) - n) /\ d + (n + i) = (d + n) + i
                BY <1>1, <1>2, <1>5
            <4>2. e[i] = r[d + (n + i)]
                BY <1>5, <1>7, <4>1
            <4>3. i \in 1..(Len(r) - (d + n))
                BY <1>1, <1>2, <4>1
            <4> QED BY <3>1, <4>1, <4>2, <4>3
        <3>4. e = z
            BY <1>5, <3>1, <3>2, <3>3
        <3> QED BY <3>4 DEF z
    <2>3. written'[s] = r
        BY DEF r
    <2> QED BY <1>3, <1>6, <1>11, <2>1, <2>2, <2>3 DEF Source
<1>13. pipe' \in [Streams -> Seq(Token)] /\ \A x \in Streams \ {s} : pipe'[x] = pipe[x]
    BY <1>0, <1>5, <1>6 DEF PipelineType
<1> QED BY <1>2, <1>4, <1>9, <1>10, <1>11, <1>12, <1>13 DEF p, q

pipelineVars == <<config, process, helper, written, pipe, copier, monitor, writer, holder, todo,
                  sending, handled>>

LEMMA SameStreams ==
    ASSUME Pipeline, config' = config,
           UNCHANGED <<written, pipe, copier, monitor, writer, holder, todo, sending, handled>>,
           process = "exited" /\ ~helper => process' = "exited" /\ ~helper'
    PROVE  Drained' /\ \A s \in Streams : StreamInv(s)'
<1>1. Drained'
    BY DEF Pipeline, Drained
<1>2. ASSUME NEW s \in Streams PROVE StreamInv(s)'
    <2>1. StreamState(s)' = StreamState(s)
        BY DEF StreamState
    <2>2. StreamInv(s)
        BY DEF Pipeline
    <2> QED BY <2>1, <2>2, Untouched
<1> QED BY <1>1, <1>2

LEMMA ProcessKeeps ==
    ASSUME Pipeline, Fork \/ ProcessExits \/ HelperExit
    PROVE  Pipeline'
<1>1. /\ config' = config
      /\ UNCHANGED <<written, pipe, copier, monitor, writer, holder, todo, sending, handled>>
    BY DEF Fork, ProcessExits, HelperExit
<1>2. process = "exited" /\ ~helper => process' = "exited" /\ ~helper'
    BY DEF Fork, ProcessExits, HelperExit
<1>3. PipelineType'
    BY <1>1 DEF Pipeline, PipelineType, Fork, ProcessExits, HelperExit
<1> QED BY <1>1, <1>2, <1>3, SameStreams DEF Pipeline

LEMMA ClientKeeps ==
    ASSUME Pipeline, UNCHANGED pipelineVars
    PROVE  Pipeline'
<1>1. /\ config' = config /\ process' = process /\ helper' = helper
      /\ UNCHANGED <<written, pipe, copier, monitor, writer, holder, todo, sending, handled>>
    BY DEF pipelineVars
<1>2. PipelineType'
    BY <1>1 DEF Pipeline, PipelineType
<1> QED BY <1>1, <1>2, SameStreams DEF Pipeline

LEMMA WriteTokenKeeps ==
    ASSUME Pipeline, NEW s \in Streams, NEW k \in config.bound.kinds \cup {Newline}, WriteToken(s, k)
    PROVE  Pipeline'
<1> DEFINE t == [id |-> Len(written[s]) + 1, kind |-> k] r == written[s] q == pipe[s]
           d == Len(r) - Len(q)
<1>0. PipelineType /\ Drained /\ StreamInv(s)
    BY DEF Pipeline
<1>1. r \in Seq(Token) /\ q \in Seq(Token) /\ Len(r) \in Nat /\ Len(q) \in Nat
    BY <1>0 DEF PipelineType
<1>2. t \in Token /\ t.id = Len(r) + 1
    BY <1>0, <1>1 DEF PipelineType, Token
<1>3. /\ written' = [written EXCEPT ![s] = Append(r, t)] /\ pipe' = [pipe EXCEPT ![s] = Append(q, t)]
      /\ UNCHANGED <<config, process, helper, copier, monitor, writer, holder, todo, sending, handled>>
    BY DEF WriteToken
<1> HIDE DEF t
<1>4. /\ Append(r, t) \in Seq(Token) /\ Len(Append(r, t)) = Len(r) + 1
      /\ Append(q, t) \in Seq(Token) /\ Len(Append(q, t)) = Len(q) + 1
      /\ \A i \in 1..Len(r) : Append(r, t)[i] = r[i]
      /\ Append(r, t)[Len(r) + 1] = t
    BY <1>1, <1>2
<1>5. written'[s] = Append(r, t) /\ pipe'[s] = Append(q, t)
    BY <1>0, <1>3 DEF PipelineType
<1>6. PipelineType'
    <2>1. written' \in [Streams -> Seq(Token)] /\ pipe' \in [Streams -> Seq(Token)]
        BY <1>0, <1>3, <1>4 DEF PipelineType
    <2> QED BY <1>0, <1>3, <2>1 DEF PipelineType
<1>7. Drained'
    BY <1>0, <1>3 DEF Drained
<1>8. ASSUME NEW x \in Streams, x # s PROVE StreamInv(x)'
    <2>1. StreamState(x)' = StreamState(x)
        BY <1>0, <1>3, <1>8 DEF StreamState, PipelineType
    <2>2. StreamInv(x)
        BY DEF Pipeline
    <2> QED BY <1>3, <2>1, <2>2, Untouched
<1>9. d \in Nat /\ d = Taken(s) /\ Len(q) + d = Len(r)
    <2>1. Source(s)
        BY <1>0 DEF StreamInv
    <2> QED BY <1>1, <2>1 DEF Source, Taken
<1>10. Taken(s)' = d
    <2>1. Taken(s)' = (Len(r) + 1) - (Len(q) + 1)
        BY <1>4, <1>5 DEF Taken
    <2> HIDE DEF d, r, q
    <2>2. (Len(r) + 1) - (Len(q) + 1) = d
        BY <1>1, <1>9
    <2> QED BY <2>1, <2>2
<1> HIDE DEF d
<1>11. Text(s, Taken(s))' = Text(s, Taken(s))
    <2>1. \A i \in 1..d : Append(r, t)[i] = r[i]
        BY <1>1, <1>4, <1>9
    <2>2. Text(s, Taken(s))' = {id \in 1..d : Append(r, t)[id].kind # Newline}
        BY <1>5, <1>10 DEF Text
    <2>3. Text(s, Taken(s)) = {id \in 1..d : r[id].kind # Newline}
        BY <1>9 DEF Text
    <2> QED BY <2>1, <2>2, <2>3
<1>12. Queue(s)' /\ Conserved(s)'
    <2>1. Waiting(s)' = Waiting(s)
        BY <1>3 DEF Waiting, Unprocessed
    <2> QED BY <1>0, <1>3, <1>11, <2>1 DEF StreamInv, Queue, Conserved, Direct
<1>13. Source(s)'
    <2> DEFINE a == Append(r, t) b == Append(q, t) z == SubSeq(a, d + 1, Len(r) + 1)
    <2>0. Source(s)
        BY <1>0 DEF StreamInv
    <2>1. Len(b) <= Len(a)
        BY <1>1, <1>4, <1>9
    <2>2. \A i \in 1..Len(a) : a[i].id = i
        <3>1. \A i \in 1..Len(r) : r[i].id = i
            BY <2>0 DEF Source
        <3>2. \A i \in 1..Len(a) : i \in 1..Len(r) \/ i = Len(r) + 1
            BY <1>1, <1>4
        <3> QED BY <1>2, <1>4, <3>1, <3>2
    <2>3. b = z
        <3>1. q = SubSeq(r, d + 1, Len(r))
            BY <1>9, <2>0 DEF Source
        <3>2. \A i \in 1..Len(q) : q[i] = r[d + i]
            <4> HIDE DEF r, q
            <4> TAKE i \in 1..Len(q)
            <4>1. d + Len(q) = Len(r)
                BY <1>1, <1>9
            <4>2. SubSeq(r, d + 1, Len(r))[i] = r[d + i]
                BY <1>1, <1>9, <4>1, Suffix
            <4> QED BY <3>1, <4>2
        <3>3. a \in Seq(Token) /\ Len(a) = Len(r) + 1 /\ b \in Seq(Token) /\ Len(b) = Len(q) + 1
            BY <1>4
        <3>4. \A i \in 1..Len(q) : b[i] = q[i]
            BY <1>1, <1>2
        <3>5. b[Len(q) + 1] = t
            BY <1>1, <1>2
        <3> HIDE DEF a, b
        <3>6. z \in Seq(Token) /\ Len(z) = Len(q) + 1 /\ \A i \in 1..(Len(q) + 1) : z[i] = a[d + i]
            <4> HIDE DEF r, q
            <4> DEFINE m == Len(q) + 1
            <4>1. Len(a) = Len(r) + 1 /\ a \in Seq(Token)
                BY <3>3
            <4>2. d + m = Len(r) + 1 /\ m \in Nat
                BY <1>1, <1>9
            <4>3. z = SubSeq(a, d + 1, Len(a))
                BY <4>1
            <4> HIDE DEF m, z
            <4>4. d \in Nat /\ d + m = Len(a)
                BY <1>9, <4>1, <4>2
            <4>5. LET y == SubSeq(a, d + 1, Len(a))
                  IN  y \in Seq(Token) /\ Len(y) = m /\ \A i \in 1..m : y[i] = a[d + i]
                BY <4>1, <4>2, <4>4, Suffix
            <4>6. z \in Seq(Token) /\ Len(z) = m /\ \A i \in 1..m : z[i] = a[d + i]
                BY <4>3, <4>5
            <4> QED BY <4>6 DEF m
        <3> HIDE DEF z
        <3>7. ASSUME NEW i \in 1..(Len(q) + 1) PROVE b[i] = z[i]
            <4>1. CASE i \in 1..Len(q)
                <5>1. d + i \in 1..Len(r)
                    BY <1>1, <1>9, <4>1
                <5>2. a[d + i] = r[d + i]
                    BY <1>4, <5>1 DEF a
                <5> QED BY <3>2, <3>4, <3>6, <4>1, <5>2
            <4>2. CASE i = Len(q) + 1
                <5>1. d + i = Len(r) + 1
                    <6> HIDE DEF r, q
                    <6>1. d + (Len(q) + 1) = Len(r) + 1
                        BY <1>1, <1>9
                    <6> QED BY <4>2, <6>1
                <5>2. a[d + i] = t
                    BY <1>4, <5>1 DEF a
                <5> QED BY <3>5, <3>6, <4>2, <5>2
            <4> QED BY <1>1, <4>1, <4>2
        <3> QED BY <3>3, <3>6, <3>7
    <2> QED BY <1>4, <1>5, <1>10, <2>1, <2>2, <2>3 DEF Source
<1>14. AfterFlush(s)'
    BY <1>0, <1>3, <1>9, <1>10 DEF StreamInv, AfterFlush
<1>15. Ended(s)'
    BY <1>0, <1>3 DEF StreamInv, Ended, WriteToken
<1>16. StreamInv(s)'
    BY <1>12, <1>13, <1>14, <1>15 DEF StreamInv
<1> QED BY <1>6, <1>7, <1>8, <1>16 DEF Pipeline

LEMMA CopyKeeps ==
    ASSUME Pipeline, NEW s \in Streams, NEW n \in 1..Len(pipe[s]), Copy(s, n)
    PROVE  Pipeline'
<1> DEFINE p == SubSeq(pipe[s], 1, n) v == Write(writer[s], p) new == TextIn(p, n)
<1>0. PipelineType /\ Drained /\ StreamInv(s) /\ holder[s] = Nobody
    BY DEF Pipeline, Copy, Take
<1>1. /\ copier[s] = "copying" /\ Take(s, "copier", v)
      /\ pipe' = [pipe EXCEPT ![s] = SubSeq(@, n + 1, Len(@))]
      /\ UNCHANGED <<config, process, helper, written, copier, monitor, sending, handled>>
    BY DEF Copy, source, emission
<1>2. /\ p \in Seq(Token) /\ Len(p) = n
      /\ Increasing(IdsOf(p)) /\ \A id \in Ids(p) : id > Taken(s)
      /\ Text(s, Taken(s) + n) = Text(s, Taken(s)) \cup new
      /\ Taken(s)' = Taken(s) + n /\ Taken(s) \in Nat /\ Source(s)'
      /\ pipe' \in [Streams -> Seq(Token)] /\ \A x \in Streams \ {s} : pipe'[x] = pipe[x]
    BY <1>1, Reading
<1> HIDE DEF p
<1>3. /\ writer[s] \in WriterType /\ Sorted(writer[s]) /\ Carried(writer[s]) = Held(writer[s])
      /\ Range(handled[s]) \cup Held(writer[s]) = Text(s, Taken(s))
    BY <1>0, Free
<1>4. \A x \in Text(s, Taken(s)) : x \in Nat /\ x <= Taken(s)
    BY <1>2 DEF Text
<1>5. Below(Carried(writer[s]), Ids(p))
    <2>1. \A id \in Ids(p) : id \in Nat
        BY <1>2, IdsFacts
    <2>2. \A x \in Held(writer[s]) : x \in Nat /\ x <= Taken(s)
        BY <1>3, <1>4
    <2> QED BY <1>2, <1>3, <2>1, <2>2 DEF Below
<1>6. /\ v \in WriterType /\ Sorted(v) /\ Carried(v) = Carried(writer[s]) \cup TextIn(p, Len(p))
      /\ Held(v) \subseteq Held(writer[s]) \cup Ids(p)
    BY <1>2, <1>3, <1>5, WriteMoves
<1> HIDE DEF v
<1>7. Carried(v) = Held(writer[s]) \cup new
    BY <1>2, <1>3, <1>6
<1>8. Below(Text(s, Taken(s)), new)
    <2>1. new \subseteq Ids(p)
        <3>1. Ids(p) = {p[i].id : i \in 1..n}
            BY <1>2, IdsFacts
        <3> QED BY <3>1 DEF TextIn
    <2>2. \A id \in Ids(p) : id \in Nat
        BY <1>2, IdsFacts
    <2> QED BY <1>2, <1>4, <2>1, <2>2 DEF Below
<1>9. Text(s, Taken(s))' = Text(s, Taken(s)) \cup new
    <2>1. Text(s, Taken(s))' = Text(s, Taken(s) + n)
        BY <1>1, <1>2 DEF Text
    <2> QED BY <1>2, <2>1
<1> HIDE DEF new
<1>10. /\ Queue(s)' /\ Conserved(s)'
       /\ writer' \in [Streams -> WriterType] /\ todo' \in [Streams -> Seq(Seq(Token))]
       /\ holder' \in [Streams -> {Nobody, "copier", "timer", "monitor"}]
       /\ writer'[s].text = v.text /\ writer'[s].partial = v.partial
       /\ \A x \in Streams \ {s} :
             writer'[x] = writer[x] /\ todo'[x] = todo[x] /\ holder'[x] = holder[x]
    BY <1>1, <1>6, <1>7, <1>8, <1>9, TakeKeeps
<1>11. PipelineType'
    BY <1>0, <1>1, <1>2, <1>10 DEF PipelineType
<1>12. Drained'
    BY <1>0, <1>1 DEF Drained
<1>13. AfterFlush(s)'
    <2>1. monitor.flushed[s] \in Int /\ monitor.flushed[s] <= Taken(s)
          /\ \A id \in Held(writer[s]) : id > monitor.flushed[s]
        BY <1>0 DEF StreamInv, AfterFlush, PipelineType
    <2>2. Held(writer'[s]) = Held(v)
        BY <1>10 DEF Held
    <2>3. \A id \in Ids(p) : id \in Nat
        BY <1>2, IdsFacts
    <2>4. \A id \in Held(v) : id > monitor.flushed[s]
        BY <1>2, <1>6, <2>1, <2>3
    <2>5. monitor.flushed[s] <= Taken(s) + n
        BY <1>2, <2>1
    <2> QED BY <1>1, <1>2, <2>2, <2>4, <2>5 DEF AfterFlush
<1>14. Ended(s)'
    BY <1>1 DEF Ended
<1>15. ASSUME NEW x \in Streams, x # s PROVE StreamInv(x)'
    <2>1. StreamState(x)' = StreamState(x)
        BY <1>1, <1>2, <1>10, <1>15 DEF StreamState
    <2>2. StreamInv(x)
        BY DEF Pipeline
    <2> QED BY <1>1, <2>1, <2>2, Untouched
<1> QED BY <1>2, <1>10, <1>11, <1>12, <1>13, <1>14, <1>15 DEF Pipeline, StreamInv

(* A flush or a timeout: nothing is read, what is held moves on.           *)
LEMMA MovesKeep ==
    ASSUME Pipeline, NEW s \in Streams, NEW who \in {"copier", "timer", "monitor"}, NEW v,
           Take(s, who, v), holder[s] = Nobody => Moved(writer[s], v),
           UNCHANGED <<config, process, helper, written, pipe, sending, handled>>
    PROVE  /\ Queue(s)' /\ Conserved(s)' /\ Source(s)' /\ Taken(s)' = Taken(s)
           /\ writer' \in [Streams -> WriterType] /\ todo' \in [Streams -> Seq(Seq(Token))]
           /\ holder' \in [Streams -> {Nobody, "copier", "timer", "monitor"}]
           /\ writer'[s].lines = v.lines /\ writer'[s].text = v.text /\ writer'[s].partial = v.partial
           /\ holder'[s] = IF v.out = <<>> THEN Nobody ELSE who
           /\ Held(writer'[s]) \subseteq Held(writer[s])
           /\ \A x \in Streams \ {s} :
                 writer'[x] = writer[x] /\ todo'[x] = todo[x] /\ holder'[x] = holder[x]
<1>0. PipelineType /\ StreamInv(s) /\ holder[s] = Nobody
    BY DEF Pipeline, Take
<1>1. writer[s] \in WriterType /\ Sorted(writer[s]) /\ Carried(writer[s]) = Held(writer[s])
    BY <1>0, Free
<1>2. /\ v \in WriterType /\ Sorted(v) /\ Carried(v) = Held(writer[s]) \cup {}
      /\ Held(v) \subseteq Held(writer[s])
    BY <1>0, <1>1 DEF Moved
<1>3. Below(Text(s, Taken(s)), {})
    BY DEF Below
<1>4. Taken(s)' = Taken(s) /\ Text(s, Taken(s))' = Text(s, Taken(s)) \cup {}
    BY DEF Taken, Text
<1>5. /\ Queue(s)' /\ Conserved(s)'
      /\ writer' \in [Streams -> WriterType] /\ todo' \in [Streams -> Seq(Seq(Token))]
      /\ holder' \in [Streams -> {Nobody, "copier", "timer", "monitor"}]
      /\ writer'[s].lines = v.lines /\ writer'[s].text = v.text /\ writer'[s].partial = v.partial
      /\ holder'[s] = IF v.out = <<>> THEN Nobody ELSE who
      /\ \A x \in Streams \ {s} :
            writer'[x] = writer[x] /\ todo'[x] = todo[x] /\ holder'[x] = holder[x]
    BY <1>2, <1>3, <1>4, TakeKeeps
<1>6. Source(s)'
    BY <1>0, <1>4 DEF StreamInv, Source
<1>7. Held(writer'[s]) \subseteq Held(writer[s])
    BY <1>2, <1>5 DEF Held
<1> QED BY <1>4, <1>5, <1>6, <1>7

LEMMA CopyEndsKeeps ==
    ASSUME Pipeline, NEW s \in Streams, CopyEnds(s)
    PROVE  Pipeline'
<1> DEFINE v == Flush(writer[s])
<1>0. PipelineType /\ Drained /\ StreamInv(s)
    BY DEF Pipeline
<1>1. /\ copier[s] = "copying" /\ pipe[s] = <<>> /\ process = "exited" /\ ~helper
      /\ Take(s, "copier", v) /\ copier' = [copier EXCEPT ![s] = "flushing"]
      /\ UNCHANGED <<config, process, helper, written, pipe, monitor, sending, handled>>
    BY DEF CopyEnds, source, emission
<1>2. /\ holder[s] = Nobody => Moved(writer[s], v)
      /\ holder[s] = Nobody => v.lines = 0 /\ v.text = <<>> /\ v.partial = <<>>
    BY Free, FlushMoves
<1>3. holder[s] = Nobody
    BY <1>1 DEF Take
<1> HIDE DEF v
<1>4. /\ Queue(s)' /\ Conserved(s)' /\ Source(s)' /\ Taken(s)' = Taken(s)
      /\ writer' \in [Streams -> WriterType] /\ todo' \in [Streams -> Seq(Seq(Token))]
      /\ holder' \in [Streams -> {Nobody, "copier", "timer", "monitor"}]
      /\ writer'[s].lines = 0 /\ writer'[s].text = <<>> /\ writer'[s].partial = <<>>
      /\ holder'[s] = IF v.out = <<>> THEN Nobody ELSE "copier"
      /\ Held(writer'[s]) \subseteq Held(writer[s])
      /\ \A x \in Streams \ {s} :
            writer'[x] = writer[x] /\ todo'[x] = todo[x] /\ holder'[x] = holder[x]
    BY <1>1, <1>2, <1>3, MovesKeep
<1>5. copier' \in [Streams -> {"copying", "flushing", "done"}] /\ copier'[s] = "flushing"
      /\ \A x \in Streams \ {s} : copier'[x] = copier[x]
    BY <1>0, <1>1 DEF PipelineType
<1>6. PipelineType'
    BY <1>0, <1>1, <1>4, <1>5 DEF PipelineType
<1>7. Drained'
    BY <1>0, <1>1 DEF Drained
<1>8. AfterFlush(s)'
    BY <1>0, <1>1, <1>4 DEF StreamInv, AfterFlush
<1>9. Ended(s)'
    BY <1>1, <1>4, <1>5 DEF Ended
<1>10. ASSUME NEW x \in Streams, x # s PROVE StreamInv(x)'
    <2>1. StreamState(x)' = StreamState(x)
        BY <1>1, <1>4, <1>5, <1>10 DEF StreamState
    <2>2. StreamInv(x)
        BY DEF Pipeline
    <2> QED BY <1>1, <2>1, <2>2, Untouched
<1> QED BY <1>4, <1>6, <1>7, <1>8, <1>9, <1>10 DEF Pipeline, StreamInv

LEMMA TimeoutKeeps ==
    ASSUME Pipeline, NEW s \in Streams, Timeout(s)
    PROVE  Pipeline'
<1> DEFINE v == flushOnTimeout(writer[s])
<1>0. PipelineType /\ Drained /\ StreamInv(s)
    BY DEF Pipeline
<1>1. /\ Take(s, "timer", v)
      /\ UNCHANGED <<config, process, helper, written, pipe, copier, monitor, sending, handled>>
    BY DEF Timeout, source, emission
<1>2. /\ holder[s] = Nobody => Moved(writer[s], v)
      /\ holder[s] = Nobody /\ writer[s].lines = 0 => v = writer[s]
    BY Free, TimeoutMoves
<1>3. holder[s] = Nobody
    BY <1>1 DEF Take
<1> HIDE DEF v
<1>4. /\ Queue(s)' /\ Conserved(s)' /\ Source(s)' /\ Taken(s)' = Taken(s)
      /\ writer' \in [Streams -> WriterType] /\ todo' \in [Streams -> Seq(Seq(Token))]
      /\ holder' \in [Streams -> {Nobody, "copier", "timer", "monitor"}]
      /\ writer'[s].lines = v.lines /\ writer'[s].text = v.text /\ writer'[s].partial = v.partial
      /\ holder'[s] = IF v.out = <<>> THEN Nobody ELSE "timer"
      /\ Held(writer'[s]) \subseteq Held(writer[s])
      /\ \A x \in Streams \ {s} :
            writer'[x] = writer[x] /\ todo'[x] = todo[x] /\ holder'[x] = holder[x]
    BY <1>1, <1>2, MovesKeep
<1>5. PipelineType'
    BY <1>0, <1>1, <1>4 DEF PipelineType
<1>6. Drained'
    BY <1>0, <1>1 DEF Drained
<1>7. AfterFlush(s)'
    BY <1>0, <1>1, <1>4 DEF StreamInv, AfterFlush
<1>8. Ended(s)'
    <2>1. writer[s].out = <<>>
        BY <1>0 DEF StreamInv, Queue
    <2> QED BY <1>0, <1>1, <1>2, <1>3, <1>4, <2>1 DEF StreamInv, Ended
<1>9. ASSUME NEW x \in Streams, x # s PROVE StreamInv(x)'
    <2>1. StreamState(x)' = StreamState(x)
        BY <1>1, <1>4, <1>9 DEF StreamState
    <2>2. StreamInv(x)
        BY DEF Pipeline
    <2> QED BY <1>1, <2>1, <2>2, Untouched
<1> QED BY <1>4, <1>5, <1>6, <1>7, <1>8, <1>9 DEF Pipeline, StreamInv

LEMMA FlushAtExitKeeps ==
    ASSUME Pipeline, FlushAtExit
    PROVE  Pipeline'
<1>0. PipelineType /\ Drained /\ monitor.at \in DOMAIN StreamOrder
    BY DEF Pipeline, FlushAtExit
<1>x. monitor.at > 0
    <2>1. StreamOrder \in Seq(STRING)
        BY OutputAssumption
    <2>2. DOMAIN StreamOrder = 1..Len(StreamOrder) /\ Len(StreamOrder) \in Nat
        BY <2>1
    <2> QED BY <1>0, <2>2
<1>1. PICK s \in Streams : s = StreamOrder[monitor.at]
    BY <1>0 DEF Streams, Range
<1> DEFINE v == Flush(writer[s])
<1>2. /\ Take(s, "monitor", v)
      /\ monitor' = [monitor EXCEPT !.at = @ + 1, !.flushed[s] = Len(written[s]) - Len(pipe[s])]
      /\ UNCHANGED <<config, process, helper, written, pipe, copier, sending, handled>>
    BY <1>1 DEF FlushAtExit, source, emission
<1>3. /\ holder[s] = Nobody => Moved(writer[s], v)
      /\ holder[s] = Nobody => v.lines = 0 /\ v.text = <<>> /\ v.partial = <<>>
      /\ /\ holder[s] = Nobody /\ writer[s].lines = 0 /\ writer[s].text = <<>>
         /\ writer[s].partial = <<>>
         => v.out = writer[s].out
    BY Free, FlushMoves
<1>4. holder[s] = Nobody /\ StreamInv(s)
    BY <1>2 DEF Take, Pipeline
<1> HIDE DEF v
<1>5. /\ Queue(s)' /\ Conserved(s)' /\ Source(s)' /\ Taken(s)' = Taken(s)
      /\ writer' \in [Streams -> WriterType] /\ todo' \in [Streams -> Seq(Seq(Token))]
      /\ holder' \in [Streams -> {Nobody, "copier", "timer", "monitor"}]
      /\ writer'[s].lines = 0 /\ writer'[s].text = <<>> /\ writer'[s].partial = <<>>
      /\ holder'[s] = IF v.out = <<>> THEN Nobody ELSE "monitor"
      /\ \A x \in Streams \ {s} :
            writer'[x] = writer[x] /\ todo'[x] = todo[x] /\ holder'[x] = holder[x]
    BY <1>2, <1>3, <1>4, MovesKeep
<1>6. /\ monitor' \in [at : Nat, timedOut : BOOLEAN, flushed : [Streams -> Int]]
      /\ monitor'.at = monitor.at + 1 /\ monitor'.timedOut = monitor.timedOut
      /\ monitor'.flushed[s] = Taken(s)
      /\ \A x \in Streams \ {s} : monitor'.flushed[x] = monitor.flushed[x]
    <2>1. Taken(s) \in Int
        <3>1. written[s] \in Seq(Token) /\ pipe[s] \in Seq(Token)
            BY <1>0 DEF PipelineType
        <3> QED BY <3>1 DEF Taken
    <2>2. monitor' = [monitor EXCEPT !.at = @ + 1, !.flushed[s] = Taken(s)]
        BY <1>2 DEF Taken
    <2>3. monitor \in [at : Nat, timedOut : BOOLEAN, flushed : [Streams -> Int]]
        BY <1>0 DEF PipelineType
    <2>4. [monitor.flushed EXCEPT ![s] = Taken(s)] \in [Streams -> Int]
        BY <2>1, <2>3
    <2>5. /\ monitor'.at = monitor.at + 1 /\ monitor'.timedOut = monitor.timedOut
          /\ monitor'.flushed = [monitor.flushed EXCEPT ![s] = Taken(s)]
        BY <2>2, <2>3
    <2>6. monitor' \in [at : Nat, timedOut : BOOLEAN, flushed : [Streams -> Int]]
        <3> DEFINE f == [monitor.flushed EXCEPT ![s] = Taken(s)]
        <3>1. monitor' = [monitor EXCEPT !.at = monitor.at + 1, !.flushed = f]
            BY <2>2
        <3>2. f \in [Streams -> Int]
            BY <2>4
        <3>3. PICK n \in Nat : n = monitor.at + 1
            BY <2>3
        <3>4. monitor' = [monitor EXCEPT !.at = n, !.flushed = f]
            BY <3>1, <3>3
        <3> HIDE DEF f
        <3> QED BY <2>3, <3>2, <3>4
    <2>7. /\ [monitor.flushed EXCEPT ![s] = Taken(s)][s] = Taken(s)
          /\ \A x \in Streams \ {s} : [monitor.flushed EXCEPT ![s] = Taken(s)][x] = monitor.flushed[x]
        BY <2>3
    <2> QED BY <2>5, <2>6, <2>7
<1>7. PipelineType'
    BY <1>0, <1>2, <1>5, <1>6 DEF PipelineType
<1>8. Drained'
    BY <1>0, <1>x, <1>2, <1>6 DEF Drained
<1>9. AfterFlush(s)'
    <2>1. Held(writer'[s]) = {}
        BY <1>5, EmptyIds DEF Held
    <2>2. Taken(s) \in Nat
        BY <1>0, <1>4 DEF StreamInv, Source, Taken, PipelineType
    <2> QED BY <1>5, <1>6, <2>1, <2>2 DEF AfterFlush
<1>10. Ended(s)'
    <2>1. writer[s].out = <<>>
        BY <1>4 DEF StreamInv, Queue
    <2> QED BY <1>2, <1>3, <1>4, <1>5, <2>1 DEF StreamInv, Ended
<1>11. ASSUME NEW x \in Streams, x # s PROVE StreamInv(x)'
    <2>1. StreamState(x)' = StreamState(x)
        BY <1>2, <1>5, <1>6, <1>11 DEF StreamState
    <2>2. StreamInv(x)
        BY DEF Pipeline
    <2> QED BY <1>2, <2>1, <2>2, Untouched
<1> QED BY <1>5, <1>7, <1>8, <1>9, <1>10, <1>11 DEF Pipeline, StreamInv

LEMMA CopierDoneKeeps ==
    ASSUME Pipeline, NEW s \in Streams, CopierDone(s)
    PROVE  Pipeline'
<1>0. PipelineType /\ Drained /\ StreamInv(s)
    BY DEF Pipeline
<1>1. /\ copier[s] = "flushing" /\ holder[s] # "copier" /\ copier' = [copier EXCEPT ![s] = "done"]
      /\ UNCHANGED <<config, process, helper, written, pipe, monitor, writer, holder, todo, sending,
                     handled>>
    BY DEF CopierDone, source, emission
<1>2. /\ copier' \in [Streams -> {"copying", "flushing", "done"}] /\ copier'[s] = "done"
      /\ \A x \in Streams \ {s} : copier'[x] = copier[x]
    BY <1>0, <1>1 DEF PipelineType
<1>3. PipelineType'
    BY <1>0, <1>1, <1>2 DEF PipelineType
<1>4. Drained'
    BY <1>0, <1>1, <1>2 DEF Drained
<1>5. StreamInv(s)'
    <2>1. Waiting(s)' = Waiting(s) /\ Taken(s)' = Taken(s) /\ Text(s, Taken(s))' = Text(s, Taken(s))
        BY <1>1 DEF Waiting, Unprocessed, Taken, Text
    <2>2. Queue(s)' /\ Conserved(s)' /\ Source(s)' /\ AfterFlush(s)'
        BY <1>0, <1>1, <2>1 DEF StreamInv, Queue, Conserved, Source, AfterFlush, Direct
    <2>3. Ended(s)'
        BY <1>0, <1>1, <1>2 DEF StreamInv, Ended
    <2> QED BY <2>2, <2>3 DEF StreamInv
<1>6. ASSUME NEW x \in Streams, x # s PROVE StreamInv(x)'
    <2>1. StreamState(x)' = StreamState(x)
        BY <1>1, <1>2, <1>6 DEF StreamState
    <2>2. StreamInv(x)
        BY DEF Pipeline
    <2> QED BY <1>1, <2>1, <2>2, Untouched
<1> QED BY <1>3, <1>4, <1>5, <1>6 DEF Pipeline

(* Time passes for the buffered entry or its timer.                        *)
LEMMA TimerKeeps ==
    ASSUME Pipeline, NEW s \in Streams, Age(s) \/ Fire(s)
    PROVE  Pipeline'
<1>0. PipelineType /\ Drained /\ StreamInv(s) /\ writer[s] \in WriterType
    BY DEF Pipeline, PipelineType
<1>1. UNCHANGED <<config, process, helper, written, pipe, copier, monitor, holder, todo, sending,
                  handled>>
    BY DEF Age, Fire, source, emission
<1>2. PICK w \in WriterType : /\ writer' = [writer EXCEPT ![s] = w]
                              /\ w.lines = writer[s].lines /\ w.text = writer[s].text
                              /\ w.partial = writer[s].partial /\ w.out = writer[s].out
    <2>1. CASE Age(s)
        <3> DEFINE w == [writer[s] EXCEPT !.aged = TRUE]
        <3>1. w \in WriterType /\ writer' = [writer EXCEPT ![s] = w]
            BY <1>0, <2>1 DEF Age, WriterType
        <3>2. /\ w.lines = writer[s].lines /\ w.text = writer[s].text
              /\ w.partial = writer[s].partial /\ w.out = writer[s].out
            BY <1>0 DEF WriterType
        <3> QED BY <3>1, <3>2
    <2>2. CASE Fire(s) /\ writer' = [writer EXCEPT ![s].timer = "spent",
                                                    ![s].aged = @ \/ writer[s].lines # 0]
        <3> DEFINE w == [writer[s] EXCEPT !.timer = "spent", !.aged = @ \/ writer[s].lines # 0]
        <3>1. writer' = [writer EXCEPT ![s] = w]
            BY <1>0, <2>2 DEF PipelineType
        <3>2. w \in WriterType
            BY <1>0 DEF WriterType
        <3>3. /\ w.lines = writer[s].lines /\ w.text = writer[s].text
              /\ w.partial = writer[s].partial /\ w.out = writer[s].out
            BY <1>0 DEF WriterType
        <3> QED BY <3>1, <3>2, <3>3
    <2>3. CASE writer[s].loose > 0 /\ writer' = [writer EXCEPT ![s].loose = @ - 1]
        <3> DEFINE w == [writer[s] EXCEPT !.loose = writer[s].loose - 1]
        <3>1. writer' = [writer EXCEPT ![s] = w]
            BY <1>0, <2>3 DEF PipelineType
        <3>2. writer[s].loose - 1 \in Nat
            BY <1>0, <2>3 DEF WriterType
        <3>3. w \in WriterType
            BY <1>0, <3>2 DEF WriterType
        <3>4. /\ w.lines = writer[s].lines /\ w.text = writer[s].text
              /\ w.partial = writer[s].partial /\ w.out = writer[s].out
            BY <1>0 DEF WriterType
        <3> QED BY <3>1, <3>3, <3>4
    <2> QED BY <2>1, <2>2, <2>3 DEF Fire
<1>3. /\ writer' \in [Streams -> WriterType] /\ writer'[s] = w
      /\ \A x \in Streams \ {s} : writer'[x] = writer[x]
    BY <1>0, <1>2 DEF PipelineType
<1>4. PipelineType' /\ Drained'
    BY <1>0, <1>1, <1>3 DEF PipelineType, Drained
<1>5. StreamInv(s)'
    <2>1. Waiting(s)' = Waiting(s) /\ Taken(s)' = Taken(s) /\ Text(s, Taken(s))' = Text(s, Taken(s))
        BY <1>1, <1>2, <1>3 DEF Waiting, Unprocessed, Taken, Text
    <2>2. Held(writer'[s]) = Held(writer[s])
        BY <1>2, <1>3 DEF Held
    <2>3. Queue(s)' /\ Conserved(s)' /\ Source(s)' /\ AfterFlush(s)'
        BY <1>0, <1>1, <1>2, <1>3, <2>1, <2>2
        DEF StreamInv, Queue, Conserved, Source, AfterFlush, Direct
    <2>4. Ended(s)'
        BY <1>0, <1>1, <1>2, <1>3 DEF StreamInv, Ended
    <2> QED BY <2>3, <2>4 DEF StreamInv
<1>6. ASSUME NEW x \in Streams, x # s PROVE StreamInv(x)'
    <2>1. StreamState(x)' = StreamState(x)
        BY <1>1, <1>3, <1>6 DEF StreamState
    <2>2. StreamInv(x)
        BY DEF Pipeline
    <2> QED BY <1>1, <2>1, <2>2, Untouched
<1> QED BY <1>4, <1>5, <1>6 DEF Pipeline

LEMMA MonitorKeeps ==
    ASSUME Pipeline, drainOutput \/ ActOnExit
    PROVE  Pipeline'
<1>0. PipelineType /\ Drained
    BY DEF Pipeline
<1>1. UNCHANGED <<config, process, helper, written, pipe, copier, writer, holder, todo, sending,
                  handled>>
    BY DEF drainOutput, ActOnExit, source, emission
<1>2. /\ monitor' \in [at : Nat, timedOut : BOOLEAN, flushed : [Streams -> Int]]
      /\ monitor'.flushed = monitor.flushed /\ Drained'
    <2>1. monitor \in [at : Nat, timedOut : BOOLEAN, flushed : [Streams -> Int]]
        BY <1>0 DEF PipelineType
    <2>2. CASE drainOutput
        <3>1. PICK late \in BOOLEAN :
                  /\ late \/ config.snapshot \/ \A s \in Streams : copier[s] = "done"
                  /\ monitor' = [monitor EXCEPT !.at = 1, !.timedOut = late]
            BY <2>2 DEF drainOutput
        <3>2. monitor' \in [at : Nat, timedOut : BOOLEAN, flushed : [Streams -> Int]]
            BY <2>1, <3>1
        <3>3. monitor'.at = 1 /\ monitor'.timedOut = late /\ monitor'.flushed = monitor.flushed
            BY <2>1, <3>1
        <3>4. Drained'
            BY <1>1, <2>2, <3>1, <3>3 DEF drainOutput, Drained
        <3> QED BY <3>2, <3>3, <3>4
    <2>3. CASE ActOnExit
        <3>1. Len(StreamOrder) \in Nat
            <4>1. StreamOrder \in Seq(STRING)
                BY OutputAssumption
            <4> QED BY <4>1
        <3> QED BY <1>0, <1>1, <2>1, <2>3, <3>1 DEF ActOnExit, Acted, Drained
    <2> QED BY <2>2, <2>3
<1>3. PipelineType'
    BY <1>0, <1>1, <1>2 DEF PipelineType
<1>4. ASSUME NEW x \in Streams PROVE StreamInv(x)'
    <2>1. StreamState(x)' = StreamState(x)
        BY <1>1, <1>2 DEF StreamState
    <2>2. StreamInv(x)
        BY DEF Pipeline
    <2> QED BY <1>1, <2>1, <2>2, Untouched
<1> QED BY <1>2, <1>3, <1>4 DEF Pipeline

(* Redaction changes what a token says, not which token it is.             *)
LEMMA RedactIds ==
    ASSUME NEW text \in Seq(Token)
    PROVE  IdsOf(Redact(text)) = IdsOf(text) /\ DOMAIN Redact(text) = 1..Len(text)
<1>1. DOMAIN text = 1..Len(text) /\ DOMAIN Redact(text) = DOMAIN text
    BY DEF Redact
<1>2. ASSUME NEW i \in DOMAIN text PROVE Redact(text)[i].id = text[i].id
    <2> DEFINE k == FoldLeft(Mask, text[i].kind, config.redactor)
    <2>1. Redact(text)[i] = [text[i] EXCEPT !.kind = k]
        BY DEF Redact
    <2>2. text[i] \in Token
        BY <1>1
    <2> HIDE DEF k
    <2> QED BY <2>1, <2>2 DEF Token
<1> QED BY <1>1, <1>2 DEF IdsOf

(* The head of the queue is processed.                                     *)
LEMMA Processed ==
    ASSUME Pipeline, NEW s \in Streams, todo[s] # <<>>, sending[s] = None,
           handled' = [handled EXCEPT ![s] = @ \o IdsOf(Head(todo[s]))],
           Unprocessed(s)' = Tail(todo[s]), UNCHANGED <<config, written, pipe, writer>>
    PROVE  /\ Conserved(s)' /\ handled' \in [Streams -> Seq(Nat)]
           /\ \A x \in Streams \ {s} : handled'[x] = handled[x]
<1>0. PipelineType /\ Conserved(s)
    BY DEF Pipeline, StreamInv
<1>1. /\ todo[s] \in Seq(Seq(Token)) /\ writer[s] \in WriterType
      /\ handled \in [Streams -> Seq(Nat)] /\ handled[s] \in Seq(Nat)
    BY <1>0 DEF PipelineType
<1> DEFINE h  == Head(todo[s])
           tl == Tail(todo[s])
           w  == writer[s]
<1>2. /\ h \in Seq(Token) /\ tl \in Seq(Seq(Token))
      /\ AllIds(todo[s]) = Ids(h) \cup AllIds(tl)
      /\ InOrder(todo[s]) <=> Increasing(IdsOf(h)) /\ InOrder(tl) /\ Below(Ids(h), AllIds(tl))
    BY <1>1, HeadTail
<1>3. Waiting(s) = todo[s] \o <<w.text, w.partial>> /\ Waiting(s)' = tl \o <<w.text, w.partial>>
    BY DEF Waiting, Unprocessed
<1>4. /\ AllIds(Waiting(s)) = AllIds(todo[s]) \cup Held(w)
      /\ InOrder(Waiting(s)) <=>
            /\ InOrder(todo[s]) /\ Increasing(IdsOf(w.text)) /\ Increasing(IdsOf(w.partial))
            /\ Below(AllIds(todo[s]), Held(w)) /\ Below(Ids(w.text), Ids(w.partial))
    <2>1. PICK u \in Seq(Seq(Token)) : u = todo[s]
        BY <1>1
    <2>2. PICK v \in WriterType : v = writer[s]
        BY <1>1
    <2>3. PICK all : all = u \o <<v.text, v.partial>>
        OBVIOUS
    <2>4. /\ AllIds(all) = AllIds(u) \cup Held(v)
          /\ InOrder(all) <=>
                /\ InOrder(u) /\ Increasing(IdsOf(v.text)) /\ Increasing(IdsOf(v.partial))
                /\ Below(AllIds(u), Held(v)) /\ Below(Ids(v.text), Ids(v.partial))
        BY <2>3, PartsFacts
    <2> QED BY <1>3, <2>1, <2>2, <2>3, <2>4
<1>5. /\ AllIds(Waiting(s)') = AllIds(tl) \cup Held(w)
      /\ InOrder(Waiting(s)') <=>
            /\ InOrder(tl) /\ Increasing(IdsOf(w.text)) /\ Increasing(IdsOf(w.partial))
            /\ Below(AllIds(tl), Held(w)) /\ Below(Ids(w.text), Ids(w.partial))
    <2>1. PICK u \in Seq(Seq(Token)) : u = tl
        BY <1>2
    <2>2. PICK v \in WriterType : v = writer[s]
        BY <1>1
    <2>3. PICK all : all = u \o <<v.text, v.partial>>
        OBVIOUS
    <2>4. /\ AllIds(all) = AllIds(u) \cup Held(v)
          /\ InOrder(all) <=>
                /\ InOrder(u) /\ Increasing(IdsOf(v.text)) /\ Increasing(IdsOf(v.partial))
                /\ Below(AllIds(u), Held(v)) /\ Below(Ids(v.text), Ids(v.partial))
        BY <2>3, PartsFacts
    <2> QED BY <1>3, <2>1, <2>2, <2>3, <2>4
<1>6. IdsOf(h) \in Seq(Nat) /\ Ids(h) = Range(IdsOf(h))
    <2>1. IdsOf(h) \in Seq(Nat \ {0})
        BY <1>2, IdsFacts
    <2> QED BY <2>1 DEF Ids
<1> HIDE DEF h, tl
<1> DEFINE c == handled[s] \o IdsOf(h)
<1>7. c \in Seq(Nat) /\ Joined(c, handled[s], IdsOf(h), Len(handled[s]), Len(IdsOf(h)))
    BY <1>1, <1>6, CatJoins
<1>8. Range(c) = Range(handled[s]) \cup Ids(h)
    BY <1>6, <1>7, JoinedRange
<1>9. /\ Increasing(handled[s]) /\ InOrder(Waiting(s)) /\ Below(Range(handled[s]), AllIds(Waiting(s)))
      /\ Range(handled[s]) \cup AllIds(Waiting(s)) = Text(s, Taken(s))
    BY <1>0 DEF Conserved
<1>10. Increasing(c)
    <2>1. Below(Range(handled[s]), Range(IdsOf(h)))
        BY <1>2, <1>4, <1>6, <1>9 DEF Below
    <2>2. Increasing(IdsOf(h))
        BY <1>2, <1>4, <1>9
    <2> QED BY <1>7, <1>9, <2>1, <2>2, JoinedIncreasing
<1>11. /\ handled'[s] = c /\ handled' \in [Streams -> Seq(Nat)]
       /\ \A x \in Streams \ {s} : handled'[x] = handled[x]
    BY <1>1, <1>7 DEF h
<1>12. InOrder(Waiting(s)') /\ Below(Range(c), AllIds(Waiting(s)'))
    BY <1>2, <1>4, <1>5, <1>8, <1>9 DEF Below
<1>13. Range(c) \cup AllIds(Waiting(s)') = Text(s, Taken(s))
    BY <1>2, <1>4, <1>5, <1>8, <1>9
<1>14. Text(s, Taken(s))' = Text(s, Taken(s))
    BY DEF Text, Taken
<1> QED BY <1>10, <1>11, <1>12, <1>13, <1>14 DEF Conserved

(* The entry leaves the queue, and the mutex is free after the last one.   *)
LEMMA DoneMoves ==
    ASSUME Pipeline, NEW s \in Streams, todo[s] # <<>>, Done(s)
    PROVE  /\ todo' \in [Streams -> Seq(Seq(Token))] /\ todo'[s] = Tail(todo[s])
           /\ holder' \in [Streams -> {Nobody, "copier", "timer", "monitor"}]
           /\ holder'[s] \in {holder[s], Nobody}
           /\ holder'[s] = Nobody <=> todo'[s] = <<>>
           /\ \A x \in Streams \ {s} : todo'[x] = todo[x] /\ holder'[x] = holder[x]
<1>0. PipelineType /\ Queue(s)
    BY DEF Pipeline, StreamInv
<1>1. /\ todo \in [Streams -> Seq(Seq(Token))] /\ todo[s] \in Seq(Seq(Token))
      /\ holder \in [Streams -> {Nobody, "copier", "timer", "monitor"}]
    BY <1>0 DEF PipelineType
<1>2. holder[s] # Nobody
    BY <1>0 DEF Queue
<1>3. Tail(todo[s]) \in Seq(Seq(Token)) /\ (Len(todo[s]) = 1 <=> Tail(todo[s]) = <<>>)
    <2> DEFINE q == todo[s]
    <2>1. q \in Seq(Seq(Token)) /\ q # <<>>
        BY <1>1
    <2>2. Tail(q) \in Seq(Seq(Token)) /\ Len(q) \in Nat
        BY <2>1, HeadTail
    <2>3. Len(Tail(q)) = Len(q) - 1
        BY <2>1
    <2>4. Len(Tail(q)) = 0 <=> Tail(q) = <<>>
        <3>1. PICK u \in Seq(Seq(Token)) : u = Tail(q)
            BY <2>2
        <3>2. Len(u) = 0 <=> u = <<>>
            OBVIOUS
        <3> QED BY <3>1, <3>2
    <2> HIDE DEF q
    <2>5. Len(q) = 1 <=> Tail(q) = <<>>
        BY <2>2, <2>3, <2>4
    <2> QED BY <2>2, <2>5 DEF q
<1>4. todo' = [todo EXCEPT ![s] = Tail(todo[s])]
    BY DEF Done
<1>5. holder' = IF Len(todo[s]) = 1 THEN [holder EXCEPT ![s] = Nobody] ELSE holder
    BY DEF Done
<1>6. /\ todo' \in [Streams -> Seq(Seq(Token))] /\ todo'[s] = Tail(todo[s])
      /\ \A x \in Streams \ {s} : todo'[x] = todo[x]
    BY <1>1, <1>3, <1>4
<1>7. /\ holder' \in [Streams -> {Nobody, "copier", "timer", "monitor"}]
      /\ holder'[s] \in {holder[s], Nobody}
      /\ holder'[s] = Nobody <=> Len(todo[s]) = 1
      /\ \A x \in Streams \ {s} : holder'[x] = holder[x]
    BY <1>1, <1>2, <1>5
<1> QED BY <1>3, <1>6, <1>7

LEMMA EntryKeeps ==
    ASSUME Pipeline, NEW s \in Streams, processEntry(s) \/ Deliver(s)
    PROVE  Pipeline'
<1>0. PipelineType /\ Drained /\ StreamInv(s)
    BY DEF Pipeline
<1>1. UNCHANGED <<config, process, helper, written, pipe, copier, monitor, writer>>
    BY DEF processEntry, Deliver, source
<1>2. todo[s] # <<>> /\ todo[s] \in Seq(Seq(Token))
    BY <1>0 DEF processEntry, Deliver, StreamInv, Queue, PipelineType
<1>3. /\ todo' \in [Streams -> Seq(Seq(Token))]
      /\ holder' \in [Streams -> {Nobody, "copier", "timer", "monitor"}]
      /\ holder'[s] \in {holder[s], Nobody} /\ (holder'[s] = Nobody <=> todo'[s] = <<>>)
      /\ sending'[s] # None => todo'[s] # <<>>
      /\ DOMAIN sending' = Streams /\ handled' \in [Streams -> Seq(Nat)] /\ Conserved(s)'
      /\ \A x \in Streams \ {s} : /\ todo'[x] = todo[x] /\ holder'[x] = holder[x]
                                  /\ sending'[x] = sending[x] /\ handled'[x] = handled[x]
    <2>0. DOMAIN sending = Streams /\ handled \in [Streams -> Seq(Nat)]
        BY <1>0 DEF PipelineType
    <2>1. CASE processEntry(s)
        <3>1. PICK entry :
                  /\ sending[s] = None
                  /\ handled' = [handled EXCEPT ![s] = @ \o IdsOf(Redact(Head(todo[s])))]
                  /\ \/ Log(s, entry) /\ entry # None /\ UNCHANGED <<todo, holder>>
                     \/ Done(s) /\ sending' = sending
            <4>1. PICK text \in {Redact(Head(todo[s]))}, json \in {Parse(Redact(Head(todo[s])))} :
                     \E level \in {LevelOf(text, json.stated)} :
                        /\ handled' = [handled EXCEPT ![s] = @ \o IdsOf(text)]
                        /\ \/ /\ Log(s, [stream |-> s, text |-> text, level |-> level,
                                         keys |-> json.keys, time |-> clock + 1])
                              /\ UNCHANGED <<todo, holder>>
                           \/ Done(s) /\ UNCHANGED <<ring, added, sending, clock>>
                BY <2>1 DEF processEntry
            <4> DEFINE level == LevelOf(text, json.stated)
                       entry == [stream |-> s, text |-> text, level |-> level,
                                 keys |-> json.keys, time |-> clock + 1]
            <4>2. entry # None
                <5>1. "stream" \in DOMAIN entry /\ "stream" \notin DOMAIN None
                    BY DEF None
                <5> QED BY <5>1
            <4>3. sending[s] = None
                BY <2>1 DEF processEntry
            <4>4. handled' = [handled EXCEPT ![s] = @ \o IdsOf(Redact(Head(todo[s])))]
                BY <4>1
            <4>5. \/ Log(s, entry) /\ UNCHANGED <<todo, holder>>
                  \/ Done(s) /\ sending' = sending
                BY <4>1
            <4> HIDE DEF entry, level
            <4> QED BY <4>2, <4>3, <4>4, <4>5
        <3>2. IdsOf(Redact(Head(todo[s]))) = IdsOf(Head(todo[s]))
            BY <1>2, HeadTail, RedactIds
        <3>3. handled' = [handled EXCEPT ![s] = @ \o IdsOf(Head(todo[s]))]
            BY <3>1, <3>2
        <3>4. CASE Log(s, entry) /\ entry # None /\ UNCHANGED <<todo, holder>>
            <4>1. /\ DOMAIN sending' = Streams /\ sending'[s] # None
                  /\ \A x \in Streams \ {s} : sending'[x] = sending[x]
                BY <2>0, <3>4 DEF Log
            <4>2. Unprocessed(s)' = Tail(todo[s])
                BY <3>4, <4>1 DEF Unprocessed
            <4>3. /\ Conserved(s)' /\ handled' \in [Streams -> Seq(Nat)]
                  /\ \A x \in Streams \ {s} : handled'[x] = handled[x]
                BY <1>1, <1>2, <3>1, <3>3, <4>2, Processed
            <4> QED BY <1>0, <1>2, <3>4, <4>1, <4>3 DEF PipelineType, StreamInv, Queue
        <3>5. CASE Done(s) /\ sending' = sending
            <4>1. todo'[s] = Tail(todo[s])
                BY <1>2, <3>5, DoneMoves
            <4>2. Unprocessed(s)' = Tail(todo[s])
                BY <3>1, <3>5, <4>1 DEF Unprocessed
            <4>3. /\ Conserved(s)' /\ handled' \in [Streams -> Seq(Nat)]
                  /\ \A x \in Streams \ {s} : handled'[x] = handled[x]
                BY <1>1, <1>2, <3>1, <3>3, <4>2, Processed
            <4> QED BY <1>2, <2>0, <3>1, <3>5, <4>3, DoneMoves
        <3> QED BY <3>1, <3>4, <3>5
    <2>2. CASE Deliver(s)
        <3>1. /\ sending[s] # None /\ sending' = [sending EXCEPT ![s] = None] /\ Done(s)
              /\ handled' = handled
            BY <2>2 DEF Deliver
        <3>2. /\ DOMAIN sending' = Streams /\ sending'[s] = None
              /\ \A x \in Streams \ {s} : sending'[x] = sending[x]
            BY <2>0, <3>1
        <3>3. todo'[s] = Tail(todo[s])
            BY <1>2, <3>1, DoneMoves
        <3>4. Waiting(s)' = Waiting(s) /\ Taken(s)' = Taken(s) /\ Text(s, Taken(s))' = Text(s, Taken(s))
            BY <1>1, <3>1, <3>2, <3>3 DEF Waiting, Unprocessed, Taken, Text
        <3>5. Conserved(s)'
            BY <1>0, <3>1, <3>4 DEF StreamInv, Conserved
        <3> QED BY <1>2, <2>0, <3>1, <3>2, <3>5, DoneMoves
    <2> QED BY <2>1, <2>2
<1>4. PipelineType' /\ Drained'
    BY <1>0, <1>1, <1>3 DEF PipelineType, Drained
<1>5. StreamInv(s)'
    <2>1. Queue(s)'
        BY <1>0, <1>1, <1>3 DEF StreamInv, Queue, Direct
    <2>2. Source(s)' /\ AfterFlush(s)'
        BY <1>0, <1>1 DEF StreamInv, Source, AfterFlush, Taken
    <2>3. Ended(s)'
        BY <1>0, <1>1, <1>2, <1>3 DEF StreamInv, Ended, Queue
    <2> QED BY <1>3, <2>1, <2>2, <2>3 DEF StreamInv
<1>6. ASSUME NEW x \in Streams, x # s PROVE StreamInv(x)'
    <2>1. StreamState(x)' = StreamState(x)
        BY <1>1, <1>3, <1>6 DEF StreamState
    <2>2. StreamInv(x)
        BY DEF Pipeline
    <2> QED BY <1>1, <2>1, <2>2, Untouched
<1> QED BY <1>4, <1>5, <1>6 DEF Pipeline

LEMMA PipelineInit == OutputInit => Pipeline
<1> SUFFICES ASSUME OutputInit PROVE Pipeline
    OBVIOUS
<1>1. PipelineType
    <2>1. config.bound.kinds \subseteq Kinds
        <3>1. PICK setup \in Configs : config = NewProcessWriter(setup)
            BY DEF OutputInit
        <3>2. config.bound = setup.bound
            BY <3>1 DEF NewProcessWriter
        <3> QED BY <3>2, OutputAssumption
    <2>2. <<>> \in Seq(Token) /\ <<>> \in Seq(Seq(Token)) /\ <<>> \in Seq(Nat)
        OBVIOUS
    <2>3. EmptyWriter \in WriterType
        BY <2>2 DEF EmptyWriter, WriterType
    <2>4. monitor \in [at : Nat, timedOut : BOOLEAN, flushed : [Streams -> Int]]
        <3> DEFINE f == [x \in Streams |-> -1]
        <3>1. f \in [Streams -> Int] /\ monitor = [at |-> 0, timedOut |-> FALSE, flushed |-> f]
            BY DEF OutputInit
        <3> HIDE DEF f
        <3> QED BY <3>1
    <2>5. /\ written \in [Streams -> Seq(Token)] /\ pipe \in [Streams -> Seq(Token)]
          /\ todo \in [Streams -> Seq(Seq(Token))] /\ handled \in [Streams -> Seq(Nat)]
        BY <2>2 DEF OutputInit
    <2>6. writer \in [Streams -> WriterType]
        BY <2>3 DEF OutputInit
    <2>7. /\ process \in {"running", "exited"} /\ helper \in BOOLEAN
          /\ copier \in [Streams -> {"copying", "flushing", "done"}]
          /\ holder \in [Streams -> {Nobody, "copier", "timer", "monitor"}]
          /\ DOMAIN sending = Streams
        BY DEF OutputInit
    <2> QED BY <2>1, <2>4, <2>5, <2>6, <2>7 DEF PipelineType
<1>2. Drained
    BY DEF OutputInit, Drained
<1>3. ASSUME NEW s \in Streams PROVE StreamInv(s)
    <2>1. /\ written[s] = <<>> /\ pipe[s] = <<>> /\ copier[s] = "copying" /\ monitor.flushed[s] = -1
          /\ writer[s] = EmptyWriter /\ holder[s] = Nobody /\ todo[s] = <<>> /\ sending[s] = None
          /\ handled[s] = <<>>
        BY DEF OutputInit
    <2>2. EmptyWriter.out = <<>> /\ EmptyWriter.text = <<>> /\ EmptyWriter.partial = <<>>
        BY DEF EmptyWriter
    <2>3. EmptyWriter \in WriterType
        BY <1>1, <2>1 DEF PipelineType
    <2>4. Held(EmptyWriter) = {}
        BY <2>2, EmptyIds DEF Held
    <2>5. AllIds(Waiting(s)) = {} /\ InOrder(Waiting(s))
        <3>1. Waiting(s) = <<>> \o <<EmptyWriter.text, EmptyWriter.partial>>
            BY <2>1 DEF Waiting, Unprocessed
        <3>2. <<>> \in Seq(Seq(Token))
            OBVIOUS
        <3>3. /\ AllIds(Waiting(s)) = AllIds(<<>>) \cup Held(EmptyWriter)
              /\ InOrder(Waiting(s)) <=>
                    /\ InOrder(<<>>) /\ Increasing(IdsOf(EmptyWriter.text))
                    /\ Increasing(IdsOf(EmptyWriter.partial))
                    /\ Below(AllIds(<<>>), Held(EmptyWriter))
                    /\ Below(Ids(EmptyWriter.text), Ids(EmptyWriter.partial))
            BY <2>3, <3>1, <3>2, PartsFacts
        <3> QED BY <2>2, <2>4, <3>3, EmptyIds DEF Below
    <2>6. Taken(s) = 0 /\ Text(s, Taken(s)) = {}
        BY <2>1 DEF Taken, Text
    <2>7. Range(handled[s]) = {} /\ Increasing(handled[s])
        BY <2>1 DEF Range, Increasing
    <2>8. Conserved(s)
        BY <2>5, <2>6, <2>7 DEF Conserved, Below
    <2>9. Queue(s) /\ Ended(s)
        BY <2>1, <2>2 DEF Queue, Ended
    <2>10. Source(s)
        <3>1. SubSeq(<<>>, 1, 0) = <<>>
            OBVIOUS
        <3> QED BY <2>1, <2>6, <3>1 DEF Source
    <2>11. AfterFlush(s)
        BY <2>1, <2>4, <2>6 DEF AfterFlush
    <2> QED BY <2>8, <2>9, <2>10, <2>11 DEF StreamInv
<1> QED BY <1>1, <1>2, <1>3 DEF Pipeline

LEMMA PipelineStep == Pipeline /\ [OutputNext]_outputVars => Pipeline'
<1> SUFFICES ASSUME Pipeline, [OutputNext]_outputVars PROVE Pipeline'
    OBVIOUS
<1>1. ASSUME NEW s \in Streams, NEW k \in config.bound.kinds \cup {Newline}, WriteToken(s, k)
      PROVE  Pipeline'
    BY <1>1, WriteTokenKeeps
<1>2. CASE Fork \/ ProcessExits \/ HelperExit
    BY <1>2, ProcessKeeps
<1>3. ASSUME NEW filter, Subscribe(filter) PROVE Pipeline'
    BY <1>3, ClientKeeps DEF Subscribe, others, source, pipelineVars
<1>4. CASE ClientReads \/ Unsubscribe
    BY <1>4, ClientKeeps DEF ClientReads, Unsubscribe, others, source, pipelineVars
<1>5. ASSUME NEW s \in Streams, Work(s) \/ Age(s) PROVE Pipeline'
    <2>1. CASE processEntry(s) \/ Deliver(s)
        BY <2>1, EntryKeeps
    <2>2. CASE Fire(s) \/ Age(s)
        BY <2>2, TimerKeeps
    <2>3. CASE Timeout(s)
        BY <2>3, TimeoutKeeps
    <2>4. CASE CopyEnds(s)
        BY <2>4, CopyEndsKeeps
    <2>5. CASE CopierDone(s)
        BY <2>5, CopierDoneKeeps
    <2>6. ASSUME NEW n \in 1..Len(pipe[s]), Copy(s, n) PROVE Pipeline'
        BY <2>6, CopyKeeps
    <2> QED BY <1>5, <2>1, <2>2, <2>3, <2>4, <2>5, <2>6 DEF Work
<1>6. CASE ExitSteps
    BY <1>6, MonitorKeeps, FlushAtExitKeeps DEF ExitSteps
<1>7. CASE UNCHANGED outputVars
    BY <1>7, ClientKeeps DEF outputVars, pipelineVars
<1> QED BY <1>1, <1>2, <1>3, <1>4, <1>5, <1>6, <1>7 DEF OutputNext, Environment

LEMMA PipelineAlways == OutputSpec => []Pipeline
BY PipelineInit, PipelineStep, PTL DEF OutputSpec

(* What a process writes is processed once and in the order it was         *)
(* written, with nothing missing between the pipe, the writer's buffers,   *)
(* the entries on their way and the log (ProcessWriter.Write, Flush and    *)
(* flushOnTimeout, called by the copier, the timers and monitorInstance in *)
(* any order): for any text, any configuration and any buffer sizes.       *)
THEOREM NothingIsLost == OutputSpec => []Conservation
<1>1. Pipeline => Conservation
    BY DEF Pipeline, StreamInv, Conserved, Source, Conservation
<1> QED BY <1>1, PipelineAlways, PTL

(* When monitorInstance acts on an exit, what the copiers had passed on is *)
(* out of the writers' buffers, and after a drain of its pipes that did    *)
(* not time out everything the process wrote has been processed            *)
(* (drainOutput and Flush); snapshot streams have no pipe to drain.        *)
THEOREM LastWordsAreLogged == OutputSpec => []CrashOutputLogged
<1>1. ASSUME Pipeline, monitor.at = Acted, NEW s \in Streams
      PROVE  /\ \A id \in Ids(writer[s].text) \cup Ids(writer[s].partial) : id > monitor.flushed[s]
             /\ ~monitor.timedOut /\ ~config.snapshot
                    => Range(handled[s]) = Text(s, Len(written[s]))
    <2>0. PipelineType /\ Drained /\ StreamInv(s)
        BY <1>1 DEF Pipeline
    <2>1. \A id \in Ids(writer[s].text) \cup Ids(writer[s].partial) : id > monitor.flushed[s]
        BY <2>0 DEF StreamInv, AfterFlush, Held
    <2>2. ASSUME ~monitor.timedOut, ~config.snapshot
          PROVE  Range(handled[s]) = Text(s, Len(written[s]))
        <3>1. monitor.at > 0
            <4>1. StreamOrder \in Seq(STRING)
                BY OutputAssumption
            <4>2. Len(StreamOrder) \in Nat
                BY <4>1
            <4> QED BY <1>1, <4>2 DEF Acted
        <3>2. copier[s] = "done"
            BY <2>0, <2>2, <3>1 DEF Drained
        <3>3. /\ pipe[s] = <<>> /\ writer[s].text = <<>> /\ writer[s].partial = <<>>
              /\ holder[s] = Nobody
            BY <2>0, <3>2 DEF StreamInv, Ended
        <3>4. Range(handled[s]) \cup Held(writer[s]) = Text(s, Taken(s))
            BY <1>1, <3>3, Free
        <3>5. Held(writer[s]) = {}
            BY <3>3, EmptyIds DEF Held
        <3>6. Taken(s) = Len(written[s])
            <4>1. written[s] \in Seq(Token)
                BY <2>0 DEF PipelineType
            <4> QED BY <3>3, <4>1 DEF Taken
        <3> QED BY <3>4, <3>5, <3>6
    <2> QED BY <2>1, <2>2
<1>2. Pipeline => CrashOutputLogged
    BY <1>1 DEF CrashOutputLogged
<1> QED BY <1>2, PipelineAlways, PTL

---------------------------------------------------------------------------
(* The log, as its readers see it.                                         *)

LEMMA RingBound == RingSize \in Nat /\ RingSize > 0
<1>1. RingSize \in Nat \ {0}
    BY OutputAssumption
<1> QED BY <1>1

LEMMA Wrap ==
    ASSUME NEW k \in 1..RingSize
    PROVE  k % RingSize = IF k = RingSize THEN 0 ELSE k
<1>1. RingSize \in Nat /\ RingSize > 0
    BY RingBound
<1> QED BY <1>1

(* Where the ring keeps the entry that k others came after.                *)
Slot(index, k) == IF k < index THEN index - 1 - k ELSE index - 1 - k + RingSize

(* The ring holds the last entries of a, the next one goes to its index.   *)
RingOf(r, a) ==
    /\ DOMAIN r.entries = 0..(RingSize - 1) /\ r.index \in 0..(RingSize - 1)
    /\ r.full \in BOOLEAN
    /\ r.full => Len(a) >= RingSize
    /\ ~r.full => r.index = Len(a)
    /\ \A i \in 1..Len(a) :
          i > Len(a) - RingSize => r.entries[Slot(r.index, Len(a) - i)] = Stored(a[i])

IsSequence(a) == a \in Seq(Range(a))

LEMMA SequenceFacts ==
    ASSUME NEW a, IsSequence(a)
    PROVE  Len(a) \in Nat /\ DOMAIN a = 1..Len(a)
BY DEF IsSequence

LEMMA AppendFacts ==
    ASSUME NEW a, IsSequence(a), NEW e
    PROVE  /\ IsSequence(Append(a, e)) /\ Len(Append(a, e)) = Len(a) + 1
           /\ \A i \in 1..Len(a) : Append(a, e)[i] = a[i]
           /\ Append(a, e)[Len(a) + 1] = e
<1>1. PICK S : S = Range(a) \cup {e}
    OBVIOUS
<1>2. a \in Seq(S) /\ e \in S
    BY <1>1 DEF IsSequence
<1>3. /\ Append(a, e) \in Seq(S) /\ Len(Append(a, e)) = Len(a) + 1 /\ Len(a) \in Nat
      /\ \A i \in 1..Len(a) : Append(a, e)[i] = a[i]
      /\ Append(a, e)[Len(a) + 1] = e
    BY <1>2
<1>4. PICK c : c = Append(a, e)
    OBVIOUS
<1>5. c \in Seq(Range(c))
    <2>1. c \in Seq(S)
        BY <1>3, <1>4
    <2>2. DOMAIN c = 1..Len(c) /\ Len(c) \in Nat
        BY <2>1
    <2>3. \A i \in 1..Len(c) : c[i] \in Range(c)
        BY <2>2 DEF Range
    <2> QED BY <2>1, <2>2, <2>3
<1> QED BY <1>3, <1>4, <1>5 DEF IsSequence

LEMMA RingAdds ==
    ASSUME NEW a, IsSequence(a), NEW r, RingOf(r, a), NEW e
    PROVE  RingOf(AddToRing(r, e), Append(a, e))
<1>0. RingSize \in Nat /\ RingSize > 0
    BY RingBound
<1>1. PICK n \in Nat : n = Len(a)
    BY SequenceFacts
<1>2. PICK c : c = Append(a, e)
    OBVIOUS
<1>3. /\ Len(c) = n + 1 /\ c[n + 1] = e /\ \A i \in 1..n : c[i] = a[i]
    BY <1>1, <1>2, AppendFacts
<1>4. PICK q : q = AddToRing(r, e)
    OBVIOUS
<1>5. PICK x \in 0..(RingSize - 1) : x = r.index
    BY DEF RingOf
<1>6. /\ q.entries = [r.entries EXCEPT ![x] = Stored(e)]
      /\ q.index = (x + 1) % RingSize /\ q.full = (r.full \/ x + 1 >= RingSize)
    BY <1>4, <1>5 DEF AddToRing
<1>7. x + 1 \in 1..RingSize
    BY <1>0, <1>5
<1>8. q.index = IF x + 1 = RingSize THEN 0 ELSE x + 1
    BY <1>6, <1>7, Wrap
<1>9. PICK y \in 0..(RingSize - 1) : y = q.index /\ y = IF x + 1 = RingSize THEN 0 ELSE x + 1
    BY <1>0, <1>8
<1>10. /\ DOMAIN r.entries = 0..(RingSize - 1) /\ r.full \in BOOLEAN
       /\ r.full => n >= RingSize
       /\ ~r.full => x = n
       /\ \A i \in 1..n : i > n - RingSize => r.entries[Slot(x, n - i)] = Stored(a[i])
    BY <1>1, <1>5 DEF RingOf
<1>11. DOMAIN q.entries = 0..(RingSize - 1) /\ q.full \in BOOLEAN
    BY <1>6, <1>10
<1>12. (q.full => n + 1 >= RingSize) /\ (~q.full => y = n + 1)
    <2>1. CASE r.full
        <3>1. q.full
            BY <1>6, <2>1
        <3>2. n >= RingSize
            BY <1>10, <2>1
        <3> QED BY <1>0, <3>1, <3>2
    <2>2. CASE ~r.full
        <3>1. x = n /\ (q.full <=> x + 1 >= RingSize)
            BY <1>6, <1>10, <2>2
        <3> QED BY <1>0, <1>9, <3>1
    <2> QED BY <1>10, <2>1, <2>2
<1>13. ASSUME NEW i \in 1..(n + 1), i > n + 1 - RingSize
       PROVE  q.entries[Slot(y, n + 1 - i)] = Stored(c[i])
    <2>1. CASE i = n + 1
        <3>1. Slot(y, n + 1 - i) = x
            BY <1>0, <1>9, <2>1 DEF Slot
        <3> QED BY <1>3, <1>6, <1>10, <2>1, <3>1
    <2>2. CASE i # n + 1
        <3>1. i \in 1..n /\ i > n - RingSize
            BY <1>0, <1>13, <2>2
        <3>2. PICK k \in Nat : k = n - i /\ k + 1 < RingSize /\ n + 1 - i = k + 1
            BY <1>0, <1>13, <3>1
        <3>3. Slot(y, k + 1) = Slot(x, k)
            BY <1>0, <1>9, <3>2 DEF Slot
        <3>4. Slot(x, k) # x
            BY <1>0, <3>2 DEF Slot
        <3>5. r.entries[Slot(x, k)] = Stored(a[i])
            BY <1>10, <3>1, <3>2
        <3>6. Slot(x, k) \in 0..(RingSize - 1)
            BY <1>0, <3>2 DEF Slot
        <3>7. q.entries[Slot(x, k)] = r.entries[Slot(x, k)]
            BY <1>6, <1>10, <3>4, <3>6
        <3> QED BY <1>3, <3>1, <3>2, <3>3, <3>5, <3>7
    <2> QED BY <2>1, <2>2
<1>14. RingOf(q, c)
    <2>1. PICK m \in Nat : m = n + 1 /\ Len(c) = m
        BY <1>3
    <2>2. \A i \in 1..m : i > m - RingSize => q.entries[Slot(y, m - i)] = Stored(c[i])
        <3> SUFFICES ASSUME NEW i \in 1..m, i > m - RingSize
                     PROVE  q.entries[Slot(y, m - i)] = Stored(c[i])
            OBVIOUS
        <3>1. i \in 1..(n + 1) /\ i > n + 1 - RingSize
            BY <1>0, <2>1
        <3>2. q.entries[Slot(y, n + 1 - i)] = Stored(c[i])
            BY <1>13, <3>1
        <3> QED BY <2>1, <3>2
    <2>3. (q.full => m >= RingSize) /\ (~q.full => y = m)
        BY <1>12, <2>1
    <2> QED BY <1>9, <1>11, <2>1, <2>2, <2>3 DEF RingOf
<1> QED BY <1>2, <1>4, <1>14

(* What the readers of a ring get.                                         *)
LastOf(a, m) == {Stored(a[i]) : i \in {j \in DOMAIN a : j > Len(a) - m}}

Recent(r, m) ==
    IF m <= r.index THEN Slice(r, r.index - m, r.index)
    ELSE Slice(r, RingSize - (m - r.index), RingSize) \o Slice(r, 0, r.index)

Kept(r, from, to) == {r.entries[k] : k \in from..(to - 1)}

LEMMA SliceFacts ==
    ASSUME NEW r, NEW from \in Nat, NEW to \in Nat, from <= to, to <= RingSize,
           DOMAIN r.entries = 0..(RingSize - 1)
    PROVE  /\ Slice(r, from, to) \in Seq(Range(r.entries))
           /\ Range(Slice(r, from, to)) = Kept(r, from, to)
<1>0. RingSize \in Nat /\ RingSize > 0
    BY RingBound
<1> DEFINE z == Slice(r, from, to)
<1>1. PICK d \in Nat : d = to - from
    OBVIOUS
<1>2. z = [i \in 1..d |-> r.entries[from + i - 1]]
    BY <1>1 DEF Slice
<1> HIDE DEF z
<1>3. DOMAIN z = 1..d /\ \A i \in 1..d : z[i] = r.entries[from + i - 1]
    BY <1>2
<1>4. \A i \in 1..d : from + i - 1 \in 0..(RingSize - 1) /\ from + i - 1 \in from..(to - 1)
    BY <1>0, <1>1
<1>5. \A i \in 1..d : r.entries[from + i - 1] \in Range(r.entries)
    BY <1>4 DEF Range
<1>6. z \in Seq(Range(r.entries))
    BY <1>2, <1>5
<1>7. \A k \in from..(to - 1) : k - from + 1 \in 1..d /\ from + (k - from + 1) - 1 = k
    BY <1>1
<1>8. \A k \in from..(to - 1) : r.entries[k] = z[k - from + 1]
    BY <1>3, <1>7
<1>9. Range(z) = {r.entries[k] : k \in from..(to - 1)}
    <2>1. Range(z) = {z[i] : i \in 1..d}
        BY <1>3 DEF Range
    <2>2. ASSUME NEW i \in 1..d PROVE z[i] \in {r.entries[k] : k \in from..(to - 1)}
        BY <1>3, <1>4
    <2>3. ASSUME NEW k \in from..(to - 1) PROVE r.entries[k] \in {z[i] : i \in 1..d}
        BY <1>7, <1>8
    <2> QED BY <2>1, <2>2, <2>3
<1> QED BY <1>6, <1>9 DEF z, Kept

LEMMA RecentFacts ==
    ASSUME NEW a, IsSequence(a), NEW r, RingOf(r, a), NEW m \in Nat, m <= RingSize, m <= Len(a)
    PROVE  Range(Recent(r, m)) = LastOf(a, m)
<1>0. RingSize \in Nat /\ RingSize > 0
    BY RingBound
<1>1. PICK n \in Nat : n = Len(a)
    BY SequenceFacts
<1>2. PICK x \in 0..(RingSize - 1) : x = r.index
    BY DEF RingOf
<1>3. /\ DOMAIN r.entries = 0..(RingSize - 1)
      /\ ~r.full => x = n
      /\ r.full => n >= RingSize
      /\ \A i \in 1..n : i > n - RingSize => r.entries[Slot(x, n - i)] = Stored(a[i])
    BY <1>1, <1>2 DEF RingOf
<1> DEFINE K == {k \in 0..(RingSize - 1) : IF m <= x THEN x - m <= k /\ k < x
                                          ELSE k < x \/ k >= RingSize - (m - x)}
<1>4. Range(Recent(r, m)) = {r.entries[k] : k \in K}
    <2>1. CASE m <= x
        <3>1. PICK from \in Nat : from = x - m /\ from <= x /\ x <= RingSize /\ x \in Nat
            BY <1>0, <2>1
        <3>2. Recent(r, m) = Slice(r, from, x)
            BY <1>2, <2>1, <3>1 DEF Recent
        <3>3. Range(Slice(r, from, x)) = Kept(r, from, x)
            BY <1>3, <3>1, SliceFacts
        <3>4. from..(x - 1) = K
            BY <1>0, <2>1, <3>1
        <3> QED BY <3>2, <3>3, <3>4 DEF Kept
    <2>2. CASE m > x
        <3>1. PICK from \in Nat : from = RingSize - (m - x) /\ from <= RingSize
            BY <1>0, <2>2
        <3>2. Recent(r, m) = Slice(r, from, RingSize) \o Slice(r, 0, x)
            BY <1>2, <2>2, <3>1 DEF Recent
        <3>x. RingSize <= RingSize /\ x \in Nat /\ 0 \in Nat /\ 0 <= x /\ x <= RingSize
            BY <1>0
        <3>3. /\ Slice(r, from, RingSize) \in Seq(Range(r.entries))
              /\ Range(Slice(r, from, RingSize)) = Kept(r, from, RingSize)
            BY <1>0, <1>3, <3>1, <3>x, SliceFacts
        <3>4. /\ Slice(r, 0, x) \in Seq(Range(r.entries))
              /\ Range(Slice(r, 0, x)) = Kept(r, 0, x)
            BY <1>0, <1>3, <3>x, SliceFacts
        <3>5. Range(Recent(r, m)) = Range(Slice(r, from, RingSize)) \cup Range(Slice(r, 0, x))
            BY <3>2, <3>3, <3>4, CatJoins, JoinedRange
        <3>6. (from..(RingSize - 1)) \cup (0..(x - 1)) = K
            BY <1>0, <2>2, <3>1
        <3> HIDE DEF K
        <3> QED BY <3>3, <3>4, <3>5, <3>6 DEF Kept
    <2> QED BY <2>1, <2>2
<1>5. LastOf(a, m) = {Stored(a[i]) : i \in {j \in 1..n : j > n - m}}
    BY <1>1, SequenceFacts DEF LastOf
<1>6. ASSUME NEW i \in 1..n, i > n - m
      PROVE  Slot(x, n - i) \in K /\ r.entries[Slot(x, n - i)] = Stored(a[i])
    <2>1. i > n - RingSize
        BY <1>0, <1>6
    <2>2. PICK k \in Nat : k = n - i /\ k < m
        BY <1>6
    <2>3. Slot(x, k) \in K
        BY <1>0, <2>2 DEF Slot
    <2> QED BY <1>3, <2>1, <2>2, <2>3
<1>7. ASSUME NEW k \in K
      PROVE  \E i \in 1..n : i > n - m /\ Slot(x, n - i) = k
    <2>1. PICK d \in Nat : d = (IF k < x THEN x - 1 - k ELSE x - 1 - k + RingSize)
        <3>1. k \in Int /\ x \in Int /\ 0 <= k /\ k <= RingSize - 1 /\ 0 <= x
            BY <1>0
        <3>2. CASE k < x
            BY <3>1, <3>2
        <3>3. CASE ~(k < x)
            <4>1. x - 1 - k + RingSize \in Nat
                BY <1>0, <3>1
            <4> QED BY <3>3, <4>1
        <3> QED BY <3>2, <3>3
    <2>2. d < m /\ Slot(x, d) = k
        BY <1>0, <2>1 DEF Slot
    <2>3. n - d \in 1..n /\ n - d > n - m /\ n - (n - d) = d
        BY <1>1, <2>2
    <2> QED BY <2>2, <2>3
<1>8. {r.entries[k] : k \in K} = {Stored(a[i]) : i \in {j \in 1..n : j > n - m}}
    <2> HIDE DEF K
    <2>1. ASSUME NEW k \in K
          PROVE  r.entries[k] \in {Stored(a[i]) : i \in {j \in 1..n : j > n - m}}
        <3>1. PICK i \in 1..n : i > n - m /\ Slot(x, n - i) = k
            BY <1>7
        <3> QED BY <1>6, <3>1
    <2>2. ASSUME NEW i \in 1..n, i > n - m
          PROVE  Stored(a[i]) \in {r.entries[k] : k \in K}
        BY <1>6, <2>2
    <2> QED BY <2>1, <2>2
<1> QED BY <1>4, <1>5, <1>8

LEMMA AllFacts ==
    ASSUME NEW a, IsSequence(a), NEW r, RingOf(r, a)
    PROVE  Range(GetAll(r)) = LastOf(a, RingSize)
<1>0. RingSize \in Nat /\ RingSize > 0
    BY RingBound
<1>1. PICK n \in Nat : n = Len(a) /\ DOMAIN a = 1..n
    BY SequenceFacts
<1>2. PICK x \in 0..(RingSize - 1) : x = r.index
    BY DEF RingOf
<1>3. (r.full => n >= RingSize) /\ (~r.full => x = n) /\ r.full \in BOOLEAN
    BY <1>1, <1>2 DEF RingOf
<1>4. CASE r.full
    <2>1. ~(RingSize <= x) /\ RingSize - (RingSize - x) = x
        BY <1>0
    <2>2. GetAll(r) = Recent(r, RingSize)
        BY <1>2, <1>4, <2>1 DEF GetAll, Recent
    <2>3. RingSize <= RingSize /\ RingSize <= Len(a)
        BY <1>0, <1>1, <1>3, <1>4
    <2> QED BY <1>0, <2>2, <2>3, RecentFacts
<1>5. CASE ~r.full
    <2>1. x <= x /\ x - x = 0 /\ x \in Nat /\ x <= RingSize
        BY <1>0
    <2>2. GetAll(r) = Recent(r, x)
        BY <1>2, <1>5, <2>1 DEF GetAll, Recent
    <2>3. Range(GetAll(r)) = LastOf(a, x)
        BY <1>1, <1>3, <1>5, <2>1, <2>2, RecentFacts
    <2>4. {j \in DOMAIN a : j > Len(a) - x} = {j \in DOMAIN a : j > Len(a) - RingSize}
        BY <1>0, <1>1, <1>3, <1>5
    <2> QED BY <2>3, <2>4 DEF LastOf
<1> QED BY <1>3, <1>4, <1>5

LEMMA RecentLimit ==
    ASSUME NEW a, IsSequence(a), NEW r, RingOf(r, a), NEW limit \in Nat, limit > 0,
           NEW k \in Nat, k = IF limit <= RingSize THEN limit ELSE RingSize
    PROVE  Range(GetRecent(r, limit)) = LastOf(a, k)
<1>0. RingSize \in Nat /\ RingSize > 0
    BY RingBound
<1>1. PICK n \in Nat : n = Len(a) /\ DOMAIN a = 1..n
    BY SequenceFacts
<1>2. PICK x \in 0..(RingSize - 1) : x = r.index
    BY DEF RingOf
<1>3. (r.full => n >= RingSize) /\ (~r.full => x = n) /\ r.full \in BOOLEAN
    BY <1>1, <1>2 DEF RingOf
<1>4. PICK count \in Nat : count = IF r.full THEN RingSize ELSE r.index
    BY <1>0, <1>2
<1>5. PICK m \in Nat : m = IF limit <= count THEN limit ELSE count
    OBVIOUS
<1>6. Max({limit, 0}) = limit
    BY DEF Max
<1>7. Min({limit, count}) = m
    BY <1>5 DEF Min
<1>8. GetRecent(r, limit) = IF ~r.full \/ m <= r.index THEN Slice(r, r.index - m, r.index)
                            ELSE Slice(r, RingSize - (m - r.index), RingSize) \o Slice(r, 0, r.index)
    BY <1>4, <1>6, <1>7 DEF GetRecent
<1>9. ~r.full => m <= x
    BY <1>2, <1>4, <1>5
<1>10. GetRecent(r, limit) = Recent(r, m)
    BY <1>2, <1>8, <1>9 DEF Recent
<1>11. m <= RingSize /\ m <= n
    BY <1>0, <1>2, <1>3, <1>4, <1>5
<1>12. Range(GetRecent(r, limit)) = LastOf(a, m)
    BY <1>1, <1>10, <1>11, RecentFacts
<1>13. {j \in DOMAIN a : j > Len(a) - m} = {j \in DOMAIN a : j > Len(a) - k}
    BY <1>0, <1>1, <1>2, <1>3, <1>4, <1>5
<1> QED BY <1>12, <1>13 DEF LastOf

(* Cutting off the older entries does not disturb the ranks of the newest. *)
LEMMA SameRanks ==
    ASSUME NEW E, IsFiniteSet(E), NEW G, G \subseteq E, NEW k \in Nat,
           \A e \in E : e.time \in Nat,
           \A d \in E \ G : \E X \in SUBSET G : Cardinality(X) = k /\ \A x \in X : x.time > d.time
    PROVE  /\ \A i \in 1..k : Ranked(G, i) = Ranked(E, i)
           /\ Cardinality(G) \in Nat /\ Cardinality(E) \in Nat /\ Cardinality(G) <= Cardinality(E)
           /\ G = E \/ (Cardinality(G) >= k /\ Cardinality(E) > k)
<1> DEFINE A(e) == {d \in E : d.time >= e.time}
           B(e) == {d \in G : d.time >= e.time}
<1>1. \A S \in SUBSET E : IsFiniteSet(S) /\ Cardinality(S) \in Nat
    BY FS_Subset, FS_CardinalityType
<1>2. ASSUME NEW S \in SUBSET E, NEW T \in SUBSET S PROVE Cardinality(T) <= Cardinality(S)
    BY <1>1, FS_Subset
<1>3. ASSUME NEW S \in SUBSET E, NEW X \in SUBSET S, NEW e \in S \ X, Cardinality(X) = k
      PROVE  Cardinality(S) > k
    <2>1. Cardinality(X \cup {e}) = k + 1
        BY <1>1, <1>3, FS_AddElement
    <2>2. Cardinality(X \cup {e}) <= Cardinality(S)
        BY <1>2
    <2> QED BY <1>1, <2>1, <2>2
<1>4. ASSUME NEW e \in G, Cardinality(B(e)) <= k PROVE A(e) = B(e)
    <2> SUFFICES ASSUME NEW d \in A(e) \ B(e) PROVE FALSE
        OBVIOUS
    <2>1. d \in E \ G /\ d.time >= e.time
        OBVIOUS
    <2>2. PICK X \in SUBSET G : Cardinality(X) = k /\ \A x \in X : x.time > d.time
        BY <2>1
    <2>3. e.time \in Nat /\ d.time \in Nat /\ \A x \in X : x.time \in Nat
        BY <2>1
    <2>4. X \in SUBSET B(e)
        BY <2>1, <2>2, <2>3
    <2>5. e \in B(e) \ X
        BY <2>1, <2>2, <2>3
    <2>6. B(e) \in SUBSET E
        OBVIOUS
    <2>7. Cardinality(B(e)) > k
        BY <1>3, <2>2, <2>4, <2>5, <2>6
    <2> QED BY <1>1, <1>4, <2>6, <2>7
<1>5. ASSUME NEW e \in E, Cardinality(A(e)) <= k PROVE e \in G /\ A(e) = B(e)
    <2>1. e \in G
        <3> SUFFICES ASSUME e \notin G PROVE FALSE
            OBVIOUS
        <3>1. PICK X \in SUBSET G : Cardinality(X) = k /\ \A x \in X : x.time > e.time
            OBVIOUS
        <3>2. e.time \in Nat /\ \A x \in X : x.time \in Nat
            OBVIOUS
        <3>3. X \in SUBSET A(e) /\ e \in A(e) \ X /\ A(e) \in SUBSET E
            BY <3>1, <3>2
        <3>4. Cardinality(A(e)) > k
            BY <1>3, <3>1, <3>3
        <3> QED BY <1>1, <1>5, <3>3, <3>4
    <2>2. B(e) \in SUBSET A(e) /\ A(e) \in SUBSET E
        OBVIOUS
    <2>3. Cardinality(B(e)) <= Cardinality(A(e))
        BY <1>2, <2>2
    <2>4. Cardinality(A(e)) \in Nat /\ Cardinality(B(e)) \in Nat
        BY <1>1, <2>2
    <2>5. Cardinality(B(e)) <= k
        BY <1>5, <2>3, <2>4
    <2> QED BY <1>4, <2>1, <2>5
<1>6. ASSUME NEW i \in 1..k PROVE Ranked(G, i) = Ranked(E, i)
    <2>1. \A e : e \in Ranked(G, i) <=> e \in G /\ Cardinality(B(e)) = i
        BY DEF Ranked
    <2>2. \A e : e \in Ranked(E, i) <=> e \in E /\ Cardinality(A(e)) = i
        BY DEF Ranked
    <2>3. i <= k
        OBVIOUS
    <2> HIDE DEF A, B
    <2>4. \A e : e \in G /\ Cardinality(B(e)) = i => e \in E /\ Cardinality(A(e)) = i
        BY <1>4, <2>3
    <2>5. \A e : e \in E /\ Cardinality(A(e)) = i => e \in G /\ Cardinality(B(e)) = i
        BY <1>5, <2>3
    <2>6. \A e : e \in Ranked(G, i) <=> e \in Ranked(E, i)
        BY <2>1, <2>2, <2>4, <2>5
    <2> QED BY <2>6
<1>7. ASSUME G # E PROVE Cardinality(G) >= k /\ Cardinality(E) > k
    <2>1. PICK d \in E \ G : TRUE
        BY <1>7
    <2>2. PICK X \in SUBSET G : Cardinality(X) = k
        BY <2>1
    <2>3. Cardinality(X) <= Cardinality(G)
        BY <1>2
    <2>4. X \in SUBSET E /\ d \in E \ X
        BY <2>1
    <2>5. Cardinality(E) > k
        BY <1>3, <2>2, <2>4
    <2> QED BY <1>1, <2>2, <2>3, <2>5
<1>8. /\ Cardinality(G) \in Nat /\ Cardinality(E) \in Nat /\ Cardinality(G) <= Cardinality(E)
    BY <1>1, <1>2
<1> QED BY <1>6, <1>7, <1>8

(* NewestFirst sorts: every entry is in it, and later ones are older.      *)
LEMMA NewestFirstSorts ==
    ASSUME NEW E, IsFiniteSet(E), \A e \in E : e.time \in Nat,
           \A d, e \in E : d.time = e.time => d = e
    PROVE  /\ Range(NewestFirst(E)) = E
           /\ \A i, j \in DOMAIN NewestFirst(E) :
                 i < j => NewestFirst(E)[i].time > NewestFirst(E)[j].time
<1> DEFINE A(e) == {d \in E : d.time >= e.time}
<1>1. PICK N \in Nat : N = Cardinality(E)
    BY FS_CardinalityType
<1>2. ASSUME NEW e \in E PROVE Cardinality(A(e)) \in 1..N /\ IsFiniteSet(A(e))
    <2>1. A(e) \in SUBSET E /\ e \in A(e)
        OBVIOUS
    <2>2. IsFiniteSet(A(e)) /\ Cardinality(A(e)) <= N
        BY <1>1, <2>1, FS_Subset
    <2>3. Cardinality(A(e)) \in Nat /\ Cardinality(A(e)) # 0
        BY <2>1, <2>2, FS_CardinalityType, FS_EmptySet
    <2> HIDE DEF A
    <2> QED BY <2>2, <2>3
<1>3. ASSUME NEW d \in E, NEW e \in E, d.time < e.time
      PROVE  Cardinality(A(e)) < Cardinality(A(d))
    <2>1. A(e) \in SUBSET A(d) /\ d \in A(d) /\ d \notin A(e)
        BY <1>3
    <2>2. /\ Cardinality(A(e)) <= Cardinality(A(d))
          /\ Cardinality(A(d)) = Cardinality(A(e)) => A(d) = A(e)
        BY <1>2, <2>1, FS_Subset
    <2>3. Cardinality(A(e)) \in 1..N /\ Cardinality(A(d)) \in 1..N
        BY <1>2
    <2> HIDE DEF A
    <2> QED BY <2>1, <2>2, <2>3
<1> DEFINE rank == [e \in E |-> Cardinality(A(e))]
<1>4. rank \in [E -> 1..N]
    BY <1>2
<1>5. \A e \in E : rank[e] = Cardinality(A(e))
    OBVIOUS
<1>6. \A i : \A e : e \in Ranked(E, i) <=> e \in E /\ rank[e] = i
    BY DEF Ranked
<1> HIDE DEF A, rank
<1>7. ASSUME NEW d \in E, NEW e \in E, rank[d] = rank[e] PROVE d = e
    <2>1. ~(d.time < e.time) /\ ~(e.time < d.time)
        <3>1. rank[d] \in 1..N /\ rank[e] \in 1..N
            BY <1>4
        <3> QED BY <1>3, <1>5, <1>7, <3>1
    <2>2. d.time \in Nat /\ e.time \in Nat
        OBVIOUS
    <2>3. d.time = e.time
        BY <2>1, <2>2
    <2> QED BY <2>3
<1>8. rank \in Injection(E, 1..N)
    BY <1>4, <1>7 DEF Injection, IsInjective
<1>9. rank \in Surjection(E, 1..N)
    <2>1. 1 \in Int /\ N \in Int /\ (1 > N => N = 0) /\ N - 1 + 1 = N
        OBVIOUS
    <2>2. IsFiniteSet(1..N) /\ Cardinality(1..N) = IF 1 > N THEN 0 ELSE N - 1 + 1
        BY <2>1, FS_Interval
    <2>3. Cardinality(1..N) = N
        BY <2>1, <2>2
    <2> QED BY <1>1, <1>8, <2>2, <2>3, FS_Injection
<1>10. PICK q : q = NewestFirst(E)
    OBVIOUS
<1>11. DOMAIN q = 1..N /\ \A i \in 1..N : q[i] = The(Ranked(E, i))
    BY <1>1, <1>10 DEF NewestFirst
<1>12. ASSUME NEW i \in 1..N PROVE q[i] \in E /\ rank[q[i]] = i
    <2>1. \E e \in E : rank[e] = i
        BY <1>9 DEF Surjection
    <2>2. \E e : e \in Ranked(E, i)
        BY <1>6, <2>1
    <2>3. The(Ranked(E, i)) \in Ranked(E, i)
        BY <2>2 DEF The
    <2> QED BY <1>6, <1>11, <2>3
<1>13. Range(q) = E
    <2>1. ASSUME NEW e \in E PROVE \E i \in 1..N : q[i] = e
        <3>1. PICK i \in 1..N : i = rank[e]
            BY <1>4
        <3> QED BY <1>7, <1>12, <3>1
    <2> QED BY <1>11, <1>12, <2>1 DEF Range
<1>14. ASSUME NEW i \in 1..N, NEW j \in 1..N, i < j PROVE q[i].time > q[j].time
    <2>1. q[i] \in E /\ q[j] \in E /\ rank[q[i]] = i /\ rank[q[j]] = j
        BY <1>12
    <2>2. q[i].time \in Nat /\ q[j].time \in Nat
        BY <2>1
    <2>3. q[i].time # q[j].time
        BY <1>14, <2>1
    <2>4. ~(q[i].time < q[j].time)
        BY <1>3, <1>5, <1>14, <2>1
    <2> QED BY <2>2, <2>3, <2>4
<1> QED BY <1>10, <1>11, <1>13, <1>14

(* The newest of the newest are the newest of all.                         *)
LEMMA NewestPrefix ==
    ASSUME NEW E, NEW G, NEW limit \in Nat, limit > 0,
           \A i \in 1..limit : Ranked(G, i) = Ranked(E, i),
           Cardinality(G) \in Nat, Cardinality(E) \in Nat, Cardinality(G) <= Cardinality(E),
           G = E \/ (Cardinality(G) >= limit /\ Cardinality(E) > limit)
    PROVE  LET all == NewestFirst(G)
           IN  (IF Len(all) > limit THEN SubSeq(all, 1, limit) ELSE all)
               = SubSeq(NewestFirst(E), 1, Min({limit, Len(NewestFirst(E))}))
<1>1. PICK g \in Nat : g = Cardinality(G)
    OBVIOUS
<1>2. PICK n \in Nat : n = Cardinality(E) /\ g <= n
    BY <1>1
<1>3. PICK P : P = NewestFirst(G)
    OBVIOUS
<1>4. PICK Q : Q = NewestFirst(E)
    OBVIOUS
<1>5. PICK S : S = {The(Ranked(G, i)) : i \in 1..g} \cup {The(Ranked(E, i)) : i \in 1..n}
    OBVIOUS
<1>6. P = [i \in 1..g |-> The(Ranked(G, i))] /\ P \in Seq(S)
    BY <1>1, <1>3, <1>5 DEF NewestFirst
<1>7. Q = [i \in 1..n |-> The(Ranked(E, i))] /\ Q \in Seq(S)
    BY <1>2, <1>4, <1>5 DEF NewestFirst
<1>8. Len(P) = g /\ Len(Q) = n
    BY <1>6, <1>7
<1>9. PICK m \in Nat : m = IF limit <= n THEN limit ELSE n
    OBVIOUS
<1>10. Min({limit, n}) = m
    BY <1>9 DEF Min
<1>11. SubSeq(Q, 1, m) = [i \in 1..m |-> The(Ranked(E, i))]
    <2>1. m <= n
        BY <1>9
    <2>2. SubSeq(Q, 1, m) = [i \in 1..m |-> Q[i]]
        BY <1>7, <1>8, <2>1
    <2>3. \A i \in 1..m : Q[i] = The(Ranked(E, i))
        BY <1>7, <2>1
    <2> QED BY <2>2, <2>3
<1>12. CASE g > limit
    <2>1. m = limit
        BY <1>2, <1>9, <1>12
    <2>2. SubSeq(P, 1, limit) = [i \in 1..limit |-> P[i]]
        BY <1>6, <1>8, <1>12
    <2>3. \A i \in 1..limit : P[i] = The(Ranked(E, i))
        BY <1>6, <1>12
    <2>4. SubSeq(P, 1, limit) = SubSeq(Q, 1, m)
        BY <1>11, <2>1, <2>2, <2>3
    <2> QED BY <1>3, <1>4, <1>8, <1>10, <1>12, <2>4
<1>13. CASE ~(g > limit)
    <2>1. m = g
        BY <1>1, <1>2, <1>9, <1>13
    <2>2. \A i \in 1..g : The(Ranked(G, i)) = The(Ranked(E, i))
        <3>1. \A i \in 1..g : i \in 1..limit
            BY <1>13
        <3> QED BY <3>1
    <2>3. P = SubSeq(Q, 1, m)
        BY <1>6, <1>11, <2>1, <2>2
    <2> QED BY <1>3, <1>4, <1>8, <1>10, <1>13, <2>3
<1> QED BY <1>12, <1>13

(* Distinct attributes, none of them called like one of cbox-init's own.   *)
GoodKeys(keys) ==
    /\ IsInjective(keys)
    /\ \A k \in Range(keys) : ~(k.app = 0 /\ k.name \in Reserved)

KeySet == [name : STRING, app : Nat]

LEMMA FreeKey ==
    ASSUME NEW data, IsFiniteSet(DOMAIN data), DOMAIN data \subseteq KeySet,
           NEW key \in DOMAIN data, key.app = 0, key.name \in Reserved
    PROVE  /\ attrKey(key, data) \in KeySet /\ attrKey(key, data) \notin DOMAIN data
           /\ attrKey(key, data).name = key.name /\ attrKey(key, data).app > 0
<1>1. PICK N \in Nat : N = Cardinality(DOMAIN data)
    BY FS_CardinalityType
<1> DEFINE under(n) == [key EXCEPT !.app = n]
           T == {n \in 1..(N + 1) : under(n) \notin DOMAIN data}
<1>2. key \in KeySet
    OBVIOUS
<1>3. \A n \in Nat : under(n) \in KeySet /\ under(n).app = n /\ under(n).name = key.name
    BY <1>2 DEF KeySet
<1>4. T # {}
    <2> SUFFICES ASSUME T = {} PROVE FALSE
        OBVIOUS
    <2> DEFINE f == [n \in 1..(N + 1) |-> under(n)]
    <2>1. f \in [1..(N + 1) -> DOMAIN data]
        OBVIOUS
    <2>2. IsFiniteSet(1..(N + 1)) /\ Cardinality(1..(N + 1)) = N + 1
        <3>1. 1 \in Int /\ N + 1 \in Int /\ ~(1 > N + 1) /\ (N + 1) - 1 + 1 = N + 1
            OBVIOUS
        <3> QED BY <3>1, FS_Interval
    <2>3. Cardinality(DOMAIN data) < Cardinality(1..(N + 1))
        BY <1>1, <2>2
    <2> HIDE DEF f
    <2>4. PICK x, y \in 1..(N + 1) : x # y /\ f[x] = f[y]
        BY <2>1, <2>2, <2>3, FS_PigeonHole
    <2>5. under(x) = under(y) /\ x \in Nat /\ y \in Nat
        BY <2>4 DEF f
    <2> HIDE DEF under
    <2> QED BY <1>3, <2>4, <2>5
<1>5. PICK m \in T : \A n \in T : m <= n
    <2>1. T \subseteq Nat
        OBVIOUS
    <2> HIDE DEF T
    <2> QED BY <1>4, <2>1, LeastNat
<1>6. Min(T) \in T
    <2> HIDE DEF T
    <2> QED BY <1>5 DEF Min
<1>7. attrKey(key, data) = under(Min(T))
    BY <1>1 DEF attrKey
<1>8. Min(T) \in Nat /\ Min(T) > 0 /\ under(Min(T)) \notin DOMAIN data
    <2>1. PICK n : n = Min(T) /\ n \in T
        BY <1>6
    <2> QED BY <2>1
<1> HIDE DEF under, T
<1> QED BY <1>3, <1>7, <1>8

LEMMA SameKey ==
    ASSUME NEW data, NEW key, key.app # 0 \/ key.name \notin Reserved
    PROVE  attrKey(key, data) = key
BY DEF attrKey

LEMMA AttrKeysGood ==
    ASSUME NEW data, IsFiniteSet(DOMAIN data), DOMAIN data \subseteq KeySet
    PROVE  GoodKeys([k \in DOMAIN data |-> attrKey(k, data)])
<1> DEFINE own(k) == k.app = 0 /\ k.name \in Reserved
           f == [k \in DOMAIN data |-> attrKey(k, data)]
<1>1. ASSUME NEW k \in DOMAIN data, own(k)
      PROVE  f[k] \in KeySet /\ f[k] \notin DOMAIN data /\ f[k].name = k.name /\ f[k].app > 0
    BY <1>1, FreeKey
<1>2. ASSUME NEW k \in DOMAIN data, ~own(k) PROVE f[k] = k
    BY <1>2, SameKey
<1>3. DOMAIN f = DOMAIN data
    OBVIOUS
<1> HIDE DEF f
<1>4. ASSUME NEW a \in DOMAIN data, NEW b \in DOMAIN data, f[a] = f[b] PROVE a = b
    <2>1. CASE own(a) /\ own(b)
        <3>1. a.name = b.name /\ a.app = b.app
            BY <1>1, <1>4, <2>1
        <3>2. a \in KeySet /\ b \in KeySet
            OBVIOUS
        <3> QED BY <3>1, <3>2 DEF KeySet
    <2>2. CASE own(a) /\ ~own(b)
        BY <1>1, <1>2, <1>4, <2>2
    <2>3. CASE ~own(a) /\ own(b)
        BY <1>1, <1>2, <1>4, <2>3
    <2>4. CASE ~own(a) /\ ~own(b)
        BY <1>2, <1>4, <2>4
    <2> QED BY <2>1, <2>2, <2>3, <2>4
<1>5. IsInjective(f)
    BY <1>3, <1>4 DEF IsInjective
<1>6. ASSUME NEW k \in DOMAIN data PROVE ~own(f[k])
    <2>1. CASE own(k)
        <3>1. f[k] \in KeySet /\ f[k].app > 0
            BY <1>1, <2>1
        <3> QED BY <3>1 DEF KeySet
    <2>2. CASE ~own(k)
        BY <1>2, <2>2
    <2> QED BY <2>1, <2>2
<1>7. \A k \in Range(f) : ~own(k)
    BY <1>3, <1>6 DEF Range
<1> QED BY <1>5, <1>7 DEF GoodKeys, f

LEMMA NoKeysGood ==
    ASSUME NEW f, DOMAIN f = {} PROVE GoodKeys(f)
BY DEF GoodKeys, IsInjective, Range

LEMMA ParsedKeysGood ==
    ASSUME NEW text
    PROVE  GoodKeys(Parse(text).keys)
<1>1. CASE IsJSON(text)
    <2>1. PICK kind \in DOMAIN Object : kind = text[1].kind
        BY <1>1 DEF IsJSON
    <2>2. IsFiniteSet(DOMAIN Object[kind]) /\ DOMAIN Object[kind] \subseteq KeySet
        BY OutputAssumption DEF KeySet
    <2>3. PICK data : data = Object[kind]
        OBVIOUS
    <2> DEFINE unnamed == Without(data, Lifted(data, config.json.messageFields))
               level   == Lifted(unnamed, config.json.levelFields)
               rest    == Without(unnamed, level)
    <2>4. DOMAIN unnamed \subseteq DOMAIN data
        BY DEF Without
    <2> HIDE DEF unnamed
    <2>5. DOMAIN rest \subseteq DOMAIN unnamed
        BY DEF Without
    <2> HIDE DEF level, rest
    <2>6. IsFiniteSet(DOMAIN rest) /\ DOMAIN rest \subseteq KeySet
        BY <2>2, <2>3, <2>4, <2>5, FS_Subset
    <2>7. Parse(text).keys
             = [k \in IF config.json.mergeFields THEN DOMAIN rest ELSE {} |-> attrKey(k, rest)]
        BY <1>1, <2>1, <2>3 DEF Parse, ToLogAttrs, unnamed, level, rest
    <2>8. CASE config.json.mergeFields
        BY <2>6, <2>7, <2>8, AttrKeysGood
    <2>9. CASE ~config.json.mergeFields
        <3>1. DOMAIN Parse(text).keys = {}
            BY <2>7, <2>9
        <3> QED BY <3>1, NoKeysGood
    <2> QED BY <2>8, <2>9
<1>2. CASE ~IsJSON(text)
    <2>1. Parse(text).keys = <<>>
        BY <1>2 DEF Parse
    <2>2. DOMAIN <<>> = {}
        OBVIOUS
    <2> QED BY <2>1, <2>2, NoKeysGood
<1> QED BY <1>1, <1>2

---------------------------------------------------------------------------
(* The log of one stream: its entries, the ring, and the entry on its way  *)
(* to the subscribers.                                                     *)
Logged(s) ==
    /\ IsSequence(added[s])
    /\ \A i \in DOMAIN added[s] :
          /\ "time" \in DOMAIN added[s][i] /\ added[s][i].stream = s
          /\ added[s][i].time \in 1..clock /\ GoodKeys(added[s][i].keys)
    /\ \A i, j \in DOMAIN added[s] : i < j => added[s][i].time < added[s][j].time
    /\ RingOf(ring[s], added[s])
    /\ sending[s] # None => Len(added[s]) > 0 /\ sending[s] = added[s][Len(added[s])]

Follows(s) ==
    LET got  == sub.got[s]
        owed == SubSeq(added[s], sub.from[s] + 1, Sent(s))
    IN  /\ IsSequence(got) /\ sub.from[s] \in Nat /\ sub.from[s] <= Sent(s)
        /\ \A i \in DOMAIN got : got[i] \in Range(owed)
        /\ \A i, j \in DOMAIN got : i < j => got[i].time < got[j].time
        /\ sub.live /\ ~sub.lost /\ sub.filter # "other" => got = owed
        /\ sub.filter = "other" => got = <<>>

ReaderType ==
    /\ clock \in Nat
    /\ DOMAIN added = Streams /\ DOMAIN ring = Streams /\ DOMAIN sending = Streams
    /\ config.bound.clients \subseteq {"", "this", "other"}
    /\ DOMAIN sub = {"live", "filter", "from", "got", "queued", "lost"}
    /\ DOMAIN sub.got = Streams /\ DOMAIN sub.from = Streams
    /\ sub.filter \in {"", "this", "other"}
    /\ ~sub.live => sub = NoSubscriber

(* No two entries have the same time.                                      *)
TimesDiffer ==
    \A s, x \in Streams : \A i \in DOMAIN added[s], j \in DOMAIN added[x] :
        s # x => added[s][i].time # added[x][j].time

Readable == ReaderType /\ TimesDiffer /\ \A s \in Streams : Logged(s) /\ Follows(s)

logVars == <<config, ring, added, sending, clock, sub>>

LEMMA SameLog ==
    ASSUME Readable, UNCHANGED logVars
    PROVE  Readable'
<1>0. UNCHANGED <<config, ring, added, sending, clock, sub>>
    BY DEF logVars
<1>1. ReaderType' /\ TimesDiffer'
    <2>1. ReaderType'
        BY <1>0 DEF Readable, ReaderType, NoSubscriber
    <2>2. TimesDiffer'
        BY <1>0 DEF Readable, TimesDiffer
    <2> QED BY <2>1, <2>2
<1>2. ASSUME NEW s \in Streams PROVE Logged(s)' /\ Follows(s)'
    <2>1. Logged(s) /\ Follows(s)
        BY DEF Readable
    <2>2. Sent(s)' = Sent(s)
        BY DEF Sent, logVars
    <2>3. Logged(s)'
        BY <2>1 DEF Logged, logVars
    <2>4. Follows(s)'
        BY <2>1, <2>2 DEF Follows, logVars
    <2> QED BY <2>3, <2>4
<1> QED BY <1>1, <1>2 DEF Readable

(* What z has of a, without its first entries.                             *)
IsPart(z, a, from, to) ==
    /\ IsSequence(z) /\ Len(z) = to - from /\ DOMAIN z = 1..(to - from)
    /\ \A i \in 1..(to - from) : z[i] = a[from + i]
    /\ \A i \in (from + 1)..to : a[i] \in Range(z)
    /\ \A y \in Range(z) : \E i \in (from + 1)..to : y = a[i]

Part(a, from, to) == SubSeq(a, from + 1, to)

LEMMA OwedFacts ==
    ASSUME NEW a, IsSequence(a), NEW from \in Nat, NEW to \in Nat, from <= to, to <= Len(a)
    PROVE  IsPart(Part(a, from, to), a, from, to)
<1>1. PICK n \in Nat : n = Len(a) /\ DOMAIN a = 1..n
    BY SequenceFacts
<1>2. PICK S : S = Range(a)
    OBVIOUS
<1>3. a \in Seq(S)
    BY <1>2 DEF IsSequence
<1>4. PICK d \in Nat : d = to - from
    OBVIOUS
<1>5. PICK z : z = SubSeq(a, from + 1, to)
    OBVIOUS
<1>6. /\ z \in Seq(S) /\ Len(z) = d /\ DOMAIN z = 1..d
      /\ \A i \in 1..d : z[i] = a[from + i]
    <2>1. from + 1 \in Int /\ to \in Int /\ from + 1 >= 1 /\ to <= Len(a)
        OBVIOUS
    <2>2. z \in Seq(S)
        BY <1>1, <1>3, <1>5, <2>1
    <2>3. Len(z) = d
        BY <1>1, <1>3, <1>4, <1>5, <2>1
    <2>4. \A i \in 1..d : z[i] = a[from + i]
        BY <1>1, <1>3, <1>4, <1>5, <2>1
    <2> QED BY <2>2, <2>3, <2>4
<1>7. z = [i \in 1..d |-> a[from + i]]
    BY <1>6
<1>8. z \in Seq(Range(z))
    <2>1. \A i \in 1..d : z[i] \in Range(z)
        BY <1>6 DEF Range
    <2> QED BY <1>6, <2>1
<1>9. Range(z) = {a[i] : i \in (from + 1)..to}
    <2>1. Range(z) = {z[i] : i \in 1..d}
        BY <1>6 DEF Range
    <2>2. ASSUME NEW i \in 1..d PROVE z[i] \in {a[j] : j \in (from + 1)..to}
        <3>1. from + i \in (from + 1)..to
            BY <1>4
        <3> QED BY <1>6, <3>1
    <2>3. ASSUME NEW j \in (from + 1)..to PROVE a[j] \in {z[i] : i \in 1..d}
        <3>1. j - from \in 1..d /\ from + (j - from) = j
            BY <1>4
        <3>2. z[j - from] = a[j]
            BY <1>6, <3>1
        <3> QED BY <3>1, <3>2
    <2> QED BY <2>1, <2>2, <2>3
<1>10. \A i \in (from + 1)..to : a[i] \in Range(z)
    BY <1>9
<1>11. \A y \in Range(z) : \E i \in (from + 1)..to : y = a[i]
    BY <1>9
<1>12. IsSequence(z)
    BY <1>8 DEF IsSequence
<1> QED BY <1>4, <1>5, <1>6, <1>10, <1>11, <1>12 DEF IsPart, Part

LEMMA SentFacts ==
    ASSUME NEW s \in Streams, Logged(s)
    PROVE  Sent(s) \in Nat /\ Sent(s) <= Len(added[s])
<1>1. PICK n \in Nat : n = Len(added[s])
    BY SequenceFacts DEF Logged
<1>2. sending[s] # None => n > 0
    BY <1>1 DEF Logged
<1>3. CASE sending[s] = None
    BY <1>1, <1>3 DEF Sent
<1>4. CASE sending[s] # None
    <2>1. Sent(s) = n - 1 /\ n > 0
        BY <1>1, <1>2, <1>4 DEF Sent
    <2> QED BY <1>1, <2>1
<1> QED BY <1>3, <1>4

(* An entry is put in the ring and not sent yet.                           *)
LEMMA LogKeeps ==
    ASSUME Readable, NEW s \in Streams, sending[s] = None, NEW e, Log(s, e), e # None,
           "time" \in DOMAIN e, e.stream = s, e.time = clock + 1, GoodKeys(e.keys),
           config' = config, sub' = sub
    PROVE  Readable'
<1>0. ReaderType /\ TimesDiffer /\ Logged(s) /\ Follows(s)
    BY DEF Readable
<1>1. PICK a : a = added[s]
    OBVIOUS
<1>2. PICK n \in Nat : n = Len(a) /\ DOMAIN a = 1..n /\ IsSequence(a)
    BY <1>0, <1>1, SequenceFacts DEF Logged
<1>3. PICK c : c = Append(a, e)
    OBVIOUS
<1>4. /\ IsSequence(c) /\ Len(c) = n + 1 /\ DOMAIN c = 1..(n + 1)
      /\ c[n + 1] = e /\ \A i \in 1..n : c[i] = a[i]
    <2>1. IsSequence(c) /\ Len(c) = n + 1 /\ c[n + 1] = e /\ \A i \in 1..n : c[i] = a[i]
        BY <1>2, <1>3, AppendFacts
    <2> QED BY <2>1, SequenceFacts
<1>5. /\ added' = [added EXCEPT ![s] = c] /\ ring' = [ring EXCEPT ![s] = AddToRing(ring[s], e)]
      /\ sending' = [sending EXCEPT ![s] = e] /\ clock' = clock + 1
    BY <1>1, <1>3 DEF Log
<1>6. /\ DOMAIN added' = Streams /\ DOMAIN ring' = Streams /\ DOMAIN sending' = Streams
      /\ added'[s] = c /\ ring'[s] = AddToRing(ring[s], e) /\ sending'[s] = e
      /\ \A x \in Streams \ {s} : /\ added'[x] = added[x] /\ ring'[x] = ring[x]
                                  /\ sending'[x] = sending[x]
    BY <1>0, <1>5 DEF ReaderType
<1>7. PICK now \in Nat : now = clock
    BY <1>0 DEF ReaderType
<1>8. ReaderType'
    <2>1. clock' \in Nat
        BY <1>5, <1>7
    <2> QED BY <1>0, <1>6, <2>1 DEF ReaderType, NoSubscriber
<1>9. Logged(s)'
    <2>1. \A i \in 1..n : /\ "time" \in DOMAIN a[i] /\ a[i].stream = s /\ a[i].time \in 1..now
                          /\ GoodKeys(a[i].keys)
        BY <1>0, <1>1, <1>2, <1>7 DEF Logged
    <2>2. ASSUME NEW i \in 1..(n + 1)
          PROVE  /\ "time" \in DOMAIN c[i] /\ c[i].stream = s /\ c[i].time \in 1..(now + 1)
                 /\ GoodKeys(c[i].keys)
        <3>1. CASE i \in 1..n
            <4>1. a[i].time \in 1..(now + 1)
                BY <2>1, <3>1
            <4> QED BY <1>4, <2>1, <3>1, <4>1
        <3>2. CASE i = n + 1
            <4>1. now + 1 \in 1..(now + 1)
                OBVIOUS
            <4> QED BY <1>4, <1>7, <3>2, <4>1
        <3> QED BY <3>1, <3>2
    <2>3. ASSUME NEW i \in 1..(n + 1), NEW j \in 1..(n + 1), i < j PROVE c[i].time < c[j].time
        <3>0. i \in 1..n /\ c[i] = a[i] /\ a[i].time \in 1..now
            BY <1>4, <2>1, <2>3
        <3>1. CASE j \in 1..n
            BY <1>0, <1>1, <1>2, <1>4, <2>3, <3>0, <3>1 DEF Logged
        <3>2. CASE j = n + 1
            <4>1. c[j].time = now + 1
                BY <1>4, <1>7, <3>2
            <4> QED BY <3>0, <4>1
        <3> QED BY <3>1, <3>2
    <2>4. RingOf(AddToRing(ring[s], e), c)
        BY <1>0, <1>1, <1>2, <1>3, RingAdds DEF Logged
    <2>5. Len(c) > 0 /\ e = c[Len(c)]
        BY <1>4
    <2> QED BY <1>4, <1>5, <1>6, <1>7, <2>2, <2>3, <2>4, <2>5 DEF Logged
<1>10. Follows(s)'
    <2>1. Sent(s) = n
        BY <1>1, <1>2 DEF Sent
    <2>2. Sent(s)' = n
        <3>1. Sent(s)' = (n + 1) - 1
            BY <1>4, <1>6 DEF Sent
        <3> QED BY <3>1
    <2>3. PICK from \in Nat : from = sub.from[s] /\ from <= n
        BY <1>0, <2>1 DEF Follows
    <2>4. SubSeq(c, from + 1, n) = SubSeq(a, from + 1, n)
        <3>1. n <= Len(a) /\ n <= Len(c)
            BY <1>2, <1>4
        <3>2. PICK y : y = Part(a, from, n)
            OBVIOUS
        <3>3. PICK z : z = Part(c, from, n)
            OBVIOUS
        <3>4. /\ IsSequence(y) /\ DOMAIN y = 1..(n - from)
              /\ \A i \in 1..(n - from) : y[i] = a[from + i]
            <4>1. IsPart(y, a, from, n)
                BY <1>2, <2>3, <3>1, <3>2, OwedFacts
            <4> QED BY <4>1 DEF IsPart
        <3>5. /\ IsSequence(z) /\ DOMAIN z = 1..(n - from)
              /\ \A i \in 1..(n - from) : z[i] = c[from + i]
            <4>1. IsPart(z, c, from, n)
                BY <1>4, <2>3, <3>1, <3>3, OwedFacts
            <4> QED BY <4>1 DEF IsPart
        <3>6. \A i \in 1..(n - from) : from + i \in 1..n
            BY <2>3
        <3>7. \A i \in 1..(n - from) : z[i] = y[i]
            BY <1>4, <3>4, <3>5, <3>6
        <3>8. y = [i \in 1..(n - from) |-> y[i]] /\ z = [i \in 1..(n - from) |-> z[i]]
            BY <3>4, <3>5 DEF IsSequence
        <3> QED BY <3>2, <3>3, <3>7, <3>8 DEF Part
    <2> QED BY <1>0, <1>1, <1>6, <2>1, <2>2, <2>3, <2>4 DEF Follows
<1>11. ASSUME NEW x \in Streams, x # s PROVE Logged(x)' /\ Follows(x)'
    <2>0. Logged(x) /\ Follows(x)
        BY DEF Readable
    <2>1. added'[x] = added[x] /\ ring'[x] = ring[x] /\ sending'[x] = sending[x]
        BY <1>6, <1>11
    <2>2. \A y \in 1..clock : y \in 1..clock'
        BY <1>5, <1>7
    <2>3. Logged(x)'
        BY <2>0, <2>1, <2>2 DEF Logged
    <2>4. Sent(x)' = Sent(x)
        BY <2>1 DEF Sent
    <2>5. Follows(x)'
        BY <2>0, <2>1, <2>4 DEF Follows
    <2> QED BY <2>3, <2>5
<1>12. TimesDiffer'
    <2>1. ASSUME NEW x \in Streams, x # s, NEW i \in 1..(n + 1), NEW j \in DOMAIN added[x]
          PROVE  c[i].time # added[x][j].time
        <3>1. added[x][j].time \in 1..now
            BY <1>7 DEF Readable, Logged
        <3>2. CASE i \in 1..n
            BY <1>0, <1>1, <1>2, <1>4, <2>1, <3>2 DEF TimesDiffer
        <3>3. CASE i = n + 1
            <4>1. c[i].time = now + 1
                BY <1>4, <1>7, <3>3
            <4> QED BY <3>1, <4>1
        <3> QED BY <3>2, <3>3
    <2> QED BY <1>0, <1>4, <1>6, <2>1 DEF TimesDiffer
<1> QED BY <1>8, <1>9, <1>10, <1>11, <1>12 DEF Readable

(* The entry goes to the subscribers.                                      *)
LEMMA DeliverKeeps ==
    ASSUME Readable, NEW s \in Streams, Deliver(s)
    PROVE  Readable'
<1>0. ReaderType /\ TimesDiffer /\ Logged(s) /\ Follows(s)
    BY DEF Readable
<1>1. /\ sending[s] # None /\ sub' = Broadcast(sending[s]) /\ sending' = [sending EXCEPT ![s] = None]
      /\ UNCHANGED <<config, ring, added, clock>>
    BY DEF Deliver
<1>2. PICK a : a = added[s]
    OBVIOUS
<1>3. PICK n \in Nat : n = Len(a) /\ DOMAIN a = 1..n /\ IsSequence(a) /\ n > 0
    BY <1>0, <1>1, <1>2, SequenceFacts DEF Logged
<1>4. PICK e : e = sending[s] /\ e = a[n] /\ e.stream = s
    <2>1. n \in DOMAIN a /\ sending[s] = a[n]
        BY <1>0, <1>1, <1>2, <1>3 DEF Logged
    <2> QED BY <1>0, <1>2, <2>1 DEF Logged
<1>5. /\ DOMAIN sending' = Streams /\ sending'[s] = None
      /\ \A x \in Streams \ {s} : sending'[x] = sending[x]
    BY <1>0, <1>1 DEF ReaderType
<1>6. /\ DOMAIN sub' = {"live", "filter", "from", "got", "queued", "lost"}
      /\ DOMAIN sub'.got = Streams /\ sub'.from = sub.from /\ sub'.filter = sub.filter
      /\ sub'.live = sub.live /\ (sub.lost => sub'.lost)
      /\ \A x \in Streams \ {s} : sub'.got[x] = sub.got[x]
      /\ \/ sub' = sub /\ (~sub.live \/ sub.filter = "other")
         \/ /\ sub.live /\ sub'.got[s] = Append(sub.got[s], e) /\ sub.filter # "other"
            /\ sub'.lost = sub.lost
         \/ sub.live /\ sub'.got[s] = sub.got[s] /\ sub'.lost = TRUE /\ sub.filter # "other"
    <2>0. /\ DOMAIN sub = {"live", "filter", "from", "got", "queued", "lost"}
          /\ DOMAIN sub.got = Streams /\ sub.filter \in {"", "this", "other"}
        BY <1>0 DEF ReaderType
    <2>1. CASE ~sub.live \/ sub.filter \notin {"", "this"}
        BY <1>1, <2>0, <2>1 DEF Broadcast
    <2>2. CASE sub.live /\ sub.filter \in {"", "this"} /\ sub.queued < ChannelSize
        <3>1. sub' = [sub EXCEPT !.got = [sub.got EXCEPT ![s] = Append(sub.got[s], e)],
                                 !.queued = @ + 1]
            BY <1>1, <1>4, <2>0, <2>2 DEF Broadcast
        <3>2. PICK g : g = [sub.got EXCEPT ![s] = Append(sub.got[s], e)]
            OBVIOUS
        <3>3. sub'.got = g /\ DOMAIN sub' = DOMAIN sub
            BY <2>0, <3>1, <3>2
        <3>4. /\ sub'.from = sub.from /\ sub'.filter = sub.filter /\ sub'.live = sub.live
              /\ sub'.lost = sub.lost
            BY <2>0, <3>1
        <3>5. /\ DOMAIN g = Streams /\ g[s] = Append(sub.got[s], e)
              /\ \A x \in Streams \ {s} : g[x] = sub.got[x]
            BY <2>0, <3>2
        <3> QED BY <2>0, <2>2, <3>3, <3>4, <3>5
    <2>3. CASE sub.live /\ sub.filter \in {"", "this"} /\ ~(sub.queued < ChannelSize)
        <3>1. sub' = [sub EXCEPT !.lost = TRUE]
            BY <1>1, <2>3 DEF Broadcast
        <3>2. /\ sub'.from = sub.from /\ sub'.filter = sub.filter /\ sub'.live = sub.live
              /\ sub'.got = sub.got /\ sub'.lost = TRUE /\ DOMAIN sub' = DOMAIN sub
            BY <2>0, <3>1
        <3> QED BY <2>0, <2>3, <3>2
    <2> QED BY <2>0, <2>1, <2>2, <2>3
<1>7. ReaderType'
    BY <1>0, <1>1, <1>5, <1>6 DEF ReaderType, NoSubscriber
<1>8. TimesDiffer'
    BY <1>0, <1>1 DEF TimesDiffer
<1>9. Logged(s)'
    BY <1>0, <1>1, <1>5 DEF Logged
<1>10. ASSUME NEW x \in Streams, x # s PROVE Logged(x)' /\ Follows(x)'
    <2>0. Logged(x) /\ Follows(x)
        BY DEF Readable
    <2>1. sending'[x] = sending[x] /\ sub'.got[x] = sub.got[x]
        BY <1>5, <1>6, <1>10
    <2>2. Logged(x)'
        BY <1>1, <2>0, <2>1 DEF Logged
    <2>3. Sent(x)' = Sent(x)
        BY <1>1, <2>1 DEF Sent
    <2>4. SubSeq(added[x], sub.from[x] + 1, Sent(x))' = SubSeq(added[x], sub.from[x] + 1, Sent(x))
        BY <1>1, <1>6, <2>3
    <2>5. Follows(x)'
        BY <1>1, <1>6, <2>0, <2>1, <2>3, <2>4 DEF Follows
    <2> QED BY <2>2, <2>5
<1>11. Follows(s)'
    <2>1. Sent(s) = n - 1
        BY <1>1, <1>2, <1>3 DEF Sent
    <2>2. Sent(s)' = n
        BY <1>1, <1>2, <1>3, <1>5 DEF Sent
    <2>3. PICK from \in Nat : from = sub.from[s] /\ from <= n - 1
        BY <1>0, <2>1 DEF Follows
    <2>4. PICK old : old = Part(a, from, n - 1)
        OBVIOUS
    <2>5. PICK new : new = Part(a, from, n)
        OBVIOUS
    <2>6. PICK d \in Nat : d = n - 1 - from
        BY <2>3
    <2>7. /\ IsSequence(old) /\ Len(old) = d /\ \A i \in 1..d : old[i] = a[from + i]
          /\ \A y \in Range(old) : \E i \in (from + 1)..(n - 1) : y = a[i]
        <3>1. n - 1 \in Nat /\ n - 1 <= Len(a)
            BY <1>3
        <3>2. IsPart(old, a, from, n - 1)
            BY <1>3, <2>3, <2>4, <3>1, OwedFacts
        <3> QED BY <2>6, <3>2 DEF IsPart
    <2>8. /\ IsSequence(new) /\ Len(new) = d + 1 /\ DOMAIN new = 1..(d + 1)
          /\ \A i \in 1..(d + 1) : new[i] = a[from + i]
          /\ \A i \in (from + 1)..n : a[i] \in Range(new)
        <3>1. n - from = d + 1 /\ n <= Len(a) /\ from <= n
            BY <1>3, <2>3, <2>6
        <3>2. IsPart(new, a, from, n)
            BY <1>3, <2>3, <2>5, <3>1, OwedFacts
        <3> QED BY <3>1, <3>2 DEF IsPart
    <2>9. Range(old) \subseteq Range(new) /\ e \in Range(new)
        <3>1. \A i \in (from + 1)..(n - 1) : i \in (from + 1)..n
            OBVIOUS
        <3>2. n \in (from + 1)..n
            BY <2>3
        <3> QED BY <1>4, <2>7, <2>8, <3>1, <3>2
    <2>10. \A y \in Range(old) : y.time < e.time
        <3>1. ASSUME NEW i \in (from + 1)..(n - 1) PROVE a[i].time < e.time
            <4>1. i \in DOMAIN a /\ n \in DOMAIN a /\ i < n
                BY <1>3
            <4> QED BY <1>0, <1>2, <1>4, <4>1 DEF Logged
        <3> QED BY <2>7, <3>1
    <2>11. PICK got : got = sub.got[s]
        OBVIOUS
    <2>12. /\ IsSequence(got) /\ \A i \in DOMAIN got : got[i] \in Range(old)
           /\ \A i, j \in DOMAIN got : i < j => got[i].time < got[j].time
           /\ sub.live /\ ~sub.lost /\ sub.filter # "other" => got = old
           /\ sub.filter = "other" => got = <<>>
        BY <1>0, <1>2, <2>1, <2>3, <2>4, <2>11 DEF Follows, Part
    <2>13. /\ SubSeq(added[s], sub.from[s] + 1, Sent(s))' = new /\ sub'.from[s] = from
           /\ from <= Sent(s)'
        BY <1>1, <1>2, <1>6, <2>2, <2>3, <2>5 DEF Part
    <2>14. CASE sub' = sub /\ (~sub.live \/ sub.filter = "other")
        BY <2>9, <2>11, <2>12, <2>13, <2>14 DEF Follows
    <2>15. CASE sub.live /\ sub'.got[s] = got /\ sub'.lost = TRUE /\ sub.filter # "other"
        BY <1>6, <2>9, <2>12, <2>13, <2>15 DEF Follows
    <2>16. CASE /\ sub.live /\ sub'.got[s] = Append(got, e) /\ sub.filter # "other"
                /\ sub'.lost = sub.lost
        <3>1. PICK g : g = Append(got, e)
            OBVIOUS
        <3>2. PICK m \in Nat : m = Len(got) /\ DOMAIN got = 1..m
            BY <2>12, SequenceFacts
        <3>3. /\ IsSequence(g) /\ Len(g) = m + 1 /\ DOMAIN g = 1..(m + 1)
              /\ g[m + 1] = e /\ \A i \in 1..m : g[i] = got[i]
            <4>1. /\ IsSequence(g) /\ Len(g) = m + 1 /\ g[m + 1] = e
                  /\ \A i \in 1..m : g[i] = got[i]
                BY <2>12, <3>1, <3>2, AppendFacts
            <4> QED BY <4>1, SequenceFacts
        <3>4. ASSUME NEW i \in 1..(m + 1) PROVE g[i] \in Range(new)
            <4>1. CASE i \in 1..m
                BY <2>9, <2>12, <3>2, <3>3, <4>1
            <4>2. CASE i = m + 1
                BY <2>9, <3>3, <4>2
            <4> QED BY <4>1, <4>2
        <3>5. ASSUME NEW i \in 1..(m + 1), NEW j \in 1..(m + 1), i < j PROVE g[i].time < g[j].time
            <4>0. i \in 1..m
                BY <3>5
            <4>1. CASE j \in 1..m
                BY <2>12, <3>2, <3>3, <3>5, <4>0, <4>1
            <4>2. CASE j = m + 1
                BY <2>10, <2>12, <3>2, <3>3, <4>0, <4>2
            <4> QED BY <4>1, <4>2
        <3>6. ASSUME got = old PROVE g = new
            <4>1. m = d
                BY <2>7, <3>2, <3>6
            <4>2. DOMAIN new = 1..(d + 1) /\ \A i \in 1..(d + 1) : new[i] = a[from + i]
                BY <2>8
            <4>3. ASSUME NEW i \in 1..(d + 1) PROVE g[i] = new[i]
                <5>1. CASE i \in 1..d
                    BY <2>7, <3>3, <3>6, <4>1, <4>2, <5>1
                <5>2. CASE i = d + 1
                    <6>1. from + i = n
                        BY <2>6, <5>2
                    <6> QED BY <1>4, <3>3, <4>1, <4>2, <5>2, <6>1
                <5> QED BY <5>1, <5>2
            <4>4. g = [i \in 1..(d + 1) |-> g[i]] /\ new = [i \in 1..(d + 1) |-> new[i]]
                BY <2>8, <3>3, <4>1 DEF IsSequence
            <4> QED BY <4>3, <4>4
        <3> QED BY <1>6, <2>12, <2>13, <2>16, <3>1, <3>3, <3>4, <3>5, <3>6 DEF Follows
    <2> QED BY <1>6, <2>11, <2>14, <2>15, <2>16
<1> QED BY <1>7, <1>8, <1>9, <1>10, <1>11 DEF Readable

(* Nothing is owed to a client that has just subscribed, and to nobody     *)
(* without one.                                                            *)
LEMMA NothingOwed ==
    ASSUME NEW s \in Streams, Logged(s)
    PROVE  SubSeq(added[s], Sent(s) + 1, Sent(s)) = <<>>
<1>1. PICK n \in Nat : n = Sent(s) /\ n <= Len(added[s])
    BY SentFacts
<1>2. IsSequence(added[s]) /\ n <= n
    BY <1>1 DEF Logged
<1>3. PICK z : z = Part(added[s], n, n)
    OBVIOUS
<1>4. IsPart(z, added[s], n, n)
    BY <1>1, <1>2, <1>3, OwedFacts
<1>5. IsSequence(z) /\ Len(z) = 0
    <2>1. Len(z) = n - n /\ IsSequence(z)
        BY <1>4 DEF IsPart
    <2> QED BY <2>1
<1>6. z = <<>>
    <2>1. PICK S : z \in Seq(S)
        BY <1>5 DEF IsSequence
    <2> QED BY <1>5, <2>1
<1> QED BY <1>1, <1>3, <1>6 DEF Part

LEMMA NobodyFacts ==
    /\ NoSubscriber.live = FALSE /\ NoSubscriber.filter = "" /\ NoSubscriber.lost = FALSE
    /\ DOMAIN NoSubscriber = {"live", "filter", "from", "got", "queued", "lost"}
    /\ DOMAIN NoSubscriber.got = Streams /\ DOMAIN NoSubscriber.from = Streams
    /\ \A s \in Streams : NoSubscriber.got[s] = <<>> /\ NoSubscriber.from[s] = 0
BY DEF NoSubscriber

LEMMA EmptyFacts == IsSequence(<<>>) /\ DOMAIN <<>> = {} /\ Len(<<>>) = 0
BY DEF IsSequence

LEMMA SubscribeKeeps ==
    ASSUME Readable, NEW filter \in config.bound.clients, Subscribe(filter)
    PROVE  Readable'
<1>0. ReaderType /\ TimesDiffer
    BY DEF Readable
<1>1. /\ UNCHANGED <<config, ring, added, sending, clock>> /\ sub = NoSubscriber
      /\ sub' = [sub EXCEPT !.live = TRUE, !.filter = filter, !.from = [s \in Streams |-> Sent(s)]]
    BY <1>0 DEF Subscribe, others, ReaderType
<1>2. PICK f : f = [s \in Streams |-> Sent(s)]
    OBVIOUS
<1>3. /\ DOMAIN sub' = {"live", "filter", "from", "got", "queued", "lost"}
      /\ sub'.live = TRUE /\ sub'.filter = filter /\ sub'.from = f
      /\ sub'.got = NoSubscriber.got /\ sub'.lost = FALSE
    <2>1. sub' = [NoSubscriber EXCEPT !.live = TRUE, !.filter = filter, !.from = f]
        BY <1>1, <1>2
    <2> QED BY <2>1, NobodyFacts
<1>4. filter \in {"", "this", "other"}
    BY <1>0 DEF ReaderType
<1>5. ReaderType'
    BY <1>0, <1>1, <1>2, <1>3, <1>4, NobodyFacts DEF ReaderType
<1>6. TimesDiffer'
    BY <1>0, <1>1 DEF TimesDiffer
<1>7. ASSUME NEW s \in Streams PROVE Logged(s)' /\ Follows(s)'
    <2>0. Logged(s)
        BY DEF Readable
    <2>1. Logged(s)'
        BY <1>1, <2>0 DEF Logged
    <2>2. PICK n \in Nat : n = Sent(s)
        BY <2>0, SentFacts
    <2>3. Sent(s)' = n /\ sub'.from[s] = n /\ sub'.got[s] = <<>>
        BY <1>1, <1>2, <1>3, <2>2, NobodyFacts DEF Sent
    <2>4. SubSeq(added[s], sub.from[s] + 1, Sent(s))' = <<>>
        BY <1>1, <2>0, <2>2, <2>3, NothingOwed
    <2>5. n <= n
        OBVIOUS
    <2>6. Follows(s)'
        BY <2>3, <2>4, <2>5, EmptyFacts DEF Follows
    <2> QED BY <2>1, <2>6
<1> QED BY <1>5, <1>6, <1>7 DEF Readable

LEMMA ClientReadsKeeps ==
    ASSUME Readable, ClientReads
    PROVE  Readable'
<1>0. ReaderType /\ TimesDiffer
    BY DEF Readable
<1>1. /\ UNCHANGED <<config, ring, added, sending, clock>> /\ sub.live
      /\ sub' = [sub EXCEPT !.queued = @ - 1]
    BY DEF ClientReads, others
<1>2. /\ DOMAIN sub' = {"live", "filter", "from", "got", "queued", "lost"}
      /\ sub'.live = sub.live /\ sub'.filter = sub.filter /\ sub'.from = sub.from
      /\ sub'.got = sub.got /\ sub'.lost = sub.lost
    BY <1>0, <1>1 DEF ReaderType
<1>3. ReaderType'
    BY <1>0, <1>1, <1>2 DEF ReaderType
<1>4. TimesDiffer'
    BY <1>0, <1>1 DEF TimesDiffer
<1>5. ASSUME NEW s \in Streams PROVE Logged(s)' /\ Follows(s)'
    <2>0. Logged(s) /\ Follows(s)
        BY DEF Readable
    <2>1. Logged(s)'
        BY <1>1, <2>0 DEF Logged
    <2>2. Sent(s)' = Sent(s)
        BY <1>1 DEF Sent
    <2>3. Follows(s)'
        BY <1>1, <1>2, <2>0, <2>2 DEF Follows
    <2> QED BY <2>1, <2>3
<1> QED BY <1>3, <1>4, <1>5 DEF Readable

(* Without a subscriber there is nothing to follow.                        *)
LEMMA NobodyFollows ==
    ASSUME NEW s \in Streams, Logged(s), sub = NoSubscriber
    PROVE  Follows(s)
<1>1. Sent(s) \in Nat /\ sub.from[s] = 0 /\ sub.got[s] = <<>>
    BY SentFacts, NobodyFacts
<1>2. 0 <= Sent(s) /\ 0 \in Nat
    BY <1>1
<1>3. ~sub.live /\ sub.filter # "other"
    BY NobodyFacts
<1>4. IsSequence(<<>>) /\ \A i \in DOMAIN <<>> : FALSE
    BY EmptyFacts
<1>5. IsSequence(sub.got[s]) /\ sub.from[s] \in Nat /\ sub.from[s] <= Sent(s)
    BY <1>1, <1>2, <1>4
<1>6. \A i \in DOMAIN sub.got[s] : FALSE
    BY <1>1, <1>4
<1> QED BY <1>3, <1>5, <1>6 DEF Follows

LEMMA UnsubscribeKeeps ==
    ASSUME Readable, Unsubscribe
    PROVE  Readable'
<1>0. ReaderType /\ TimesDiffer
    BY DEF Readable
<1>1. UNCHANGED <<config, ring, added, sending, clock>> /\ sub' = NoSubscriber
    BY DEF Unsubscribe, others
<1>2. ReaderType'
    BY <1>0, <1>1, NobodyFacts DEF ReaderType
<1>3. TimesDiffer'
    BY <1>0, <1>1 DEF TimesDiffer
<1>4. ASSUME NEW s \in Streams PROVE Logged(s)' /\ Follows(s)'
    <2>0. Logged(s)
        BY DEF Readable
    <2>1. Logged(s)'
        BY <1>1, <2>0 DEF Logged
    <2>2. sub'.from[s] = 0 /\ sub'.got[s] = <<>> /\ sub'.live = FALSE /\ sub'.filter = ""
        BY <1>1, NobodyFacts
    <2>3. Sent(s)' \in Nat
        BY <1>1, <2>0, SentFacts DEF Sent
    <2>4. 0 <= Sent(s)'
        BY <2>3
    <2>5. Follows(s)'
        <3>1. ~sub'.live /\ sub'.filter # "other"
            BY <2>2
        <3>x. IsSequence(<<>>) /\ 0 \in Nat
            BY EmptyFacts
        <3>2. IsSequence(sub'.got[s]) /\ sub'.from[s] \in Nat /\ sub'.from[s] <= Sent(s)'
            BY <2>2, <2>4, <3>x
        <3>3. \A i \in DOMAIN sub'.got[s] : FALSE
            BY <2>2, EmptyFacts
        <3> QED BY <3>1, <3>2, <3>3 DEF Follows
    <2> QED BY <2>1, <2>5
<1> QED BY <1>2, <1>3, <1>4 DEF Readable

LEMMA ReadableInit == OutputInit => Readable
<1> SUFFICES ASSUME OutputInit PROVE Readable
    OBVIOUS
<1>1. /\ clock = 0 /\ sub = NoSubscriber
      /\ added = [s \in Streams |-> <<>>] /\ ring = [s \in Streams |-> EmptyRing]
      /\ sending = [s \in Streams |-> None]
    BY DEF OutputInit
<1>2. config.bound.clients \subseteq {"", "this", "other"}
    <2>1. PICK setup \in Configs : config = NewProcessWriter(setup)
        BY DEF OutputInit
    <2>2. config.bound = setup.bound
        BY <2>1 DEF NewProcessWriter
    <2> QED BY <2>2, OutputAssumption
<1>3. ReaderType
    BY <1>1, <1>2, NobodyFacts DEF ReaderType
<1>4. TimesDiffer
    BY <1>1, EmptyFacts DEF TimesDiffer
<1>5. ASSUME NEW s \in Streams PROVE Logged(s)
    <2>1. added[s] = <<>> /\ ring[s] = EmptyRing /\ sending[s] = None
        BY <1>1
    <2>2. RingOf(EmptyRing, <<>>)
        <3>1. /\ EmptyRing.index = 0 /\ EmptyRing.full = FALSE
              /\ DOMAIN EmptyRing.entries = 0..(RingSize - 1)
            BY DEF EmptyRing
        <3>2. 0 \in 0..(RingSize - 1)
            BY RingBound
        <3>3. Len(<<>>) = 0 /\ 1..0 = {}
            OBVIOUS
        <3> QED BY <3>1, <3>2, <3>3 DEF RingOf
    <2> QED BY <2>1, <2>2, EmptyFacts DEF Logged
<1>6. ASSUME NEW s \in Streams PROVE Follows(s)
    BY <1>1, <1>5, NobodyFollows
<1> QED BY <1>3, <1>4, <1>5, <1>6 DEF Readable

LEMMA ProcessEntryReadable ==
    ASSUME Readable, NEW s \in Streams, processEntry(s)
    PROVE  Readable'
<1>0. sending[s] = None /\ UNCHANGED <<config, sub>>
    BY DEF processEntry
<1>1. PICK text \in {Redact(Head(todo[s]))}, json \in {Parse(Redact(Head(todo[s])))} :
         \E level \in {LevelOf(text, json.stated)} :
            \/ Log(s, [stream |-> s, text |-> text, level |-> level, keys |-> json.keys,
                       time |-> clock + 1])
            \/ UNCHANGED <<ring, added, sending, clock>>
    BY DEF processEntry
<1>2. PICK level : \/ Log(s, [stream |-> s, text |-> text, level |-> level, keys |-> json.keys,
                              time |-> clock + 1])
                   \/ UNCHANGED <<ring, added, sending, clock>>
    BY <1>1
<1> DEFINE e == [stream |-> s, text |-> text, level |-> level, keys |-> json.keys,
                 time |-> clock + 1]
<1>3. /\ "time" \in DOMAIN e /\ e.stream = s /\ e.time = clock + 1 /\ e.keys = json.keys
    OBVIOUS
<1>4. e # None
    <2>1. "stream" \in DOMAIN e /\ "stream" \notin DOMAIN None
        BY DEF None
    <2> QED BY <2>1
<1>5. GoodKeys(json.keys)
    <2>1. json = Parse(Redact(Head(todo[s])))
        OBVIOUS
    <2> QED BY <2>1, ParsedKeysGood
<1>6. Log(s, e) \/ UNCHANGED <<ring, added, sending, clock>>
    BY <1>2
<1> HIDE DEF e
<1>7. CASE Log(s, e)
    BY <1>0, <1>3, <1>4, <1>5, <1>7, LogKeeps
<1>8. CASE UNCHANGED <<ring, added, sending, clock>>
    BY <1>0, <1>8, SameLog DEF logVars
<1> QED BY <1>6, <1>7, <1>8

LEMMA ReadableStep == Readable /\ [OutputNext]_outputVars => Readable'
<1> SUFFICES ASSUME Readable, [OutputNext]_outputVars PROVE Readable'
    OBVIOUS
<1>1. ASSUME NEW s \in Streams, NEW k, WriteToken(s, k) PROVE Readable'
    BY <1>1, SameLog DEF WriteToken, logVars
<1>2. CASE Fork \/ ProcessExits \/ HelperExit
    BY <1>2, SameLog DEF Fork, ProcessExits, HelperExit, logVars
<1>3. ASSUME NEW filter \in config.bound.clients, Subscribe(filter) PROVE Readable'
    BY <1>3, SubscribeKeeps
<1>4. CASE ClientReads \/ Unsubscribe
    BY <1>4, ClientReadsKeeps, UnsubscribeKeeps
<1>5. ASSUME NEW s \in Streams, Work(s) \/ Age(s) PROVE Readable'
    <2>1. CASE processEntry(s)
        BY <2>1, ProcessEntryReadable
    <2>2. CASE Deliver(s)
        BY <2>2, DeliverKeeps
    <2>3. CASE Fire(s) \/ Age(s)
        BY <2>3, SameLog DEF Fire, Age, emission, logVars
    <2>4. CASE Timeout(s) \/ CopyEnds(s) \/ CopierDone(s)
        BY <2>4, SameLog DEF Timeout, CopyEnds, CopierDone, emission, logVars
    <2>5. ASSUME NEW n, Copy(s, n) PROVE Readable'
        BY <2>5, SameLog DEF Copy, emission, logVars
    <2> QED BY <1>5, <2>1, <2>2, <2>3, <2>4, <2>5 DEF Work
<1>6. CASE ExitSteps
    BY <1>6, SameLog DEF ExitSteps, drainOutput, FlushAtExit, ActOnExit, emission, logVars
<1>7. CASE UNCHANGED outputVars
    BY <1>7, SameLog DEF outputVars, logVars
<1> QED BY <1>1, <1>2, <1>3, <1>4, <1>5, <1>6, <1>7 DEF OutputNext, Environment

---------------------------------------------------------------------------
(* The newest m entries of every stream.                                   *)
Newest(m) == UNION {LastOf(added[s], m) : s \in Streams}

LEMMA LastFacts ==
    ASSUME NEW s \in Streams, Logged(s), NEW m \in Nat, NEW y
    PROVE  y \in LastOf(added[s], m) <=>
               \E i \in 1..Len(added[s]) : i > Len(added[s]) - m /\ y = Stored(added[s][i])
BY SequenceFacts DEF LastOf, Logged

LEMMA StoredTime ==
    ASSUME NEW s \in Streams, Logged(s), NEW i \in 1..Len(added[s])
    PROVE  Stored(added[s][i]).time = added[s][i].time /\ added[s][i].time \in 1..clock
<1>1. i \in DOMAIN added[s]
    BY SequenceFacts DEF Logged
<1>2. "time" \in DOMAIN added[s][i] /\ added[s][i].time \in 1..clock
    BY <1>1 DEF Logged
<1> QED BY <1>2 DEF Stored

(* Two entries of the log with one time are one entry.                     *)
LEMMA OneEntryAtATime ==
    ASSUME Readable, NEW s \in Streams, NEW x \in Streams,
           NEW i \in 1..Len(added[s]), NEW j \in 1..Len(added[x]),
           added[s][i].time = added[x][j].time
    PROVE  s = x /\ i = j
<1>0. TimesDiffer /\ Logged(s) /\ Logged(x) /\ clock \in Nat
    BY DEF Readable, ReaderType
<1>1. i \in DOMAIN added[s] /\ j \in DOMAIN added[x] /\ Len(added[s]) \in Nat /\ Len(added[x]) \in Nat
    BY <1>0, SequenceFacts DEF Logged
<1>2. s = x
    BY <1>0, <1>1 DEF TimesDiffer
<1>3. added[s][i].time \in Nat /\ added[s][j].time \in Nat
    BY <1>0, <1>1, <1>2 DEF Logged
<1>4. ~(i < j)
    BY <1>0, <1>1, <1>2, <1>3 DEF Logged
<1>5. ~(j < i)
    BY <1>0, <1>1, <1>2, <1>3 DEF Logged
<1>6. i = j
    BY <1>1, <1>4, <1>5
<1> QED BY <1>2, <1>6

LEMMA NewestFacts ==
    ASSUME Readable
    PROVE  LET E == Newest(RingSize)
           IN  IsFiniteSet(E) /\ \A e \in E : e.time \in Nat
<1> DEFINE E == Newest(RingSize)
<1>0. clock \in Nat /\ RingSize \in Nat
    BY RingBound DEF Readable, ReaderType
<1>1. ASSUME NEW e \in E
      PROVE  \E s \in Streams : \E i \in 1..Len(added[s]) : e = Stored(added[s][i])
    <2>1. PICK s \in Streams : e \in LastOf(added[s], RingSize)
        BY DEF Newest
    <2>2. Logged(s)
        BY DEF Readable
    <2>3. DOMAIN added[s] = 1..Len(added[s])
        BY <2>2, SequenceFacts DEF Logged
    <2> QED BY <2>1, <2>3 DEF LastOf
<1>2. ASSUME NEW e \in E PROVE e.time \in 1..clock
    <2>1. PICK s \in Streams : \E i \in 1..Len(added[s]) : e = Stored(added[s][i])
        BY <1>1
    <2>2. PICK i \in 1..Len(added[s]) : e = Stored(added[s][i])
        BY <2>1
    <2> QED BY <2>2, StoredTime DEF Readable
<1>3. ASSUME NEW d \in E, NEW e \in E, d.time = e.time PROVE d = e
    <2>1. PICK s \in Streams : \E i \in 1..Len(added[s]) : d = Stored(added[s][i])
        BY <1>1
    <2>2. PICK i \in 1..Len(added[s]) : d = Stored(added[s][i])
        BY <2>1
    <2>3. PICK x \in Streams : \E j \in 1..Len(added[x]) : e = Stored(added[x][j])
        BY <1>1
    <2>4. PICK j \in 1..Len(added[x]) : e = Stored(added[x][j])
        BY <2>3
    <2>5. added[s][i].time = added[x][j].time
        BY <1>3, <2>2, <2>4, StoredTime DEF Readable
    <2>6. s = x /\ i = j
        BY <2>5, OneEntryAtATime
    <2> QED BY <2>2, <2>4, <2>6
<1> HIDE DEF E
<1> DEFINE f == [e \in E |-> e.time]
<1>4. f \in Injection(E, 1..clock)
    BY <1>2, <1>3 DEF Injection, IsInjective
<1>5. IsFiniteSet(1..clock)
    BY <1>0, FS_Interval
<1>6. IsFiniteSet(E)
    BY <1>4, <1>5, FS_Injection
<1> QED BY <1>2, <1>6 DEF E

(* Whatever is not among the newest k of its stream, k others of it are    *)
(* newer.                                                                  *)
LEMMA NewerOnes ==
    ASSUME Readable, NEW k \in Nat, k <= RingSize, NEW d \in Newest(RingSize) \ Newest(k)
    PROVE  \E X \in SUBSET Newest(k) : Cardinality(X) = k /\ \A x \in X : x.time > d.time
<1>0. RingSize \in Nat /\ clock \in Nat
    BY RingBound DEF Readable, ReaderType
<1>1. PICK s \in Streams : d \in LastOf(added[s], RingSize)
    BY DEF Newest
<1>2. Logged(s) /\ d \notin LastOf(added[s], k)
    BY DEF Readable, Newest
<1>3. PICK n \in Nat : n = Len(added[s]) /\ DOMAIN added[s] = 1..n
    BY <1>2, SequenceFacts DEF Logged
<1>4. PICK i \in 1..n : d = Stored(added[s][i])
    BY <1>1, <1>3 DEF LastOf
<1>5. i <= n - k
    <2>1. ~(i > n - k)
        BY <1>2, <1>3, <1>4, LastFacts
    <2> QED BY <2>1
<1>6. PICK I : I = (n - k + 1)..n
    OBVIOUS
<1>7. I \subseteq 1..n /\ \A j \in I : i < j /\ j > n - k
    BY <1>5, <1>6
<1>8. IsFiniteSet(I) /\ Cardinality(I) = k
    <2>1. /\ n - k + 1 \in Int /\ n \in Int /\ n - (n - k + 1) + 1 = k
          /\ (n - k + 1 > n => k = 0)
        OBVIOUS
    <2>2. IsFiniteSet(I) /\ Cardinality(I) = IF n - k + 1 > n THEN 0 ELSE n - (n - k + 1) + 1
        BY <1>6, <2>1, FS_Interval
    <2> QED BY <2>1, <2>2
<1>9. PICK f : f = [j \in I |-> Stored(added[s][j])]
    OBVIOUS
<1>10. PICK X : X = {f[j] : j \in I}
    OBVIOUS
<1>11. \A j \in I : f[j].time = added[s][j].time /\ f[j].time \in 1..clock
    BY <1>2, <1>3, <1>7, <1>9, StoredTime
<1>12. ASSUME NEW j \in I, NEW m \in I, f[j] = f[m] PROVE j = m
    <2>1. added[s][j].time = added[s][m].time /\ j \in 1..Len(added[s]) /\ m \in 1..Len(added[s])
        BY <1>3, <1>7, <1>11, <1>12
    <2> QED BY <2>1, OneEntryAtATime
<1>13. f \in Bijection(I, X)
    <2>1. f \in [I -> X]
        BY <1>9, <1>10
    <2>2. f \in Injection(I, X)
        BY <1>12, <2>1 DEF Injection, IsInjective
    <2>3. f \in Surjection(I, X)
        BY <1>10, <2>1 DEF Surjection
    <2> QED BY <2>2, <2>3 DEF Bijection
<1>14. Cardinality(X) = k
    <2>1. ExistsBijection(I, X)
        BY <1>13 DEF ExistsBijection
    <2> QED BY <1>8, <2>1, FS_Bijection
<1>15. X \in SUBSET Newest(k)
    <2>1. ASSUME NEW j \in I PROVE f[j] \in LastOf(added[s], k)
        BY <1>2, <1>3, <1>7, <1>9, LastFacts
    <2> QED BY <1>10, <2>1 DEF Newest
<1>16. ASSUME NEW j \in I PROVE f[j].time > d.time
    <2>1. i \in DOMAIN added[s] /\ j \in DOMAIN added[s] /\ i < j
        BY <1>3, <1>7
    <2>2. added[s][i].time < added[s][j].time
        BY <1>2, <2>1 DEF Logged
    <2>3. d.time = added[s][i].time /\ d.time \in 1..clock
        BY <1>2, <1>3, <1>4, StoredTime
    <2> QED BY <1>0, <1>11, <2>2, <2>3
<1>17. \A x \in X : x.time > d.time
    BY <1>10, <1>16
<1> QED BY <1>14, <1>15, <1>17

LEMMA NewestGrows ==
    ASSUME Readable, NEW k \in Nat, k <= RingSize
    PROVE  Newest(k) \subseteq Newest(RingSize)
<1>0. RingSize \in Nat
    BY RingBound
<1> SUFFICES ASSUME NEW y \in Newest(k) PROVE y \in Newest(RingSize)
    OBVIOUS
<1>1. PICK s \in Streams : y \in LastOf(added[s], k)
    BY DEF Newest
<1>2. Logged(s)
    BY DEF Readable
<1>3. PICK i \in 1..Len(added[s]) : i > Len(added[s]) - k /\ y = Stored(added[s][i])
    <2>1. DOMAIN added[s] = 1..Len(added[s])
        BY <1>2, SequenceFacts DEF Logged
    <2> QED BY <1>1, <2>1 DEF LastOf
<1>4. Len(added[s]) \in Nat
    BY <1>2, SequenceFacts DEF Logged
<1>5. i > Len(added[s]) - RingSize
    BY <1>0, <1>3, <1>4
<1>6. y \in LastOf(added[s], RingSize)
    BY <1>0, <1>2, <1>3, <1>5, LastFacts
<1> QED BY <1>6 DEF Newest

LEMMA ReadableNewest ==
    ASSUME Readable
    PROVE  LogsAreNewest
<1>0. RingSize \in Nat /\ RingSize > 0
    BY RingBound
<1>1. PICK E : E = Newest(RingSize)
    OBVIOUS
<1>2. IsFiniteSet(E) /\ \A e \in E : e.time \in Nat
    BY <1>1, NewestFacts
<1>3. PICK all : all = NewestFirst(E)
    OBVIOUS
<1>4. PICK N \in Nat : N = Cardinality(E)
    BY <1>2, FS_CardinalityType
<1>5. PICK S : S = {The(Ranked(E, i)) : i \in 1..N}
    OBVIOUS
<1>6. all \in Seq(S) /\ Len(all) = N
    <2>1. all = [i \in 1..N |-> The(Ranked(E, i))]
        BY <1>3, <1>4 DEF NewestFirst
    <2>2. all \in Seq(S)
        BY <1>5, <2>1
    <2> QED BY <2>1, <2>2
<1>7. ASSUME NEW limit \in 0..(2 * RingSize + 1)
      PROVE  GetLogs(limit) = SubSeq(all, 1, IF limit = 0 THEN Len(all) ELSE Min({limit, Len(all)}))
    <2>x. limit = 0 \/ (limit > 0 /\ limit # 0)
        BY <1>0
    <2>1. CASE limit = 0
        <3>1. ASSUME NEW s \in Streams PROVE Range(GetAll(ring[s])) = LastOf(added[s], RingSize)
            BY AllFacts DEF Readable, Logged
        <3>2. UNION {Range(GetAll(ring[s])) : s \in Streams} = E
            BY <1>1, <3>1 DEF Newest
        <3>3. GetLogs(limit) = NewestFirst(UNION {Range(GetAll(ring[s])) : s \in Streams})
            BY <2>1 DEF GetLogs
        <3>4. GetLogs(limit) = all
            BY <1>3, <3>2, <3>3
        <3>5. SubSeq(all, 1, Len(all)) = all
            BY <1>6
        <3> QED BY <2>1, <3>4, <3>5
    <2>2. CASE limit > 0
        <3>0. limit \in Nat
            BY <1>0
        <3>x. limit # 0
            BY <2>2, <3>0
        <3>1. PICK k \in Nat : k = IF limit <= RingSize THEN limit ELSE RingSize
            BY <1>0, <3>0
        <3>2. k <= RingSize
            BY <1>0, <3>0, <3>1
        <3>3. PICK G : G = Newest(k)
            OBVIOUS
        <3>4. ASSUME NEW s \in Streams PROVE Range(GetRecent(ring[s], limit)) = LastOf(added[s], k)
            BY <2>2, <3>0, <3>1, RecentLimit DEF Readable, Logged
        <3>5. UNION {Range(GetRecent(ring[s], limit)) : s \in Streams} = G
            BY <3>3, <3>4 DEF Newest
        <3>6. PICK some : some = NewestFirst(G)
            OBVIOUS
        <3>7. GetLogs(limit) = IF Len(some) > limit THEN SubSeq(some, 1, limit) ELSE some
            BY <2>2, <3>5, <3>6 DEF GetLogs
        <3>8. G \subseteq E
            BY <1>1, <3>2, <3>3, NewestGrows
        <3>9. \A d \in E \ G : \E X \in SUBSET G : Cardinality(X) = k /\ \A x \in X : x.time > d.time
            BY <1>1, <3>2, <3>3, NewerOnes
        <3>10. /\ \A i \in 1..k : Ranked(G, i) = Ranked(E, i)
               /\ Cardinality(G) \in Nat /\ Cardinality(E) \in Nat
               /\ Cardinality(G) <= Cardinality(E)
               /\ G = E \/ (Cardinality(G) >= k /\ Cardinality(E) > k)
            BY <1>2, <3>8, <3>9, SameRanks
        <3>11. CASE k = limit
            <4>1. (IF Len(some) > limit THEN SubSeq(some, 1, limit) ELSE some)
                     = SubSeq(all, 1, Min({limit, Len(all)}))
                BY <1>3, <2>2, <3>0, <3>6, <3>10, <3>11, NewestPrefix
            <4> QED BY <3>x, <3>7, <4>1
        <3>12. CASE k # limit
            <4>1. G = E
                BY <1>1, <3>1, <3>3, <3>12
            <4>2. \A i \in 1..limit : Ranked(G, i) = Ranked(E, i)
                BY <4>1
            <4>3. (IF Len(some) > limit THEN SubSeq(some, 1, limit) ELSE some)
                     = SubSeq(all, 1, Min({limit, Len(all)}))
                BY <1>3, <2>2, <3>0, <3>6, <3>10, <4>1, <4>2, NewestPrefix
            <4> QED BY <3>x, <3>7, <4>3
        <3> QED BY <3>11, <3>12
    <2> QED BY <2>x, <2>1, <2>2
<1>8. all = NewestFirst(UNION {{Stored(added[s][i]) :
                                    i \in {j \in DOMAIN added[s] : j > Len(added[s]) - RingSize}} :
                               s \in Streams})
    BY <1>1, <1>3 DEF Newest, LastOf
<1> QED BY <1>7, <1>8 DEF LogsAreNewest

(* What the API shows of the output can be relied on: paging returns the   *)
(* newest entries the rings retain, newest first, for every limit; a       *)
(* subscriber gets the entries of each stream whole, in order and once;    *)
(* and no entry carries a key twice or one of cbox-init's own (LogBuffer,  *)
(* GetLogs, LogBroadcaster, ToLogAttrs and attrKey): for every ring and    *)
(* channel size and every text.                                            *)
THEOREM LogStaysReadable == OutputSpec => []LogIsReadable
<1>1. OutputSpec => []Readable
    BY ReadableInit, ReadableStep, PTL DEF OutputSpec
<1>2. Readable => LogIsReadable
    <2> SUFFICES ASSUME Readable PROVE LogIsReadable
        OBVIOUS
    <2>1. LogsAreNewest
        BY ReadableNewest
    <2>2. StreamIsComplete
        BY DEF Readable, Follows, StreamIsComplete
    <2>3. KeysWrittenOnce
        BY DEF Readable, Logged, KeysWrittenOnce, GoodKeys
    <2> QED BY <2>1, <2>2, <2>3 DEF LogIsReadable
<1> QED BY <1>1, <1>2, PTL

=============================================================================
