--------------------------- MODULE WarmTierProofs ---------------------------
(***************************************************************************)
(* TLAPS proofs about WarmTier, for any number of connections, instance    *)
(* objects, restores and failures: there are never two process trees, what *)
(* the proxy believes agrees with what runs and with what is probed, and   *)
(* nothing is served by a workload that is being dumped.                   *)
(***************************************************************************)
EXTENDS WarmTier, TLAPS, FiniteSetTheorems

InstanceRecord ==
    [st : {"none", "running", "stopped", "failed", "checkpointed"},
     checkpointing : BOOLEAN, allowRestart : BOOLEAN,
     tree : {"none", "alive", "dead"}, mon : {"none", "wait", "exited", "done"},
     watchers : Nat, retries : Nat]

WakerSteps == {"none", "queued", "locked", "await", "restored", "awake", "cold", "cold_started",
               "ok", "failed"}

Typed ==
    /\ conn \in [Conns -> {"none", "opened", "observing", "waking", "woken", "serving"}]
    /\ waker \in [Conns -> WakerSteps]
    /\ inst \in [Obj -> InstanceRecord]
    /\ used \in Obj /\ listed \in 1..used /\ image \in 0..used

(* The steps of a Wake that holds opMu.                                    *)
Busy == {"locked", "await", "restored", "awake", "cold", "cold_started"}

(* opMu: its holder is where it says it is, and nobody else is there.  A   *)
(* handler that has not looked yet has no Wake.                            *)
Locks ==
    /\ lock = "sleep" <=> sleep # "none"
    /\ \A c \in Conns : lock = c <=> waker[c] \in Busy
    /\ \A c \in Conns : conn[c] = "opened" => waker[c] = "none"

(* The agent has a request, or the channel an answer, only while someone   *)
(* waits for it.                                                           *)
Channel ==
    /\ agent = "dump" => sleep = "await" /\ reply = "none"
    /\ agent = "restore" => (\E c \in Conns : waker[c] = "await") /\ reply = "none"
    /\ sleep = "await" \/ (\E c \in Conns : waker[c] = "await") => ~broken
    /\ reply # "none" => sleep = "await" \/ \E c \in Conns : waker[c] = "await"

(* What holds of an instance object, whatever happened to it.              *)
Always(r) ==
    /\ r.checkpointing => ~r.allowRestart /\ r.retries = 0
    /\ r.st \in {"running", "checkpointed"} => r.retries = 0

Objects == \A o \in Obj : Always(inst[o])

(* A dumped instance that can be restored.                                 *)
Frozen(r) == r.checkpointing /\ r.st = "checkpointed"

(* What holds of it as long as no restore has overtaken its monitor: one   *)
(* monitor at a time minds it, and its recorded state is that of its tree. *)
Calm(r) ==
    /\ r.mon = "none" => r.st = "none" /\ ~r.checkpointing
    /\ r.mon \in {"wait", "exited"} => r.watchers = 0
    /\ r.mon = "wait" => r.tree = "alive" /\ r.st = "running"
    /\ r.mon = "exited" => r.tree # "alive" \/ Frozen(r)
    /\ r.retries <= 1
    /\ r.retries > 0 => r.tree # "alive" /\ r.mon = "done"
    /\ r.st \in {"none", "stopped", "failed"} => r.tree # "alive"

(* An object that is no longer listed, or not yet made: nothing of it runs *)
(* and nothing will restart it.                                            *)
Past(r) ==
    /\ r.tree # "alive" /\ r.st # "running" /\ r.retries = 0 /\ ~r.checkpointing
    /\ r.mon = "exited" => ~r.allowRestart

(* The listed one while the workload sleeps.                               *)
Down(r) == r.tree # "alive" /\ ~r.allowRestart /\ r.retries = 0 /\ r.st # "running"

Records == \A o \in Obj : Calm(inst[o]) /\ (o # listed => Past(inst[o]))

(* Images that can still be restored are those of the listed instance.     *)
Images ==
    image # 0 /\ ~broken =>
        /\ image = listed /\ inst[listed].checkpointing
        /\ sleep \in {"await", "complete"} \/ inst[listed].st = "checkpointed"

SleepPhase ==
    /\ sleep \in {"send", "await", "complete", "aborting", "aborting_lost"} =>
           /\ inst[listed].checkpointing
           /\ inst[listed].mon = "exited" => inst[listed].tree # "alive"
    /\ sleep = "complete" \/ (sleep = "await" /\ reply = "ok") => inst[listed].tree # "alive"
    /\ sleep \in {"send", "aborting", "aborting_lost"} \/ (sleep = "await" /\ reply # "ok") =>
           image = 0 \/ broken

WakePhase ==
    \A c \in Conns :
        /\ waker[c] = "restored" \/ (waker[c] = "await" /\ reply = "ok") =>
               image = 0 /\ Frozen(inst[listed])
        /\ waker[c] = "await" /\ reply = "gone" => image = 0
        /\ waker[c] = "cold" => image = 0 \/ broken
        /\ waker[c] \in {"locked", "cold"} \/ (waker[c] = "await" /\ reply # "ok") => Down(inst[listed])

RestPhase == asleep /\ lock = "free" => Down(inst[listed])

Orderly == Records /\ Images /\ SleepPhase /\ WakePhase /\ RestPhase

(* Admission is open again before a checkpoint is aborted.                 *)
Reopened == sleep \in {"aborting", "aborting_lost"} => ~asleep

Working == Locks /\ Channel /\ Objects /\ Reopened /\ (~overtaken => Orderly)

(* After fenceUncertain nothing runs and nothing happens any more.         *)
Fence == asleep /\ lock # "free" /\ \A o \in Obj : inst[o].tree # "alive"

IInv == Typed /\ (fenced => Fence) /\ (~fenced => Working)

-----------------------------------------------------------------------------
(* The constant records.                                                   *)
LEMMA Made ==
    /\ startInstance \in InstanceRecord /\ Always(startInstance) /\ Calm(startInstance)
    /\ Blank \in InstanceRecord /\ Always(Blank) /\ Calm(Blank) /\ Past(Blank)
<1>1. startInstance \in InstanceRecord /\ Blank \in InstanceRecord
    BY DEF startInstance, Blank, InstanceRecord
<1>2. Always(startInstance) /\ Calm(startInstance)
    BY DEF startInstance, Always, Calm, Frozen
<1>3. Always(Blank) /\ Calm(Blank) /\ Past(Blank)
    BY DEF Blank, Always, Calm, Past, Frozen
<1> QED BY <1>1, <1>2, <1>3

(* The tier starts awake, with one listed process.                         *)
LEMMA InitIInv == Init => IInv
<1> SUFFICES ASSUME Init PROVE IInv
    OBVIOUS
<1>1. 1 \in Obj /\ Obj \subseteq Nat
    BY WarmTierAssumption DEF Obj
<1>2. Typed
    BY <1>1, Made DEF Init, Typed, WakerSteps
<1>3. Locks /\ Channel /\ Reopened
    BY WarmTierAssumption DEF Init, Locks, Channel, Reopened, Busy
<1>4. Objects /\ Records
    BY Made DEF Init, Objects, Records
<1>5. Images /\ SleepPhase /\ WakePhase /\ RestPhase
    BY DEF Init, Images, SleepPhase, WakePhase, RestPhase
<1> QED BY <1>2, <1>3, <1>4, <1>5 DEF IInv, Working, Orderly, Init

(* Whoever waits for or uses opMu in Wake has it alone.                    *)
LEMMA WakeHolds ==
    ASSUME Locks, NEW c \in Conns, waker[c] \in Busy
    PROVE  /\ lock = c /\ lock # "free" /\ lock # "sleep" /\ sleep = "none"
           /\ \A d \in Conns : d # c => waker[d] \notin Busy
BY WarmTierAssumption DEF Locks

(* While a sleep is under way no waker is inside the lock.                 *)
LEMMA SleepHolds ==
    ASSUME Locks, sleep # "none"
    PROVE  lock = "sleep" /\ \A c \in Conns : waker[c] \notin Busy
BY WarmTierAssumption DEF Locks

-----------------------------------------------------------------------------
(* Handlers, deadlines and Wakes that do not hold opMu.                    *)
LEMMA OutsideKeeps ==
    ASSUME Typed, Working, UNCHANGED <<lock, sleep, agent, reply, broken, image, inst, listed, used, overtaken>>,
           conn' \in [Conns -> {"none", "opened", "observing", "waking", "woken", "serving"}],
           waker' \in [Conns -> WakerSteps],
           \A c \in Conns : waker'[c] = waker[c] \/ (waker[c] \notin Busy /\ waker'[c] \notin Busy),
           \A c \in Conns : conn'[c] = "opened" => waker'[c] = "none",
           asleep' => asleep
    PROVE  Typed' /\ Working'
<1>1. Typed'
    BY DEF Typed
<1>2. \A c \in Conns : waker'[c] \in Busy <=> waker[c] \in Busy
    OBVIOUS
<1>3. \A c \in Conns, s \in Busy : waker'[c] = s <=> waker[c] = s
    OBVIOUS
<1>4. Locks' /\ Reopened' /\ Objects'
    BY <1>2 DEF Working, Locks, Reopened, Objects
<1>5. Channel'
    BY <1>3 DEF Working, Channel, Busy
<1>6. ~overtaken => Records' /\ Images' /\ SleepPhase' /\ RestPhase'
    BY DEF Working, Orderly, Records, Images, SleepPhase, RestPhase
<1>7. ~overtaken => WakePhase'
    BY <1>3 DEF Working, Orderly, WakePhase, Busy
<1> QED BY <1>1, <1>4, <1>5, <1>6, <1>7 DEF Working, Orderly

(* The steps of the system preserve Typed and Working, one lemma per       *)
(* action or group; the handlers touch no instance.                        *)
LEMMA HandlerKeeps ==
    ASSUME Typed, Working, NEW c \in Conns,
           \/ Accept(c) \/ HandlerStep(c) \/ Served(c) \/ WakeExpires(c) \/ wake(c) \/ WakerEnds(c)
    PROVE  Typed' /\ Working'
<1>1. UNCHANGED <<lock, sleep, agent, reply, broken, image, inst, listed, used, overtaken>>
    BY DEF Accept, HandlerStep, CheckAsleep, AfterWake, handleObservation, Served, WakeExpires, wake,
        WakerEnds, Handler, coordVars, agentVars, workVars
<1>2. conn' \in [Conns -> {"none", "opened", "observing", "waking", "woken", "serving"}]
    BY DEF Typed, Accept, HandlerStep, CheckAsleep, AfterWake, handleObservation, Served, WakeExpires,
        wake, WakerEnds, Handler
<1>3. waker' \in [Conns -> WakerSteps]
    BY DEF Typed, Accept, HandlerStep, CheckAsleep, AfterWake, handleObservation, Served, WakeExpires,
        wake, WakerEnds, Handler, Over, WakerSteps
<1>4. asleep' => asleep
    BY DEF Accept, HandlerStep, CheckAsleep, AfterWake, handleObservation, Served, WakeExpires, wake,
        WakerEnds
<1>5. \A d \in Conns : waker'[d] = waker[d] \/ (waker[d] \notin Busy /\ waker'[d] \notin Busy)
    <2>1. CASE waker' = waker
        BY <2>1
    <2>2. CASE CheckAsleep(c)
        BY <2>2 DEF CheckAsleep, Typed, Busy, Working, Locks
    <2>3. CASE wake(c) \/ WakerEnds(c)
        BY <2>3 DEF wake, WakerEnds, Over, Typed, Busy
    <2> QED BY <2>1, <2>2, <2>3 DEF Accept, HandlerStep, AfterWake, handleObservation, Served, WakeExpires
<1>6. \A d \in Conns : conn'[d] = "opened" => waker'[d] = "none"
    <2>1. \A d \in Conns : conn[d] = "opened" => waker[d] = "none"
        BY DEF Working, Locks
    <2>2. CASE Accept(c)
        BY <2>1, <2>2 DEF Accept, Handler, Typed
    <2>3. CASE HandlerStep(c) \/ Served(c)
        BY <2>1, <2>3 DEF HandlerStep, CheckAsleep, AfterWake, handleObservation, Served, Handler, Typed
    <2>4. CASE WakeExpires(c) \/ wake(c) \/ WakerEnds(c)
        BY <2>1, <2>4 DEF WakeExpires, wake, WakerEnds, Handler, Over, Typed
    <2> QED BY <2>2, <2>3, <2>4
<1> QED BY <1>1, <1>2, <1>3, <1>4, <1>5, <1>6, OutsideKeeps
-----------------------------------------------------------------------------
(* The workload and its monitors: one object o changes, from inst[o] to q. *)
Ages(o, q) ==
    /\ Always(q) /\ q.checkpointing = inst[o].checkpointing
    /\ ~overtaken => /\ Calm(q) /\ (o # listed => Past(q))
                     /\ q.tree = "alive" => inst[o].tree = "alive"
                     /\ Frozen(inst[o]) => Frozen(q)
                     /\ Down(inst[o]) => Down(q)
                     /\ q.mon = "exited" /\ q.tree = "alive" => inst[o].mon = "exited"

(* A step that only lets one instance get older (Ages): it covers crashes, *)
(* recorded exits, watchers and failed restarts.                           *)
LEMMA AgesKeeps ==
    ASSUME Typed, Working, NEW o \in Obj, NEW q \in InstanceRecord, Ages(o, q),
           inst' = [inst EXCEPT ![o] = q],
           UNCHANGED <<proxyVars, coordVars, agentVars, listed, used, overtaken>>
    PROVE  Typed' /\ Working'
<1>1. inst \in [Obj -> InstanceRecord] /\ listed \in Obj
    BY WarmTierAssumption DEF Typed, Obj
<1>2. inst'[o] = q /\ \A p \in Obj : p # o => inst'[p] = inst[p]
    BY <1>1
<1>3. UNCHANGED <<asleep, conn, waker, lock, sleep, agent, reply, broken, image, listed, used, overtaken>>
    BY DEF proxyVars, coordVars, agentVars
<1>4. Typed'
    BY <1>1, <1>3 DEF Typed
<1>5. Locks' /\ Channel' /\ Reopened'
    BY <1>3 DEF Working, Locks, Channel, Reopened
<1>6. Objects'
    BY <1>2 DEF Working, Objects, Ages
<1>7. ASSUME ~overtaken PROVE Orderly'
    <2>1. Orderly
        BY <1>7 DEF Working
    <2>2. Records'
        BY <1>2, <1>3, <1>7, <2>1 DEF Orderly, Records, Ages
    <2> DEFINE r == inst[listed]
               s == inst'[listed]
    <2>3. /\ s.checkpointing = r.checkpointing /\ (s.tree = "alive" => r.tree = "alive")
          /\ (Frozen(r) => Frozen(s)) /\ (Down(r) => Down(s))
          /\ s.mon = "exited" /\ s.tree = "alive" => r.mon = "exited"
        BY <1>1, <1>2, <1>7 DEF Ages
    <2> HIDE DEF r, s
    <2>4. Images'
        BY <1>3, <2>1, <2>3 DEF Orderly, Images, Frozen, r, s
    <2>5. SleepPhase'
        BY <1>3, <2>1, <2>3 DEF Orderly, SleepPhase, r, s
    <2>6. WakePhase' /\ RestPhase'
        BY <1>3, <2>1, <2>3 DEF Orderly, WakePhase, RestPhase, r, s
    <2> QED BY <2>2, <2>4, <2>5, <2>6 DEF Orderly
<1> QED BY <1>3, <1>4, <1>5, <1>6, <1>7 DEF Working

LEMMA CrashKeeps ==
    ASSUME Typed, Working, NEW o \in Obj, Crash(o)
    PROVE  Typed' /\ Working'
<1> DEFINE r == inst[o]
           m == IF r.mon = "wait" THEN "exited" ELSE r.mon
           q == [r EXCEPT !.tree = "dead", !.mon = m]
<1>1. r \in InstanceRecord /\ Always(r) /\ (~overtaken => Calm(r) /\ (o # listed => Past(r)))
    BY DEF Typed, Working, Objects, Orderly, Records
<1>2. inst' = [inst EXCEPT ![o] = q] /\ r.tree = "alive"
    BY DEF Crash, Exits
<1>3. /\ q \in InstanceRecord /\ q.tree = "dead" /\ q.mon = m /\ q.st = r.st /\ q.watchers = r.watchers
      /\ q.retries = r.retries /\ q.checkpointing = r.checkpointing /\ q.allowRestart = r.allowRestart
    BY <1>1 DEF InstanceRecord
<1>4. r.retries \in Nat /\ r.mon \in {"none", "wait", "exited", "done"}
    BY <1>1 DEF InstanceRecord
<1> HIDE DEF q, r
<1>5. Ages(o, q)
    BY <1>1, <1>2, <1>3, <1>4 DEF Ages, Always, Calm, Past, Down, Frozen, r
<1> QED BY <1>2, <1>3, <1>5, AgesKeeps DEF Crash

LEMMA RecordExitKeeps ==
    ASSUME Typed, Working, NEW o \in Obj, RecordExit(o)
    PROVE  Typed' /\ Working'
<1> DEFINE r == inst[o]
<1>1. r \in InstanceRecord /\ Always(r) /\ (~overtaken => Calm(r) /\ (o # listed => Past(r)))
    BY DEF Typed, Working, Objects, Orderly, Records
<1>2. r.mon = "exited"
      /\ UNCHANGED <<proxyVars, coordVars, agentVars, listed, used, overtaken>>
    BY DEF RecordExit
<1>3. PICK s \in {"checkpointed", "stopped"}, n \in Nat :
          /\ inst' = [inst EXCEPT ![o] = [r EXCEPT !.mon = "done", !.st = s, !.retries = n]]
          /\ s = "checkpointed" <=> r.checkpointing
          /\ n = r.retries \/ (n = r.retries + 1 /\ r.allowRestart /\ ~r.checkpointing)
    <2>1. CASE /\ r.checkpointing \/ ~r.allowRestart
               /\ inst' = [inst EXCEPT ![o].mon = "done",
                              ![o].st = IF r.checkpointing THEN "checkpointed" ELSE "stopped"]
        <3> DEFINE s == IF r.checkpointing THEN "checkpointed" ELSE "stopped"
        <3>1. inst' = [inst EXCEPT ![o] = [r EXCEPT !.mon = "done", !.st = s, !.retries = r.retries]]
            BY <1>1, <2>1 DEF InstanceRecord
        <3>2. s \in {"checkpointed", "stopped"} /\ r.retries \in Nat /\ (s = "checkpointed" <=> r.checkpointing)
            BY <1>1 DEF InstanceRecord
        <3> HIDE DEF s
        <3> QED BY <3>1, <3>2
    <2>2. CASE /\ ~r.checkpointing /\ r.allowRestart
               /\ Decided(o, [r EXCEPT !.mon = "done", !.st = "stopped"])
        <3>1. r.retries \in Nat /\ r.retries + 1 \in Nat
            BY <1>1 DEF InstanceRecord
        <3>2. \/ inst' = [inst EXCEPT ![o] = [r EXCEPT !.mon = "done", !.st = "stopped", !.retries = r.retries + 1]]
              \/ inst' = [inst EXCEPT ![o] = [r EXCEPT !.mon = "done", !.st = "stopped", !.retries = r.retries]]
            BY <1>1, <2>2 DEF Decided, InstanceRecord
        <3> QED BY <2>2, <3>1, <3>2
    <2> QED BY <2>1, <2>2 DEF RecordExit
<1> DEFINE q == [r EXCEPT !.mon = "done", !.st = s, !.retries = n]
<1>4. /\ q \in InstanceRecord /\ q.tree = r.tree /\ q.mon = "done" /\ q.st = s /\ q.watchers = r.watchers
      /\ q.retries = n /\ q.checkpointing = r.checkpointing /\ q.allowRestart = r.allowRestart
    BY <1>1 DEF InstanceRecord
<1>5. r.retries \in Nat
    BY <1>1 DEF InstanceRecord
<1>6. inst' = [inst EXCEPT ![o] = q]
    BY <1>3
<1> HIDE DEF q, r
<1>7. Ages(o, q)
    BY <1>1, <1>2, <1>3, <1>4, <1>5 DEF Ages, Always, Calm, Past, Down, Frozen, r
<1> QED BY <1>2, <1>4, <1>6, <1>7, AgesKeeps

LEMMA WatcherKeeps ==
    ASSUME Typed, Working, NEW o \in Obj, monitorRestored(o)
    PROVE  Typed' /\ Working'
<1> DEFINE r == inst[o]
<1>1. r \in InstanceRecord /\ Always(r) /\ (~overtaken => Calm(r) /\ (o # listed => Past(r)))
    BY DEF Typed, Working, Objects, Orderly, Records
<1>2. r.watchers > 0
      /\ UNCHANGED <<proxyVars, coordVars, agentVars, listed, used, overtaken>>
    BY DEF monitorRestored
<1>3. r.watchers \in Nat /\ r.watchers - 1 \in Nat /\ r.retries \in Nat /\ r.retries + 1 \in Nat
    BY <1>1, <1>2 DEF InstanceRecord
<1>4. CASE r.st # "running" /\ inst' = [inst EXCEPT ![o].watchers = @ - 1]
    <2> DEFINE q == [r EXCEPT !.watchers = r.watchers - 1]
    <2>1. /\ q \in InstanceRecord /\ q.tree = r.tree /\ q.mon = r.mon /\ q.st = r.st
          /\ q.watchers = r.watchers - 1
          /\ q.retries = r.retries /\ q.checkpointing = r.checkpointing /\ q.allowRestart = r.allowRestart
        BY <1>1, <1>3 DEF InstanceRecord
    <2>2. inst' = [inst EXCEPT ![o] = q]
        BY <1>4
    <2> HIDE DEF q, r
    <2>3. Ages(o, q)
        BY <1>1, <1>2, <1>3, <1>4, <2>1 DEF Ages, Always, Calm, Past, Down, Frozen, r
    <2> QED BY <1>2, <2>1, <2>2, <2>3, AgesKeeps
<1>5. CASE /\ r.st = "running" /\ r.tree = "dead"
           /\ Decided(o, [r EXCEPT !.watchers = r.watchers - 1, !.st = "stopped"])
    <2>1. PICK n \in Nat :
              /\ inst' = [inst EXCEPT ![o] = [r EXCEPT !.watchers = r.watchers - 1, !.st = "stopped", !.retries = n]]
              /\ n = r.retries \/ (n = r.retries + 1 /\ r.allowRestart)
        <3>1. \/ /\ r.allowRestart
                 /\ inst' = [inst EXCEPT ![o] = [r EXCEPT !.watchers = r.watchers - 1, !.st = "stopped",
                                                          !.retries = r.retries + 1]]
              \/ inst' = [inst EXCEPT ![o] = [r EXCEPT !.watchers = r.watchers - 1, !.st = "stopped",
                                                       !.retries = r.retries]]
            BY <1>1, <1>5 DEF Decided, InstanceRecord
        <3> QED BY <1>3, <3>1
    <2> DEFINE q == [r EXCEPT !.watchers = r.watchers - 1, !.st = "stopped", !.retries = n]
    <2>2. /\ q \in InstanceRecord /\ q.tree = r.tree /\ q.mon = r.mon /\ q.st = "stopped"
          /\ q.watchers = r.watchers - 1
          /\ q.retries = n /\ q.checkpointing = r.checkpointing /\ q.allowRestart = r.allowRestart
        BY <1>1, <1>3 DEF InstanceRecord
    <2>3. inst' = [inst EXCEPT ![o] = q] /\ r.mon \in {"none", "wait", "exited", "done"}
        BY <1>1, <2>1 DEF InstanceRecord
    <2> HIDE DEF q, r
    <2>4. Ages(o, q)
        BY <1>1, <1>2, <1>3, <1>5, <2>1, <2>2, <2>3 DEF Ages, Always, Calm, Past, Down, Frozen, r
    <2> QED BY <1>2, <2>2, <2>3, <2>4, AgesKeeps
<1> QED BY <1>4, <1>5 DEF monitorRestored

LEMMA RestartFailsKeeps ==
    ASSUME Typed, Working, NEW o \in Obj, attemptRestartFails(o)
    PROVE  Typed' /\ Working'
<1> DEFINE r == inst[o]
           q == [r EXCEPT !.retries = r.retries - 1, !.st = "failed"]
<1>1. r \in InstanceRecord /\ Always(r) /\ (~overtaken => Calm(r) /\ (o # listed => Past(r)))
    BY DEF Typed, Working, Objects, Orderly, Records
<1>2. r.retries > 0 /\ inst' = [inst EXCEPT ![o] = q]
      /\ UNCHANGED <<proxyVars, coordVars, agentVars, listed, used, overtaken>>
    BY DEF attemptRestartFails
<1>3. r.retries \in Nat /\ r.retries - 1 \in Nat
    BY <1>1, <1>2 DEF InstanceRecord
<1>4. /\ q \in InstanceRecord /\ q.tree = r.tree /\ q.mon = r.mon /\ q.st = "failed"
      /\ q.watchers = r.watchers /\ q.retries = r.retries - 1
      /\ q.checkpointing = r.checkpointing /\ q.allowRestart = r.allowRestart
    BY <1>1, <1>3 DEF InstanceRecord
<1> HIDE DEF q, r
<1>5. Ages(o, q)
    BY <1>1, <1>2, <1>3, <1>4 DEF Ages, Always, Calm, Past, Down, Frozen, r
<1> QED BY <1>2, <1>4, <1>5, AgesKeeps

-----------------------------------------------------------------------------
(* A new instance takes the place of the listed one.                       *)
LEMMA Replaced ==
    ASSUME Typed, Working, used < MaxObj, NEW o \in Obj, NEW q \in InstanceRecord, Always(q),
           inst' = [inst EXCEPT ![o] = q, ![used + 1] = startInstance],
           listed' = used + 1, used' = used + 1, UNCHANGED <<image, overtaken>>,
           ~overtaken => o = listed /\ Calm(q) /\ Past(q)
    PROVE  /\ inst' \in [Obj -> InstanceRecord] /\ used' \in Obj /\ listed' \in 1..used'
           /\ image' \in 0..used' /\ Objects' /\ (~overtaken => Records')
<1>1. /\ inst \in [Obj -> InstanceRecord] /\ listed \in Obj /\ used \in Nat /\ used + 1 \in Obj
      /\ used \in Obj /\ image \in 0..used
    BY WarmTierAssumption DEF Typed, Obj
<1>2. inst'[used + 1] = startInstance
      /\ \A p \in Obj : p # used + 1 => inst'[p] = IF p = o THEN q ELSE inst[p]
    BY <1>1
<1>3. inst' \in [Obj -> InstanceRecord]
    BY <1>1, Made
<1>4. Objects'
    BY <1>2, Made DEF Working, Objects
<1>5. ~overtaken => Records'
    BY <1>2, Made DEF Working, Orderly, Records
<1>6. used' \in Obj /\ listed' \in 1..used' /\ image' \in 0..used'
    BY <1>1, WarmTierAssumption DEF Obj
<1> QED BY <1>3, <1>4, <1>5, <1>6

LEMMA RestartKeeps ==
    ASSUME Typed, Working, NEW o \in Obj, attemptRestart(o)
    PROVE  Typed' /\ Working'
<1> DEFINE r == inst[o]
           q == [r EXCEPT !.retries = r.retries - 1]
<1>1. r \in InstanceRecord /\ Always(r) /\ (~overtaken => Calm(r) /\ (o # listed => Past(r)))
    BY DEF Typed, Working, Objects, Orderly, Records
<1>2. /\ r.retries > 0 /\ used < MaxObj /\ listed' = used + 1 /\ used' = used + 1
      /\ inst' = [inst EXCEPT ![o] = q, ![used + 1] = startInstance]
      /\ UNCHANGED <<asleep, conn, waker, lock, sleep, agent, reply, broken, image, overtaken>>
    BY DEF attemptRestart, proxyVars, coordVars, agentVars
<1>3. r.retries \in Nat /\ r.retries - 1 \in Nat
    BY <1>1, <1>2 DEF InstanceRecord
<1>4. /\ q \in InstanceRecord /\ q.tree = r.tree /\ q.mon = r.mon /\ q.st = r.st
      /\ q.watchers = r.watchers /\ q.retries = r.retries - 1
      /\ q.checkpointing = r.checkpointing /\ q.allowRestart = r.allowRestart
    BY <1>1, <1>3 DEF InstanceRecord
<1> HIDE DEF q, r
<1>5. Always(q)
    BY <1>1, <1>2, <1>3, <1>4 DEF Always
<1>6. ~overtaken => o = listed /\ ~r.checkpointing /\ Calm(q) /\ Past(q)
    BY <1>1, <1>2, <1>3, <1>4 DEF Always, Calm, Past, Frozen
<1>7. /\ inst' \in [Obj -> InstanceRecord] /\ used' \in Obj /\ listed' \in 1..used'
      /\ image' \in 0..used' /\ Objects' /\ (~overtaken => Records')
    BY <1>2, <1>4, <1>5, <1>6, Replaced
<1>8. Typed'
    BY <1>2, <1>7 DEF Typed
<1>9. Locks' /\ Channel' /\ Reopened'
    BY <1>2 DEF Working, Locks, Channel, Reopened
<1>10. ASSUME ~overtaken PROVE Images' /\ SleepPhase' /\ WakePhase' /\ RestPhase'
    <2>1. Orderly /\ ~inst[listed].checkpointing /\ inst[listed].retries # 0
        BY <1>2, <1>3, <1>6, <1>10 DEF Working, r
    <2>2. image = 0 \/ broken
        BY <2>1 DEF Orderly, Images
    <2>3. sleep \notin {"send", "await", "complete", "aborting", "aborting_lost"}
        BY <2>1 DEF Orderly, SleepPhase
    <2>4. ~Frozen(inst[listed]) /\ ~Down(inst[listed])
        BY <2>1 DEF Frozen, Down
    <2>5. Images' /\ SleepPhase'
        BY <1>2, <2>2, <2>3 DEF Images, SleepPhase
    <2>6. WakePhase' /\ RestPhase'
        BY <1>2, <2>1, <2>2, <2>4 DEF Orderly, WakePhase, RestPhase
    <2> QED BY <2>5, <2>6
<1> QED BY <1>2, <1>7, <1>8, <1>9, <1>10 DEF Working, Orderly

LEMMA WorkloadKeeps ==
    ASSUME Typed, Working, NEW o \in Obj, WorkloadStep(o)
    PROVE  Typed' /\ Working'
BY CrashKeeps, RecordExitKeeps, WatcherKeeps, RestartKeeps, RestartFailsKeeps DEF WorkloadStep

-----------------------------------------------------------------------------
(* Coordinator.sleep, up to the checkpoint.                                *)
LEMMA SleepEntersKeeps ==
    ASSUME Typed, Working,
           (\E requested \in Requested : SleepBegin(requested)) \/ SleepMark \/ SleepCount
              \/ Quiesce \/ SleepRecount
    PROVE  Typed' /\ Working'
<1>1. UNCHANGED <<conn, waker, agent, reply, broken, image, inst, listed, used, overtaken>>
    BY DEF SleepBegin, SleepMark, SleepCount, Quiesce, SleepRecount, BackOut, SleepStep, agentVars, workVars
<1>2. \/ lock = "free" /\ ~asleep /\ lock' = "sleep" /\ sleep' = "decided"
      \/ /\ sleep \in {"decided", "marked", "quiet", "recount"}
         /\ \/ lock' = "free" /\ sleep' = "none" /\ ~asleep'
            \/ lock' = lock /\ sleep' \in {"marked", "quiet", "recount", "begin"}
    BY DEF SleepBegin, SleepMark, SleepCount, Quiesce, SleepRecount, BackOut, SleepStep
<1>3. Typed'
    BY <1>1 DEF Typed
<1>4. Locks' /\ sleep \notin {"send", "await", "complete"}
    BY <1>1, <1>2, WarmTierAssumption DEF Working, Locks
<1>5. Channel'
    BY <1>1, <1>2, <1>4, SleepHolds, WarmTierAssumption DEF Working, Locks, Channel, Busy
<1>6. Reopened' /\ Objects'
    BY <1>1, <1>2 DEF Working, Reopened, Objects
<1>7. ASSUME ~overtaken PROVE Orderly'
    <2>1. Orderly
        BY <1>7 DEF Working
    <2>2. Records' /\ SleepPhase' /\ WakePhase'
        BY <1>1, <1>2, <2>1 DEF Orderly, Records, SleepPhase, WakePhase
    <2>3. Images'
        BY <1>1, <1>2, <1>4, <2>1 DEF Orderly, Images
    <2>4. RestPhase'
        BY <1>1, <1>2, <1>4, SleepHolds DEF RestPhase, Working
    <2> QED BY <2>2, <2>3, <2>4 DEF Orderly
<1> QED BY <1>1, <1>3, <1>4, <1>5, <1>6, <1>7 DEF Working

(* The request and its answer.                                             *)
LEMMA SleepTalksKeeps ==
    ASSUME Typed, Working, CheckpointSend \/ CheckpointReply
    PROVE  Typed' /\ Working'
<1>1. UNCHANGED <<conn, waker, lock, image, inst, listed, used, overtaken>>
    BY DEF CheckpointSend, CheckpointReply, SleepStep, Sent, Unsent, agentVars, workVars
<1>2. /\ \/ /\ sleep = "send" /\ reply' = reply
            /\ \/ ~broken /\ broken' = broken /\ agent' = "dump" /\ sleep' = "await"
               \/ agent' = agent /\ broken' /\ sleep' = "aborting_lost" /\ ~asleep'
               \/ agent' = agent /\ broken' = broken /\ sleep' = "aborting" /\ ~asleep'
         \/ /\ sleep = "await" /\ reply # "none" /\ reply' = "none" /\ agent' = agent /\ broken' = broken
            /\ \/ reply = "ok" /\ sleep' = "complete"
               \/ reply # "ok" /\ sleep' = "aborting" /\ ~asleep'
    BY DEF CheckpointSend, CheckpointReply, SleepStep, Sent, Unsent, agentVars
<1>3. lock = "sleep" /\ \A c \in Conns : waker[c] \notin Busy
    BY <1>2, SleepHolds DEF Working
<1>4. Typed'
    BY <1>1 DEF Typed
<1>5. Locks' /\ Reopened' /\ Objects'
    BY <1>1, <1>2, <1>3 DEF Working, Locks, Reopened, Objects
<1>6. Channel'
    BY <1>1, <1>2, <1>3 DEF Working, Channel, Busy
<1>7. ASSUME ~overtaken PROVE Orderly'
    <2>1. Orderly
        BY <1>7 DEF Working
    <2>2. Records' /\ WakePhase' /\ RestPhase'
        BY <1>1, <1>3, <2>1 DEF Orderly, Records, WakePhase, RestPhase, Busy
    <2>0. sleep = "send" => reply = "none"
        BY <1>3 DEF Working, Channel, Busy
    <2>3. SleepPhase'
        BY <1>1, <1>2, <2>0, <2>1 DEF Orderly, SleepPhase
    <2>4. Images'
        BY <1>1, <1>2, <2>1 DEF Orderly, Images, SleepPhase
    <2> QED BY <2>2, <2>3, <2>4 DEF Orderly
<1> QED BY <1>1, <1>4, <1>5, <1>6, <1>7 DEF Working

(* The listed instance changes, to q, and nothing else of the workload.    *)
LEMMA ListedKeeps ==
    ASSUME Typed, Working, NEW q \in InstanceRecord, Always(q), ~overtaken => Calm(q),
           inst' = [inst EXCEPT ![listed] = q], UNCHANGED <<listed, used, image>>
    PROVE  /\ inst' \in [Obj -> InstanceRecord] /\ inst'[listed] = q /\ inst'[listed'] = q
           /\ used' \in Obj /\ listed' \in 1..used' /\ image' \in 0..used'
           /\ Objects' /\ (~overtaken => Records')
<1>1. inst \in [Obj -> InstanceRecord] /\ listed \in Obj
    BY WarmTierAssumption DEF Typed, Obj
<1>2. inst'[listed] = q /\ \A p \in Obj : p # listed => inst'[p] = inst[p]
    BY <1>1
<1>3. Objects'
    BY <1>2 DEF Working, Objects
<1>4. ~overtaken => Records'
    BY <1>2 DEF Working, Orderly, Records
<1>5. inst' \in [Obj -> InstanceRecord]
    BY <1>1
<1> QED BY <1>2, <1>3, <1>4, <1>5 DEF Typed

(* The listed instance exists.                                             *)
LEMMA ListedRecord ==
    ASSUME Typed, Working
    PROVE  /\ listed \in Obj /\ inst[listed] \in InstanceRecord /\ Always(inst[listed])
           /\ ~overtaken => Calm(inst[listed])
<1>1. listed \in Obj
    BY WarmTierAssumption DEF Typed, Obj
<1> QED BY <1>1 DEF Typed, Working, Objects, Orderly, Records

LEMMA BeginKeeps ==
    ASSUME Typed, Working, BeginCheckpoint
    PROVE  Typed' /\ Working'
<1>1. /\ sleep = "begin"
      /\ UNCHANGED <<conn, waker, agent, reply, broken, image, listed, used, overtaken>>
    BY DEF BeginCheckpoint, SleepStep, BackOut, agentVars
<1>2. lock = "sleep" /\ \A c \in Conns : waker[c] \notin Busy
    BY <1>1, SleepHolds DEF Working
<1>3. CASE inst[listed].st # "running"
    <2>1. sleep' = "none" /\ lock' = "free" /\ ~asleep' /\ inst' = inst
        BY <1>3 DEF BeginCheckpoint, BackOut
    <2>2. Typed' /\ Locks' /\ Reopened' /\ Objects'
        BY <1>1, <1>2, <2>1, WarmTierAssumption DEF Typed, Working, Locks, Reopened, Objects
    <2>3. Channel'
        BY <1>1, <1>2, <2>1 DEF Working, Channel, Busy
    <2>4. ~overtaken => Records' /\ Images' /\ SleepPhase' /\ WakePhase' /\ RestPhase'
        BY <1>1, <2>1 DEF Working, Orderly, Records, Images, SleepPhase, WakePhase, RestPhase
    <2> QED BY <1>1, <2>2, <2>3, <2>4 DEF Working, Orderly
<1>4. CASE inst[listed].st = "running"
    <2> DEFINE r == inst[listed]
               q == [r EXCEPT !.checkpointing = TRUE, !.allowRestart = FALSE]
    <2>1. inst' = [inst EXCEPT ![listed] = q] /\ sleep' = "send" /\ lock' = lock
        BY <1>4 DEF BeginCheckpoint, SleepStep
    <2>2. r \in InstanceRecord /\ Always(r) /\ (~overtaken => Calm(r))
        BY ListedRecord
    <2>3. /\ q \in InstanceRecord /\ q.tree = r.tree /\ q.mon = r.mon /\ q.st = r.st
          /\ q.watchers = r.watchers /\ q.retries = r.retries /\ q.checkpointing /\ ~q.allowRestart
        BY <2>2 DEF InstanceRecord
    <2> HIDE DEF q, r
    <2>4. Always(q) /\ (~overtaken => Calm(q) /\ (q.mon = "exited" => q.tree # "alive"))
        BY <1>4, <2>2, <2>3 DEF Always, Calm, Frozen, r
    <2>5. /\ inst' \in [Obj -> InstanceRecord] /\ inst'[listed'] = q
          /\ used' \in Obj /\ listed' \in 1..used' /\ image' \in 0..used'
          /\ Objects' /\ (~overtaken => Records')
        BY <1>1, <2>1, <2>3, <2>4, ListedKeeps
    <2>6. Typed' /\ Locks' /\ Reopened'
        BY <1>1, <1>2, <2>1, <2>5 DEF Typed, Working, Locks, Reopened
    <2>7. Channel'
        BY <1>1, <1>2, <2>1 DEF Working, Channel, Busy
    <2>8. ~overtaken => image = 0 \/ broken
        BY <1>1, <1>4 DEF Working, Orderly, Images
    <2>9. ~overtaken => Images' /\ SleepPhase' /\ RestPhase'
        BY <1>1, <1>2, <2>1, <2>3, <2>4, <2>5, <2>8 DEF Images, SleepPhase, RestPhase
    <2>10. WakePhase'
        BY <1>1, <1>2 DEF WakePhase, Busy
    <2> QED BY <1>1, <2>5, <2>6, <2>7, <2>9, <2>10 DEF Working, Orderly
<1> QED BY <1>3, <1>4

LEMMA AbortKeeps ==
    ASSUME Typed, Working, AbortCheckpoint
    PROVE  Typed' /\ Working'
<1> DEFINE r == inst[listed]
           a == r.allowRestart \/ r.checkpointing
           q == [r EXCEPT !.checkpointing = FALSE, !.allowRestart = a]
<1>0. r \in InstanceRecord /\ Always(r) /\ (~overtaken => Calm(r)) /\ listed \in Obj
    BY ListedRecord
<1>1. /\ sleep \in {"aborting", "aborting_lost"} /\ sleep' = "none" /\ lock' = "free" /\ asleep' = asleep
      /\ UNCHANGED <<conn, waker, agent, reply, broken, image, listed, used, overtaken>>
    BY DEF AbortCheckpoint, SleepStep, agentVars
<1>2. lock = "sleep" /\ ~asleep /\ \A c \in Conns : waker[c] \notin Busy
    BY <1>1, SleepHolds DEF Working, Reopened
<1>3. inst' = [inst EXCEPT ![listed] = q]
    <2>1. CASE r.checkpointing
        BY <1>0, <2>1 DEF AbortCheckpoint, InstanceRecord
    <2>2. CASE ~r.checkpointing
        <3>1. q = r
            BY <1>0, <2>2 DEF InstanceRecord
        <3>2. inst' = inst /\ inst \in [Obj -> InstanceRecord]
            BY <2>2 DEF AbortCheckpoint, Typed
        <3> QED BY <1>0, <3>1, <3>2
    <2> QED BY <2>1, <2>2
<1>4. r.checkpointing \in BOOLEAN /\ r.allowRestart \in BOOLEAN
    BY <1>0 DEF InstanceRecord
<1>5. a \in BOOLEAN
    BY <1>4
<1> HIDE DEF a
<1>6. /\ q \in InstanceRecord /\ q.tree = r.tree /\ q.mon = r.mon /\ q.st = r.st
      /\ q.watchers = r.watchers /\ q.retries = r.retries /\ ~q.checkpointing /\ q.allowRestart = a
    BY <1>0, <1>5 DEF InstanceRecord
<1> HIDE DEF q
<1>7. Always(q)
    BY <1>0, <1>6 DEF Always
<1>8. ASSUME ~overtaken PROVE Calm(q) /\ (image = 0 \/ broken)
    <2>1. (r.mon = "exited" => r.tree # "alive") /\ (image = 0 \/ broken)
        BY <1>1, <1>8 DEF Working, Orderly, SleepPhase
    <2> QED BY <1>0, <1>6, <1>8, <2>1 DEF Calm, Frozen
<1>9. /\ inst' \in [Obj -> InstanceRecord] /\ inst'[listed'] = q
      /\ used' \in Obj /\ listed' \in 1..used' /\ image' \in 0..used'
      /\ Objects' /\ (~overtaken => Records')
    BY <1>1, <1>3, <1>6, <1>7, <1>8, ListedKeeps
<1>10. Typed' /\ Locks' /\ Reopened'
    BY <1>1, <1>2, <1>9, WarmTierAssumption DEF Typed, Working, Locks, Reopened
<1>11. Channel'
    BY <1>1, <1>2 DEF Working, Channel, Busy
<1>12. ~overtaken => Images' /\ SleepPhase' /\ WakePhase' /\ RestPhase'
    BY <1>1, <1>2, <1>8 DEF Images, SleepPhase, WakePhase, RestPhase, Busy
<1> QED BY <1>1, <1>9, <1>10, <1>11, <1>12 DEF Working, Orderly

LEMMA CompleteKeeps ==
    ASSUME Typed, Working, CompleteCheckpoint
    PROVE  Typed' /\ Working'
<1> DEFINE r == inst[listed]
           s == IF r.checkpointing THEN "checkpointed" ELSE r.st
           q == [r EXCEPT !.st = s]
<1>0. r \in InstanceRecord /\ Always(r) /\ (~overtaken => Calm(r)) /\ listed \in Obj
    BY ListedRecord
<1>1. /\ sleep = "complete" /\ sleep' = "none" /\ lock' = "free" /\ asleep' = asleep
      /\ UNCHANGED <<conn, waker, agent, reply, broken, image, listed, used, overtaken>>
    BY DEF CompleteCheckpoint, SleepStep, agentVars
<1>2. lock = "sleep" /\ \A c \in Conns : waker[c] \notin Busy
    BY <1>1, SleepHolds DEF Working
<1>3. inst' = [inst EXCEPT ![listed] = q]
    <2>1. CASE r.checkpointing
        BY <1>0, <2>1 DEF CompleteCheckpoint, InstanceRecord
    <2>2. CASE ~r.checkpointing
        <3>1. q = r
            BY <1>0, <2>2 DEF InstanceRecord
        <3>2. inst' = inst /\ inst \in [Obj -> InstanceRecord]
            BY <2>2 DEF CompleteCheckpoint, Typed
        <3> QED BY <1>0, <3>1, <3>2
    <2> QED BY <2>1, <2>2
<1>4. s \in {"none", "running", "stopped", "failed", "checkpointed"}
    BY <1>0 DEF InstanceRecord
<1>5. (r.checkpointing => s = "checkpointed") /\ (~r.checkpointing => s = r.st)
    OBVIOUS
<1> HIDE DEF s
<1>6. /\ q \in InstanceRecord /\ q.tree = r.tree /\ q.mon = r.mon /\ q.st = s
      /\ q.watchers = r.watchers /\ q.retries = r.retries /\ q.checkpointing = r.checkpointing
      /\ q.allowRestart = r.allowRestart
    BY <1>0, <1>4 DEF InstanceRecord
<1> HIDE DEF q
<1>7. Always(q)
    BY <1>0, <1>5, <1>6 DEF Always
<1>8. ASSUME ~overtaken PROVE Calm(q) /\ Down(q) /\ Frozen(q)
    <2>1. r.checkpointing /\ r.tree # "alive"
        BY <1>1, <1>8 DEF Working, Orderly, SleepPhase
    <2> QED BY <1>0, <1>5, <1>6, <1>8, <2>1 DEF Always, Calm, Frozen, Down
<1>9. /\ inst' \in [Obj -> InstanceRecord] /\ inst'[listed'] = q
      /\ used' \in Obj /\ listed' \in 1..used' /\ image' \in 0..used'
      /\ Objects' /\ (~overtaken => Records')
    BY <1>1, <1>3, <1>6, <1>7, <1>8, ListedKeeps
<1>10. Typed' /\ Locks' /\ Reopened'
    BY <1>1, <1>2, <1>9, WarmTierAssumption DEF Typed, Working, Locks, Reopened
<1>11. Channel'
    BY <1>1, <1>2 DEF Working, Channel, Busy
<1>12. ~overtaken => Images' /\ SleepPhase' /\ WakePhase' /\ RestPhase'
    BY <1>1, <1>2, <1>8, <1>9 DEF Working, Orderly, Images, SleepPhase, WakePhase, RestPhase, Busy, Frozen
<1> QED BY <1>1, <1>9, <1>10, <1>11, <1>12 DEF Working, Orderly

-----------------------------------------------------------------------------
(* Coordinator.Wake.                                                       *)
LEMMA WakeLockKeeps ==
    ASSUME Typed, Working, NEW c \in Conns, WakeLock(c)
    PROVE  Typed' /\ Working'
<1>1. /\ waker[c] = "queued"
      /\ UNCHANGED <<asleep, conn, sleep, agent, reply, broken, image, inst, listed, used, overtaken>>
    BY DEF WakeLock, WakeStep, agentVars, workVars
<1>2. conn[c] # "opened"
    BY <1>1 DEF Working, Locks
<1>3. CASE lock' = lock /\ (waker' = [waker EXCEPT ![c] = "failed"] \/ waker' = [waker EXCEPT ![c] = "ok"])
    <2>1. waker' \in [Conns -> WakerSteps]
        BY <1>3 DEF Typed, WakerSteps
    <2>2. \A d \in Conns : waker'[d] = waker[d] \/ (waker[d] \notin Busy /\ waker'[d] \notin Busy)
        BY <1>1, <1>3 DEF Typed, Busy
    <2>3. \A d \in Conns : conn'[d] = "opened" => waker'[d] = "none"
        BY <1>1, <1>2, <1>3 DEF Typed, Working, Locks
    <2>4. conn' \in [Conns -> {"none", "opened", "observing", "waking", "woken", "serving"}]
        BY <1>1 DEF Typed
    <2> QED BY <1>1, <1>3, <2>1, <2>2, <2>3, <2>4, OutsideKeeps
<1>4. CASE lock = "free" /\ asleep /\ lock' = c /\ waker' = [waker EXCEPT ![c] = "locked"]
    <2>1. Typed' /\ waker'[c] = "locked" /\ \A d \in Conns : d # c => waker'[d] = waker[d]
        BY <1>1, <1>4 DEF Typed, WakerSteps
    <2>2. c # "free" /\ c # "sleep" /\ (\A d \in Conns : d # "free" /\ waker[d] \notin Busy) /\ sleep = "none"
        BY <1>4, WarmTierAssumption DEF Working, Locks
    <2>3. Locks'
        BY <1>1, <1>2, <1>4, <2>1, <2>2 DEF Working, Locks, Busy
    <2>4. Channel' /\ Reopened' /\ Objects'
        BY <1>1, <2>1, <2>2 DEF Working, Channel, Reopened, Objects, Busy
    <2>5. ASSUME ~overtaken PROVE Orderly'
        <3>1. Orderly /\ Down(inst[listed])
            BY <1>4, <2>5 DEF Working, Orderly, RestPhase
        <3>2. Records' /\ Images' /\ SleepPhase'
            BY <1>1, <3>1 DEF Orderly, Records, Images, SleepPhase
        <3>3. WakePhase' /\ RestPhase'
            BY <1>1, <1>4, <2>1, <2>2, <3>1 DEF WakePhase, RestPhase, Busy
        <3> QED BY <3>2, <3>3 DEF Orderly
    <2> QED BY <1>1, <2>1, <2>3, <2>4, <2>5 DEF Working
<1> QED BY <1>3, <1>4 DEF WakeLock, WakeStep

(* The steps of a Wake that has opMu, while the workload stays as it is.   *)
LEMMA WakeTalksKeeps ==
    ASSUME Typed, Working, NEW c \in Conns,
           RestoreSend(c) \/ RestoreReply(c) \/ WakeDone(c) \/ ColdStarted(c)
    PROVE  Typed' /\ Working'
<1>1. waker[c] \in Busy /\ UNCHANGED <<conn, sleep, image, inst, listed, used, overtaken>>
    BY DEF RestoreSend, RestoreReply, WakeDone, ColdStarted, Unlock, WakeStep, Busy, Sent, Unsent,
        agentVars, workVars
<1>2. /\ lock = c /\ c # "free" /\ c # "sleep" /\ sleep = "none"
      /\ \A d \in Conns : d # c => waker[d] \notin Busy /\ d # "free"
    BY <1>1, WakeHolds, WarmTierAssumption DEF Working
<1>3. conn[c] # "opened"
    BY <1>1 DEF Working, Locks, Busy
<1>4. PICK pc \in WakerSteps :
          /\ waker' = [waker EXCEPT ![c] = pc]
          /\ \/ pc \notin Busy /\ lock' = "free"
             \/ pc \in Busy /\ lock' = lock
          /\ \/ /\ waker[c] = "locked" /\ reply' = reply /\ asleep' = asleep
                /\ \/ pc = "failed" /\ agent' = agent /\ broken' = broken
                   \/ pc = "await" /\ ~broken /\ broken' = broken /\ agent' = "restore"
                   \/ pc = "cold" /\ broken' /\ agent' = agent
             \/ /\ waker[c] = "await" /\ reply # "none" /\ reply' = "none" /\ asleep' = asleep
                /\ agent' = agent /\ broken' = broken
                /\ \/ reply = "ok" /\ pc = "restored"
                   \/ reply = "refused" /\ pc = "failed"
                   \/ reply = "gone" /\ pc = "cold"
             \/ /\ waker[c] \in {"awake", "cold_started"} /\ pc = "ok" /\ ~asleep'
                /\ UNCHANGED <<agent, reply, broken>>
    BY DEF RestoreSend, RestoreReply, WakeDone, ColdStarted, Unlock, WakeStep, Busy, Sent, Unsent,
        agentVars, WakerSteps
<1>5. Typed' /\ waker'[c] = pc /\ \A d \in Conns : d # c => waker'[d] = waker[d]
    BY <1>1, <1>4 DEF Typed
<1>6. Locks' /\ Reopened' /\ Objects'
    BY <1>1, <1>2, <1>3, <1>4, <1>5, WarmTierAssumption DEF Working, Locks, Reopened, Objects
<1>7. \A d \in Conns : (waker[d] = "await" \/ waker'[d] = "await") => d = c
    BY <1>2, <1>5 DEF Busy
<1>8. Channel'
    BY <1>1, <1>2, <1>4, <1>5, <1>7 DEF Working, Channel, Busy
<1>9. ASSUME ~overtaken PROVE Orderly'
    <2>1. Orderly
        BY <1>9 DEF Working
    <2>2. Records' /\ SleepPhase'
        BY <1>1, <1>2, <2>1 DEF Orderly, Records, SleepPhase
    <2>3. Images'
        BY <1>1, <1>4, <2>1 DEF Orderly, Images
    <2>4. waker[c] = "locked" => reply = "none"
        BY <1>2, <1>7 DEF Working, Channel
    <2>5. WakePhase'
        BY <1>1, <1>2, <1>4, <1>5, <2>1, <2>4 DEF Orderly, WakePhase, Busy
    <2>6. RestPhase'
        BY <1>1, <1>2, <1>4, <2>1, <2>4 DEF Orderly, WakePhase, RestPhase, Busy
    <2> QED BY <2>2, <2>3, <2>5, <2>6 DEF Orderly
<1> QED BY <1>1, <1>5, <1>6, <1>8, <1>9 DEF Working

(* EndCheckpoint: the restored process is the listed one, and nothing else *)
(* runs; the monitor of the dumped process may still have to record it.    *)
LEMMA EndKeeps ==
    ASSUME Typed, Working, NEW c \in Conns, EndCheckpoint(c)
    PROVE  Typed' /\ Working'
<1> DEFINE r == inst[listed]
           q == [r EXCEPT !.st = "running", !.checkpointing = FALSE, !.allowRestart = TRUE,
                          !.watchers = r.watchers + 1]
<1>0. r \in InstanceRecord /\ Always(r) /\ (~overtaken => Calm(r)) /\ listed \in Obj
    BY ListedRecord
<1>1. /\ waker[c] = "restored" /\ waker' = [waker EXCEPT ![c] = "awake"]
      /\ UNCHANGED <<asleep, conn, lock, sleep, agent, reply, broken, image, listed, used>>
    BY DEF EndCheckpoint, WakeStep, coordVars, agentVars
<1>2. /\ lock = c /\ c # "free" /\ c # "sleep" /\ sleep = "none"
      /\ \A d \in Conns : d # c => waker[d] \notin Busy
    BY <1>1, WakeHolds DEF Working, Busy
<1>3. waker'[c] = "awake" /\ waker' \in [Conns -> WakerSteps] /\ \A d \in Conns : d # c => waker'[d] = waker[d]
    BY <1>1 DEF Typed, WakerSteps
<1>4. Locks' /\ Reopened'
    BY <1>1, <1>2, <1>3 DEF Working, Locks, Reopened, Busy
<1>5. Channel'
    BY <1>1, <1>2, <1>3 DEF Working, Channel, Busy
<1>6. SleepPhase' /\ WakePhase' /\ RestPhase'
    BY <1>1, <1>2, <1>3 DEF SleepPhase, WakePhase, RestPhase, Busy
<1>7. ~overtaken => image = 0 /\ Frozen(r)
    BY <1>1 DEF Working, Orderly, WakePhase
<1>8. ~overtaken => Images'
    BY <1>1, <1>7 DEF Images
<1>9. CASE r.st # "checkpointed"
    <2>1. inst' = inst /\ overtaken' = overtaken
        BY <1>9 DEF EndCheckpoint
    <2>2. overtaken
        BY <1>7, <1>9 DEF Frozen
    <2>3. Typed' /\ Objects'
        BY <1>1, <1>3, <2>1 DEF Typed, Working, Objects
    <2> QED BY <1>4, <1>5, <2>1, <2>2, <2>3 DEF Working
<1>10. CASE r.st = "checkpointed"
    <2>1. inst' = [inst EXCEPT ![listed] = q] /\ overtaken' = (overtaken \/ r.mon = "exited")
        BY <1>10 DEF EndCheckpoint
    <2>2. r.watchers \in Nat /\ r.watchers + 1 \in Nat /\ r.mon \in {"none", "wait", "exited", "done"}
        BY <1>0 DEF InstanceRecord
    <2>3. /\ q \in InstanceRecord /\ q.tree = r.tree /\ q.mon = r.mon /\ q.st = "running"
          /\ q.watchers = r.watchers + 1 /\ q.retries = r.retries /\ ~q.checkpointing /\ q.allowRestart
        BY <1>0, <2>2 DEF InstanceRecord
    <2> HIDE DEF q, r
    <2>4. Always(q)
        BY <1>0, <1>10, <2>3 DEF Always
    <2>5. ~overtaken' => ~overtaken /\ Calm(q)
        BY <1>0, <1>7, <1>10, <2>1, <2>2, <2>3 DEF Always, Calm, Frozen
    <2>6. inst'[listed] = q /\ inst' \in [Obj -> InstanceRecord] /\ \A p \in Obj : p # listed => inst'[p] = inst[p]
        BY <1>0, <2>1, <2>3 DEF Typed
    <2>7. Typed'
        BY <1>1, <1>3, <2>6 DEF Typed
    <2>8. Objects'
        BY <2>4, <2>6 DEF Working, Objects
    <2>9. ~overtaken' => Records'
        BY <1>1, <2>5, <2>6 DEF Working, Orderly, Records
    <2> QED BY <1>4, <1>5, <1>6, <1>8, <2>5, <2>7, <2>8, <2>9 DEF Working, Orderly
<1> QED BY <1>9, <1>10

LEMMA ColdStartKeeps ==
    ASSUME Typed, Working, NEW c \in Conns, ColdStart(c)
    PROVE  Typed' /\ Working'
<1> DEFINE r == inst[listed]
           q == [r EXCEPT !.checkpointing = FALSE]
<1>0. r \in InstanceRecord /\ Always(r) /\ (~overtaken => Calm(r)) /\ listed \in Obj
    BY ListedRecord
<1>1. /\ waker[c] = "cold" /\ waker' = [waker EXCEPT ![c] = "cold_started"]
      /\ UNCHANGED <<asleep, conn, lock, sleep, agent, reply, broken, image, overtaken>>
    BY DEF ColdStart, WakeStep, agentVars
<1>2. /\ lock = c /\ c # "free" /\ c # "sleep" /\ sleep = "none"
      /\ \A d \in Conns : d # c => waker[d] \notin Busy
    BY <1>1, WakeHolds DEF Working, Busy
<1>3. waker'[c] = "cold_started" /\ waker' \in [Conns -> WakerSteps]
      /\ \A d \in Conns : d # c => waker'[d] = waker[d]
    BY <1>1 DEF Typed, WakerSteps
<1>4. Locks' /\ Reopened'
    BY <1>1, <1>2, <1>3 DEF Working, Locks, Reopened, Busy
<1>5. Channel'
    BY <1>1, <1>2, <1>3 DEF Working, Channel, Busy
<1>6. SleepPhase' /\ WakePhase' /\ RestPhase'
    BY <1>1, <1>2, <1>3 DEF SleepPhase, WakePhase, RestPhase, Busy
<1>7. ~overtaken => (image = 0 \/ broken) /\ Down(r)
    BY <1>1 DEF Working, Orderly, WakePhase
<1>8. ~overtaken => Images'
    BY <1>1, <1>7 DEF Images
<1>9. CASE r.st # "checkpointed"
    <2>1. UNCHANGED <<inst, listed, used>>
        BY <1>9 DEF ColdStart
    <2>2. Typed' /\ Objects' /\ (~overtaken => Records')
        BY <1>1, <1>3, <2>1 DEF Typed, Working, Objects, Orderly, Records
    <2> QED BY <1>1, <1>4, <1>5, <1>6, <1>8, <2>2 DEF Working, Orderly
<1>10. CASE r.st = "checkpointed"
    <2>1. /\ used < MaxObj /\ listed' = used + 1 /\ used' = used + 1
          /\ inst' = [inst EXCEPT ![listed] = q, ![used + 1] = startInstance]
        BY <1>10 DEF ColdStart, Recovered
    <2>2. /\ q \in InstanceRecord /\ q.tree = r.tree /\ q.mon = r.mon /\ q.st = r.st
          /\ q.watchers = r.watchers /\ q.retries = r.retries /\ ~q.checkpointing
          /\ q.allowRestart = r.allowRestart
        BY <1>0 DEF InstanceRecord
    <2> HIDE DEF q, r
    <2>3. Always(q) /\ (~overtaken => Calm(q) /\ Past(q))
        BY <1>0, <1>7, <1>10, <2>2 DEF Always, Calm, Past, Down, Frozen
    <2>4. /\ inst' \in [Obj -> InstanceRecord] /\ used' \in Obj /\ listed' \in 1..used'
          /\ image' \in 0..used' /\ Objects' /\ (~overtaken => Records')
        BY <1>0, <1>1, <2>1, <2>2, <2>3, Replaced
    <2>5. Typed'
        BY <1>1, <1>3, <2>4 DEF Typed
    <2> QED BY <1>1, <1>4, <1>5, <1>6, <1>8, <2>4, <2>5 DEF Working, Orderly
<1> QED BY <1>9, <1>10

LEMMA ColdStartFailsKeeps ==
    ASSUME Typed, Working, NEW c \in Conns, ColdStartFails(c)
    PROVE  Typed' /\ Working'
<1> DEFINE r == inst[listed]
           q == [r EXCEPT !.checkpointing = FALSE, !.st = "failed"]
<1>0. r \in InstanceRecord /\ Always(r) /\ (~overtaken => Calm(r)) /\ listed \in Obj
    BY ListedRecord
<1>1. /\ waker[c] = "cold" /\ waker' = [waker EXCEPT ![c] = "failed"] /\ lock' = "free"
      /\ r.st = "checkpointed" /\ inst' = [inst EXCEPT ![listed] = q]
      /\ UNCHANGED <<asleep, conn, sleep, agent, reply, broken, image, listed, used, overtaken>>
    BY DEF ColdStartFails, Unlock, WakeStep, agentVars
<1>2. /\ lock = c /\ c # "free" /\ c # "sleep" /\ sleep = "none" /\ conn[c] # "opened"
      /\ \A d \in Conns : d # c => waker[d] \notin Busy
    BY <1>1, WakeHolds DEF Working, Busy, Locks
<1>3. waker'[c] = "failed" /\ waker' \in [Conns -> WakerSteps]
      /\ \A d \in Conns : d # c => waker'[d] = waker[d]
    BY <1>1 DEF Typed, WakerSteps
<1>4. Locks' /\ Reopened'
    BY <1>1, <1>2, <1>3, WarmTierAssumption DEF Working, Locks, Reopened, Busy
<1>5. Channel'
    BY <1>1, <1>2, <1>3 DEF Working, Channel, Busy
<1>6. SleepPhase' /\ WakePhase'
    BY <1>1, <1>2, <1>3 DEF SleepPhase, WakePhase, Busy
<1>7. ~overtaken => (image = 0 \/ broken) /\ Down(r)
    BY <1>1 DEF Working, Orderly, WakePhase
<1>8. /\ q \in InstanceRecord /\ q.tree = r.tree /\ q.mon = r.mon /\ q.st = "failed"
      /\ q.watchers = r.watchers /\ q.retries = r.retries /\ ~q.checkpointing
      /\ q.allowRestart = r.allowRestart
    BY <1>0 DEF InstanceRecord
<1> HIDE DEF q
<1>9. Always(q) /\ (~overtaken => Calm(q) /\ Down(q))
    BY <1>0, <1>1, <1>7, <1>8 DEF Always, Calm, Down, Frozen
<1>10. /\ inst' \in [Obj -> InstanceRecord] /\ inst'[listed'] = q
       /\ used' \in Obj /\ listed' \in 1..used' /\ image' \in 0..used'
       /\ Objects' /\ (~overtaken => Records')
    BY <1>1, <1>8, <1>9, ListedKeeps
<1>11. Typed'
    BY <1>1, <1>3, <1>10 DEF Typed
<1>12. ~overtaken => Images' /\ RestPhase'
    BY <1>1, <1>7, <1>9, <1>10 DEF Images, RestPhase
<1> QED BY <1>1, <1>4, <1>5, <1>6, <1>10, <1>11, <1>12 DEF Working, Orderly

-----------------------------------------------------------------------------
(* The agent.  Whoever waits for it is alone, and the channel is whole.    *)
LEMMA DumpKeeps ==
    ASSUME Typed, Working, AgentDumps
    PROVE  Typed' /\ Working'
<1> DEFINE r == inst[listed]
           m == IF r.mon = "wait" THEN "exited" ELSE r.mon
           q == [r EXCEPT !.tree = "dead", !.mon = m]
<1>0. r \in InstanceRecord /\ Always(r) /\ (~overtaken => Calm(r)) /\ listed \in Obj
    BY ListedRecord
<1>1. /\ agent = "dump" /\ agent' = "none" /\ image' = listed
      /\ UNCHANGED <<asleep, conn, waker, lock, sleep, broken, listed, used, overtaken>>
    BY DEF AgentDumps, Answers, proxyVars, coordVars
<1>2. sleep = "await" /\ reply = "none" /\ ~broken
    BY <1>1 DEF Working, Channel
<1>3. lock = "sleep" /\ \A c \in Conns : waker[c] \notin Busy
    BY <1>2, SleepHolds DEF Working
<1>4. reply' = "ok" /\ inst' = [inst EXCEPT ![listed] = q]
    BY <1>2 DEF AgentDumps, Answers, Exits
<1>5. /\ q \in InstanceRecord /\ q.tree = "dead" /\ q.mon = m /\ q.st = r.st /\ q.watchers = r.watchers
      /\ q.retries = r.retries /\ q.checkpointing = r.checkpointing /\ q.allowRestart = r.allowRestart
    BY <1>0 DEF InstanceRecord
<1> HIDE DEF q
<1>6. Always(q) /\ (~overtaken => Calm(q))
    BY <1>0, <1>5 DEF Always, Calm, Frozen
<1>7. inst' \in [Obj -> InstanceRecord] /\ inst'[listed] = q /\ \A p \in Obj : p # listed => inst'[p] = inst[p]
    BY <1>0, <1>4, <1>5 DEF Typed
<1>8. Typed' /\ Objects' /\ (~overtaken => Records')
    <2>1. Typed'
        BY <1>1, <1>7, WarmTierAssumption DEF Typed, Obj
    <2>2. Objects'
        BY <1>6, <1>7 DEF Working, Objects
    <2>3. ~overtaken => Records'
        BY <1>1, <1>6, <1>7 DEF Working, Orderly, Records
    <2> QED BY <2>1, <2>2, <2>3
<1>9. Locks' /\ Reopened' /\ Channel'
    BY <1>1, <1>2, <1>3 DEF Working, Locks, Reopened, Channel
<1>10. ~overtaken => q.checkpointing
    BY <1>2, <1>5 DEF Working, Orderly, SleepPhase
<1>11. ~overtaken => Images' /\ SleepPhase' /\ WakePhase' /\ RestPhase'
    BY <1>1, <1>2, <1>3, <1>4, <1>5, <1>7, <1>10 DEF Images, SleepPhase, WakePhase, RestPhase, Busy
<1> QED BY <1>1, <1>8, <1>9, <1>11 DEF Working, Orderly

LEMMA RestoreKeeps ==
    ASSUME Typed, Working, AgentRestores
    PROVE  Typed' /\ Working'
<1> DEFINE r == inst[image]
           q == [r EXCEPT !.tree = "alive"]
<1>1. /\ agent = "restore" /\ agent' = "none" /\ image # 0 /\ image' = 0
      /\ inst' = [inst EXCEPT ![image] = q]
      /\ UNCHANGED <<asleep, conn, waker, lock, sleep, broken, listed, used, overtaken>>
    BY DEF AgentRestores, Answers, proxyVars, coordVars
<1>2. PICK c \in Conns : waker[c] = "await"
    BY <1>1 DEF Working, Channel
<1>3. reply = "none" /\ ~broken
    BY <1>1, <1>2 DEF Working, Channel
<1>4. lock = c /\ lock # "free" /\ sleep = "none" /\ \A d \in Conns : d # c => waker[d] \notin Busy
    BY <1>2, WakeHolds DEF Working, Busy
<1>5. reply' = "ok" /\ image \in Obj
    BY <1>1, <1>3, WarmTierAssumption DEF AgentRestores, Answers, Typed, Obj
<1>6. r \in InstanceRecord /\ Always(r) /\ (~overtaken => Calm(r))
    BY <1>5 DEF Typed, Working, Objects, Orderly, Records
<1>7. /\ q \in InstanceRecord /\ q.tree = "alive" /\ q.mon = r.mon /\ q.st = r.st /\ q.watchers = r.watchers
      /\ q.retries = r.retries /\ q.checkpointing = r.checkpointing /\ q.allowRestart = r.allowRestart
    BY <1>6 DEF InstanceRecord
<1>8. ~overtaken => image = listed /\ Frozen(r)
    BY <1>1, <1>3, <1>4 DEF Working, Orderly, Images, Frozen
<1> HIDE DEF q, r
<1>9. Always(q) /\ (~overtaken => Calm(q) /\ Frozen(q))
    BY <1>6, <1>7, <1>8 DEF Always, Calm, Frozen
<1>10. inst' \in [Obj -> InstanceRecord] /\ inst'[image] = q /\ \A p \in Obj : p # image => inst'[p] = inst[p]
    BY <1>1, <1>5, <1>7 DEF Typed
<1>11. Typed' /\ Objects' /\ (~overtaken => Records')
    <2>1. Typed'
        BY <1>1, <1>10, WarmTierAssumption DEF Typed, Obj
    <2>2. Objects'
        BY <1>9, <1>10 DEF Working, Objects
    <2>3. ~overtaken => Records'
        BY <1>1, <1>8, <1>9, <1>10 DEF Working, Orderly, Records
    <2> QED BY <2>1, <2>2, <2>3
<1>12. Locks' /\ Reopened' /\ Channel'
    BY <1>1, <1>2, <1>3 DEF Working, Locks, Reopened, Channel
<1>13. ~overtaken => Images' /\ SleepPhase' /\ RestPhase'
    BY <1>1, <1>4 DEF Images, SleepPhase, RestPhase
<1>14. ~overtaken => WakePhase'
    BY <1>1, <1>2, <1>4, <1>5, <1>8, <1>9, <1>10 DEF WakePhase, Busy
<1> QED BY <1>1, <1>11, <1>12, <1>13, <1>14 DEF Working, Orderly

LEMMA RefusalKeeps ==
    ASSUME Typed, Working, AgentRefuses \/ AgentLosesImage
    PROVE  Typed' /\ Working'
<1>1. /\ agent' = "none" /\ agent \in {"dump", "restore"}
      /\ UNCHANGED <<asleep, conn, waker, lock, sleep, broken, inst, listed, used, overtaken>>
    BY DEF AgentRefuses, AgentLosesImage, Answers, proxyVars, coordVars, workVars
<1>2. \/ sleep = "await" \/ \E c \in Conns : waker[c] = "await"
    BY <1>1 DEF Working, Channel
<1>3. reply = "none" /\ ~broken /\ (agent = "dump" => sleep = "await")
      /\ (agent = "restore" => sleep = "none")
    BY <1>1, <1>2, WakeHolds DEF Working, Channel, Busy
<1>4. \/ reply' = "refused" /\ image' = image
      \/ reply' = "gone" /\ image' = 0 /\ agent = "restore"
    BY <1>3 DEF AgentRefuses, AgentLosesImage, Answers
<1>5. Typed' /\ Objects'
    BY <1>1, <1>4, WarmTierAssumption DEF Typed, Obj, Working, Objects
<1>6. Locks' /\ Reopened' /\ Channel'
    BY <1>1, <1>2, <1>3 DEF Working, Locks, Reopened, Channel
<1>7. ASSUME ~overtaken PROVE Orderly'
    <2>1. Orderly
        BY <1>7 DEF Working
    <2>2. Records' /\ Images' /\ RestPhase'
        BY <1>1, <1>4, <2>1 DEF Orderly, Records, Images, RestPhase
    <2>3. SleepPhase'
        BY <1>1, <1>3, <1>4, <2>1 DEF Orderly, SleepPhase
    <2>4. sleep = "await" => \A c \in Conns : waker[c] \notin Busy
        BY SleepHolds DEF Working
    <2>5. WakePhase'
        BY <1>1, <1>3, <1>4, <2>1, <2>4 DEF Orderly, WakePhase, Busy
    <2> QED BY <2>2, <2>3, <2>5 DEF Orderly
<1> QED BY <1>1, <1>5, <1>6, <1>7 DEF Working

(* fenceUncertain: somebody waits, so opMu is held; every tree ends.       *)
LEMMA FenceHolds ==
    ASSUME Typed, Working, fenceUncertain
    PROVE  Typed' /\ Fence' /\ fenced'
<1>1. /\ fenced' = TRUE /\ asleep' = TRUE
      /\ UNCHANGED <<conn, waker, lock, image, listed, used>>
      /\ inst' = [o \in Obj |-> IF inst[o].tree = "alive" THEN [inst[o] EXCEPT !.tree = "dead"] ELSE inst[o]]
    BY DEF fenceUncertain
<1>2. lock # "free"
    <2>1. CASE sleep = "await"
        BY <2>1, SleepHolds DEF Working
    <2>2. CASE \E c \in Conns : waker[c] = "await"
        BY <2>2, WakeHolds DEF Working, Busy
    <2> QED BY <2>1, <2>2 DEF fenceUncertain, Waiting
<1>3. \A o \in Obj : inst[o] \in InstanceRecord
    BY DEF Typed
<1>4. \A o \in Obj : inst'[o] \in InstanceRecord /\ inst'[o].tree # "alive"
    <2> SUFFICES ASSUME NEW o \in Obj PROVE inst'[o] \in InstanceRecord /\ inst'[o].tree # "alive"
        OBVIOUS
    <2>1. CASE inst[o].tree = "alive"
        <3>1. inst'[o] = [inst[o] EXCEPT !.tree = "dead"]
            BY <1>1, <2>1
        <3> QED BY <1>3, <3>1 DEF InstanceRecord
    <2>2. CASE inst[o].tree # "alive"
        BY <1>1, <1>3, <2>2
    <2> QED BY <2>1, <2>2
<1>5. inst' \in [Obj -> InstanceRecord]
    BY <1>1, <1>4
<1> QED BY <1>1, <1>2, <1>4, <1>5 DEF Typed, Fence

(* One case per action; the fence ends everything.                         *)
LEMMA NextIInv == IInv /\ [Next]_vars => IInv'
<1> SUFFICES ASSUME IInv, [Next]_vars PROVE IInv'
    OBVIOUS
<1>1. CASE UNCHANGED vars
    <2>1. UNCHANGED <<asleep, conn, waker, lock, sleep, fenced, agent, reply, broken, image, inst, listed, used,
                      overtaken>>
        BY <1>1 DEF vars, proxyVars, coordVars, agentVars, workVars
    <2>2. Typed' = Typed /\ Fence' = Fence /\ Locks' = Locks /\ Channel' = Channel /\ Objects' = Objects
          /\ Reopened' = Reopened
        BY <2>1 DEF Typed, Fence, Locks, Channel, Objects, Reopened
    <2>3. Records' = Records /\ Images' = Images /\ SleepPhase' = SleepPhase /\ WakePhase' = WakePhase
          /\ RestPhase' = RestPhase
        BY <2>1 DEF Records, Images, SleepPhase, WakePhase, RestPhase
    <2> QED BY <2>1, <2>2, <2>3 DEF IInv, Working, Orderly
<1>2. CASE ~fenced /\ Next
    <2>1. Typed /\ Working
        BY <1>2 DEF IInv
    <2>2. CASE fenceUncertain
        BY <2>1, <2>2, FenceHolds DEF IInv
    <2>3. CASE ~fenceUncertain
        <3>1. fenced' = fenced
            BY <1>2, <2>3 DEF Next, Accept, HandlerStep, CheckAsleep, AfterWake, handleObservation, Served,
                Handler, WakeSteps, WakeExpires, wake, WakerEnds, WakeLock, RestoreSend, RestoreReply,
                EndCheckpoint, WakeDone, ColdStart, ColdStarted, ColdStartFails, SleepBegin, SleepSteps,
                SleepMark, SleepCount, Quiesce, SleepRecount, BeginCheckpoint, CheckpointSend,
                CheckpointReply, AbortCheckpoint, CompleteCheckpoint, AgentStep, AgentDumps, AgentRestores,
                AgentRefuses, AgentLosesImage, Answers, WorkloadStep, Crash, RecordExit, monitorRestored,
                attemptRestart, attemptRestartFails, coordVars
        <3>2. Typed' /\ Working'
            BY <1>2, <2>1, <2>3, HandlerKeeps, WakeLockKeeps, WakeTalksKeeps, EndKeeps, ColdStartKeeps,
               ColdStartFailsKeeps, SleepEntersKeeps, BeginKeeps, SleepTalksKeeps, AbortKeeps, CompleteKeeps,
               DumpKeeps, RestoreKeeps, RefusalKeeps, WorkloadKeeps
               DEF Next, WakeSteps, SleepSteps, AgentStep
        <3> QED BY <1>2, <3>1, <3>2 DEF IInv
    <2> QED BY <2>2, <2>3
<1> QED BY <1>1, <1>2 DEF Next

(* The coordinator's lock, the control channel and the records of the      *)
(* instances agree in every state of the warm tier.                        *)
THEOREM Invariance == Spec => []IInv
<1>1. Init => IInv
    BY InitIInv
<1>2. IInv /\ [Next]_vars => IInv'
    BY NextIInv
<1> QED BY <1>1, <1>2, PTL DEF Spec

(* OneTree (restoreAndWake, fenceUncertain and RecoverCheckpointed): there *)
(* are never two process trees, unless a restore overtook the monitor of   *)
(* the dumped process.                                                     *)
THEOREM OneTreeOnly == Spec => []OneTree
<1>1. IInv => OneTree
    <2> SUFFICES ASSUME IInv, ~overtaken PROVE Cardinality(Trees) <= 1
        BY DEF OneTree
    <2>1. Trees \subseteq {listed}
        BY DEF IInv, Working, Orderly, Records, Past, Fence, Trees
    <2>2. IsFiniteSet({listed}) /\ Cardinality({listed}) = 1
        BY FS_Singleton
    <2>3. Cardinality(Trees) <= Cardinality({listed})
        BY <2>1, <2>2, FS_Subset
    <2> QED BY <2>2, <2>3
<1> QED BY <1>1, Invariance, PTL

-----------------------------------------------------------------------------
(* What the asleep flag means when only the idle loop calls sleep: a Sleep *)
(* of the API may find a client that Wake has answered, whose handler then *)
(* takes the mark back (AfterWake).                                        *)
Seen ==
    asleep \/ lock = "sleep" =>
        \A c \in Conns : conn[c] # "woken" /\ ~(conn[c] = "waking" /\ waker[c] = "ok")

Marked ==
    /\ sleep \in {"marked", "quiet", "recount", "begin", "send", "await", "complete"} => asleep
    /\ lock \in Conns => asleep

(* From the second count on nothing is served.                             *)
Drained == sleep \in {"begin", "send", "await", "complete"} => \A c \in Conns : conn[c] # "serving"

(* Images are there only from the dump to the restore, or to the cold      *)
(* start that gave them up.                                                *)
Spent ==
    /\ image # 0 => asleep \/ disabled
    /\ sleep \notin {"none", "await", "complete"} \/ (sleep = "await" /\ reply # "ok") => image = 0
    /\ \A c \in Conns : waker[c] \in {"restored", "awake"} \/ (waker[c] = "await" /\ reply = "ok") => image = 0
    /\ \A c \in Conns : waker[c] = "cold_started" => disabled /\ ~Dumped

Shielded ==
    Dumped => /\ asleep /\ \A c \in Conns : conn[c] # "serving"
              /\ sleep \in {"await", "complete"} \/ inst[listed].st = "checkpointed"

(* The probes are paused by the checkpoint under way, or by the one the    *)
(* workload sleeps on.                                                     *)
Unprobed ==
    paused /\ ~overtaken =>
        \/ sleep \in {"send", "await", "complete", "aborting", "aborting_lost"}
        \/ /\ asleep /\ lock # "sleep" /\ Frozen(inst[listed])
           /\ \A c \in Conns : waker[c] \notin {"awake", "cold_started"}

Flag == Seen /\ Marked /\ Drained /\ Spent /\ Shielded /\ Unprobed

(* Handlers and Wakes that do not have opMu.                               *)
LEMMA HandlerFlag ==
    ASSUME Typed, Working, Flag, NEW c \in Conns,
           \/ Accept(c) \/ HandlerStep(c) \/ Served(c) \/ WakeExpires(c) \/ wake(c) \/ WakerEnds(c)
    PROVE  Flag'
<1>1. UNCHANGED <<lock, sleep, disabled, agent, reply, broken, image, inst, listed, used, paused, overtaken>>
    BY DEF Accept, HandlerStep, CheckAsleep, AfterWake, handleObservation, Served, WakeExpires, wake,
        WakerEnds, Handler, coordVars, agentVars, workVars
<1>2. conn[c] = "woken" => ~asleep /\ lock # "sleep"
    BY DEF Flag, Seen
<1>3. (asleep' => asleep) /\ (asleep /\ ~asleep' => conn[c] = "woken")
    BY DEF Accept, HandlerStep, CheckAsleep, AfterWake, handleObservation, Served, WakeExpires, wake,
        WakerEnds
<1>4. asleep' <=> asleep
    BY <1>2, <1>3
<1>5. \A d \in Conns : waker'[d] = waker[d] \/ (waker[d] \notin Busy /\ waker'[d] \in {"queued", "none"})
    <2>1. CASE waker' = waker
        BY <2>1
    <2>2. CASE CheckAsleep(c)
        BY <2>2 DEF CheckAsleep, Typed, Busy, Working, Locks
    <2>3. CASE wake(c) \/ WakerEnds(c)
        BY <2>3 DEF wake, WakerEnds, Over, Typed, Busy
    <2> QED BY <2>1, <2>2, <2>3 DEF Accept, HandlerStep, AfterWake, handleObservation, Served, WakeExpires
<1>6. \A d \in Conns : conn'[d] # "serving" \/ conn[d] = "serving" \/ ~asleep
    BY <1>2 DEF Accept, HandlerStep, CheckAsleep, AfterWake, handleObservation, Served, WakeExpires, wake,
        WakerEnds, Handler, Typed
<1>7. \A d \in Conns : conn'[d] = "woken" => conn[d] = "woken" \/ (conn[d] = "waking" /\ waker[d] = "ok")
    BY DEF Accept, HandlerStep, CheckAsleep, AfterWake, handleObservation, Served, WakeExpires, wake,
        WakerEnds, Handler, Typed
<1>8. \A d \in Conns : conn'[d] = "waking" /\ waker'[d] = "ok" => conn[d] = "waking" /\ waker[d] = "ok"
    BY DEF Accept, HandlerStep, CheckAsleep, AfterWake, handleObservation, Served, WakeExpires, wake,
        WakerEnds, Handler, Over, Typed
<1>9. Seen' /\ Marked'
    BY <1>1, <1>4, <1>7, <1>8 DEF Flag, Seen, Marked
<1>10. Drained' /\ Shielded'
    BY <1>1, <1>4, <1>6 DEF Flag, Drained, Marked, Shielded, Dumped
<1>11. Spent' /\ Unprobed'
    BY <1>1, <1>4, <1>5 DEF Flag, Spent, Unprobed, Busy, Dumped
<1> QED BY <1>9, <1>10, <1>11 DEF Flag

(* The steps that can disturb Flag, one lemma each.                        *)
LEMMA WakeLockFlag ==
    ASSUME Typed, Working, Flag, NEW c \in Conns, WakeLock(c)
    PROVE  Flag'
<1>1. /\ waker[c] = "queued"
      /\ UNCHANGED <<asleep, conn, sleep, disabled, agent, reply, broken, image, inst, listed, used, paused, overtaken>>
    BY DEF WakeLock, WakeStep, agentVars, workVars
<1>2. PICK pc \in {"failed", "locked", "ok"} :
          /\ waker' = [waker EXCEPT ![c] = pc]
          /\ pc = "locked" => asleep /\ lock = "free" /\ lock' = c
          /\ pc # "locked" => lock' = lock
          /\ pc = "ok" => ~asleep /\ lock = "free"
    BY DEF WakeLock, WakeStep
<1>3. waker'[c] = pc /\ \A d \in Conns : d # c => waker'[d] = waker[d]
    BY <1>2 DEF Typed
<1>4. Seen' /\ Marked' /\ Drained' /\ Shielded'
    BY <1>1, <1>2, <1>3, WarmTierAssumption DEF Flag, Seen, Marked, Drained, Shielded, Dumped
<1>5. Spent'
    BY <1>1, <1>2, <1>3 DEF Flag, Spent, Dumped
<1>6. Unprobed'
    BY <1>1, <1>2, <1>3, WarmTierAssumption DEF Flag, Unprobed
<1> QED BY <1>4, <1>5, <1>6 DEF Flag

-----------------------------------------------------------------------------
(* Coordinator.sleep.  With image = 0 nothing is dumped.                   *)
LEMMA NoImage ==
    ASSUME Typed, image = 0
    PROVE  ~Dumped
BY WarmTierAssumption DEF Typed, Dumped, Obj

LEMMA SleepEntersFlag ==
    ASSUME TRUE \notin Requested, Typed, Working, Flag,
           (\E requested \in Requested : SleepBegin(requested)) \/ SleepMark \/ SleepCount
              \/ Quiesce \/ SleepRecount
    PROVE  Flag'
<1>1. UNCHANGED <<conn, waker, disabled, agent, reply, broken, image, inst, listed, used, paused, overtaken>>
    BY DEF SleepBegin, SleepMark, SleepCount, Quiesce, SleepRecount, BackOut, SleepStep, agentVars, workVars
<1>2. \/ /\ lock = "free" /\ ~asleep /\ ~disabled /\ lock' = "sleep" /\ sleep' = "decided" /\ asleep' = asleep
         /\ Open = {}
      \/ /\ sleep \in {"decided", "marked", "quiet", "recount"}
         /\ \/ lock' = "free" /\ sleep' = "none" /\ asleep' = FALSE
            \/ /\ lock' = lock /\ (asleep' <=> asleep \/ sleep = "decided")
               /\ \/ sleep' \in {"marked", "quiet", "recount"}
                  \/ sleep' = "begin" /\ Open = {}
    <2>1. \A requested \in Requested : requested \in BOOLEAN /\ requested # TRUE
        BY WarmTierAssumption
    <2>2. CASE \E requested \in Requested : SleepBegin(requested)
        BY <2>1, <2>2 DEF SleepBegin, SleepStep
    <2>3. CASE SleepMark \/ SleepCount \/ Quiesce \/ SleepRecount
        BY <2>3 DEF SleepMark, SleepCount, Quiesce, SleepRecount, BackOut, SleepStep
    <2> QED BY <2>2, <2>3
<1>3. Open = {} => \A c \in Conns : conn[c] = "none"
    BY DEF Open
<1>4. sleep \in {"decided", "marked", "quiet", "recount"} => lock = "sleep"
    BY SleepHolds DEF Working
<1>5. lock = "free" => sleep = "none"
    BY DEF Working, Locks
<1>6. Seen'
    BY <1>1, <1>2, <1>3, <1>4 DEF Flag, Seen
<1>7. Marked' /\ Drained'
    BY <1>1, <1>2, <1>3, <1>4, WarmTierAssumption DEF Flag, Marked, Drained
<1>8. image = 0 /\ ~Dumped
    BY <1>2, NoImage DEF Flag, Spent
<1>9. ~Dumped'
    BY <1>1, <1>8 DEF Dumped
<1>10. Spent' /\ Shielded'
    BY <1>1, <1>2, <1>8, <1>9 DEF Flag, Spent, Shielded
<1>11. Unprobed'
    BY <1>1, <1>2, <1>4, <1>5 DEF Flag, Unprobed
<1> QED BY <1>6, <1>7, <1>10, <1>11 DEF Flag

LEMMA BeginFlag ==
    ASSUME Typed, Working, Flag, BeginCheckpoint
    PROVE  Flag'
<1>1. /\ sleep = "begin"
      /\ UNCHANGED <<conn, waker, disabled, agent, reply, broken, image, listed, used, overtaken>>
    BY DEF BeginCheckpoint, SleepStep, BackOut, agentVars
<1>2. lock = "sleep" /\ asleep /\ image = 0 /\ (\A c \in Conns : conn[c] # "serving")
      /\ \A c \in Conns : waker[c] \notin Busy
    BY <1>1, SleepHolds DEF Working, Flag, Marked, Spent, Drained
<1>3. ~Dumped'
    BY <1>1, <1>2, WarmTierAssumption DEF Typed, Dumped, Obj
<1>4. \/ sleep' = "none" /\ lock' = "free" /\ ~asleep' /\ ~paused'
      \/ sleep' = "send" /\ UNCHANGED <<asleep, lock>>
    BY DEF BeginCheckpoint, SleepStep, BackOut
<1>5. Seen' /\ Marked' /\ Drained'
    BY <1>1, <1>2, <1>4, WarmTierAssumption DEF Flag, Seen, Marked, Drained
<1>6. Spent' /\ Shielded' /\ Unprobed'
    BY <1>1, <1>2, <1>3, <1>4 DEF Spent, Shielded, Unprobed, Busy
<1> QED BY <1>5, <1>6 DEF Flag

LEMMA SleepTalksFlag ==
    ASSUME Typed, Working, Flag, CheckpointSend \/ CheckpointReply
    PROVE  Flag'
<1>1. UNCHANGED <<conn, waker, lock, disabled, image, inst, listed, used, paused, overtaken>>
    BY DEF CheckpointSend, CheckpointReply, SleepStep, Sent, Unsent, agentVars, workVars
<1>2. \/ /\ sleep = "send" /\ reply' = reply
         /\ \/ sleep' = "await" /\ asleep' = asleep
            \/ sleep' \in {"aborting", "aborting_lost"} /\ ~asleep'
      \/ /\ sleep = "await" /\ reply' = "none"
         /\ \/ reply = "ok" /\ sleep' = "complete" /\ asleep' = asleep
            \/ reply # "ok" /\ sleep' = "aborting" /\ ~asleep'
    BY DEF CheckpointSend, CheckpointReply, SleepStep, Sent, Unsent, agentVars
<1>3. lock = "sleep" /\ (\A c \in Conns : waker[c] \notin Busy) /\ asleep
    BY <1>2, SleepHolds DEF Working, Flag, Marked
<1>4. sleep = "send" \/ reply # "ok" => image = 0 /\ ~Dumped
    BY <1>2, NoImage DEF Flag, Spent
<1>5. Dumped' <=> Dumped
    BY <1>1 DEF Dumped
<1>6. Seen' /\ Marked' /\ Drained'
    BY <1>1, <1>2, <1>3, WarmTierAssumption DEF Flag, Seen, Marked, Drained
<1>7. Spent'
    BY <1>1, <1>2, <1>3, <1>4 DEF Flag, Spent, Busy
<1>8. Shielded' /\ Unprobed'
    BY <1>1, <1>2, <1>3, <1>4, <1>5 DEF Flag, Shielded, Unprobed
<1> QED BY <1>6, <1>7, <1>8 DEF Flag

LEMMA AbortFlag ==
    ASSUME Typed, Working, Flag, AbortCheckpoint
    PROVE  Flag'
<1>1. /\ sleep \in {"aborting", "aborting_lost"} /\ sleep' = "none" /\ lock' = "free" /\ asleep' = asleep
      /\ ~paused' /\ (disabled => disabled')
      /\ UNCHANGED <<conn, waker, agent, reply, broken, image, listed, used, overtaken>>
    BY DEF AbortCheckpoint, SleepStep, agentVars
<1>2. ~asleep /\ image = 0 /\ \A c \in Conns : waker[c] \notin Busy
    BY <1>1, SleepHolds DEF Working, Reopened, Flag, Spent
<1>3. ~Dumped'
    BY <1>1, <1>2, WarmTierAssumption DEF Typed, Dumped, Obj
<1>4. Seen' /\ Marked' /\ Drained' /\ Unprobed' /\ Shielded'
    BY <1>1, <1>2, <1>3, WarmTierAssumption DEF Seen, Marked, Drained, Unprobed, Shielded
<1>5. Spent'
    BY <1>1, <1>2 DEF Spent, Busy
<1> QED BY <1>4, <1>5 DEF Flag

LEMMA CompleteFlag ==
    ASSUME Typed, Working, Flag, CompleteCheckpoint
    PROVE  Flag'
<1>1. /\ sleep = "complete" /\ sleep' = "none" /\ lock' = "free" /\ asleep' = asleep
      /\ UNCHANGED <<conn, waker, disabled, agent, reply, broken, image, listed, used, paused, overtaken>>
    BY DEF CompleteCheckpoint, SleepStep, agentVars
<1>2. /\ lock = "sleep" /\ asleep /\ (\A c \in Conns : waker[c] \notin Busy)
      /\ \A c \in Conns : conn[c] # "serving"
    BY <1>1, SleepHolds DEF Working, Flag, Marked, Drained
<1>3. listed \in Obj /\ inst \in [Obj -> InstanceRecord] /\ inst[listed] \in InstanceRecord
    BY ListedRecord DEF Typed
<1>4. inst[listed].checkpointing => inst' = [inst EXCEPT ![listed].st = "checkpointed"]
    BY DEF CompleteCheckpoint
<1>5. ~inst[listed].checkpointing => inst' = inst
    BY DEF CompleteCheckpoint
<1>6. /\ inst'[listed].checkpointing = inst[listed].checkpointing
      /\ inst[listed].checkpointing => Frozen(inst'[listed])
    BY <1>3, <1>4, <1>5 DEF Frozen, InstanceRecord
<1>7. ~overtaken => inst[listed].checkpointing
    BY <1>1 DEF Working, Orderly, SleepPhase
<1>8. Seen' /\ Marked' /\ Drained'
    BY <1>1, <1>2, WarmTierAssumption DEF Flag, Seen, Marked, Drained
<1>9. Spent'
    BY <1>1, <1>2 DEF Flag, Spent, Busy
<1>10. Shielded' /\ Unprobed'
    BY <1>1, <1>2, <1>6, <1>7 DEF Shielded, Unprobed, Frozen, Dumped, Busy
<1> QED BY <1>8, <1>9, <1>10 DEF Flag

-----------------------------------------------------------------------------
(* Coordinator.Wake.                                                       *)
LEMMA WakeTalksFlag ==
    ASSUME Typed, Working, Flag, NEW c \in Conns,
           RestoreSend(c) \/ RestoreReply(c) \/ WakeDone(c) \/ ColdStarted(c)
    PROVE  Flag'
<1>1. waker[c] \in Busy
      /\ UNCHANGED <<conn, sleep, disabled, image, inst, listed, used, paused, overtaken>>
    BY DEF RestoreSend, RestoreReply, WakeDone, ColdStarted, Unlock, WakeStep, Busy, Sent, Unsent,
        agentVars, workVars
<1>2. /\ lock = c /\ c # "free" /\ c # "sleep" /\ sleep = "none"
      /\ \A d \in Conns : d # c => waker[d] \notin Busy /\ d # "free"
    BY <1>1, WakeHolds, WarmTierAssumption DEF Working
<1>3. PICK pc \in {"failed", "await", "cold", "restored", "ok"} :
          /\ waker' = [waker EXCEPT ![c] = pc]
          /\ lock' = (IF pc \in {"failed", "ok"} THEN "free" ELSE lock)
          /\ \/ waker[c] = "locked" /\ reply' = reply /\ asleep' = asleep /\ pc \in {"failed", "await", "cold"}
             \/ /\ waker[c] = "await" /\ reply' = "none" /\ asleep' = asleep
                /\ pc \in {"restored", "failed", "cold"} /\ (pc = "restored" => reply = "ok")
             \/ waker[c] \in {"awake", "cold_started"} /\ pc = "ok" /\ ~asleep' /\ reply' = reply
    BY DEF RestoreSend, RestoreReply, WakeDone, ColdStarted, Unlock, WakeStep, Sent, Unsent, agentVars
<1>4. waker'[c] = pc /\ \A d \in Conns : d # c => waker'[d] = waker[d]
    BY <1>3 DEF Typed
<1>5. asleep
    BY <1>2 DEF Flag, Marked
<1>6. waker[c] = "locked" => reply = "none"
    BY <1>2 DEF Working, Channel, Busy
<1>7. Dumped' <=> Dumped
    BY <1>1 DEF Dumped
<1>8. waker[c] = "awake" => image = 0 /\ ~Dumped
    BY NoImage DEF Flag, Spent
<1>9. waker[c] = "cold_started" => disabled /\ ~Dumped
    BY DEF Flag, Spent
<1>10. Seen' /\ Marked' /\ Drained'
    BY <1>1, <1>2, <1>3, <1>4, <1>5, WarmTierAssumption DEF Flag, Seen, Marked, Drained
<1>11. Spent'
    BY <1>1, <1>2, <1>3, <1>4, <1>5, <1>6, <1>8, <1>9 DEF Flag, Spent, Busy
<1>12. Shielded'
    BY <1>1, <1>3, <1>5, <1>7, <1>8, <1>9 DEF Flag, Shielded
<1>13. Unprobed'
    BY <1>1, <1>2, <1>3, <1>4, <1>5 DEF Flag, Unprobed
<1> QED BY <1>10, <1>11, <1>12, <1>13 DEF Flag

LEMMA EndFlag ==
    ASSUME Typed, Working, Flag, NEW c \in Conns, EndCheckpoint(c)
    PROVE  Flag'
<1>1. /\ waker[c] = "restored" /\ waker' = [waker EXCEPT ![c] = "awake"]
      /\ UNCHANGED <<asleep, conn, lock, sleep, disabled, agent, reply, broken, image, listed, used>>
    BY DEF EndCheckpoint, WakeStep, coordVars, agentVars
<1>2. /\ lock = c /\ c # "sleep" /\ sleep = "none" /\ \A d \in Conns : d # c => waker[d] \notin Busy
    BY <1>1, WakeHolds DEF Working, Busy
<1>3. waker'[c] = "awake" /\ \A d \in Conns : d # c => waker'[d] = waker[d]
    BY <1>1 DEF Typed
<1>4. image = 0
    BY <1>1 DEF Flag, Spent
<1>5. ~Dumped'
    BY <1>1, <1>4, WarmTierAssumption DEF Typed, Dumped, Obj
<1>6. ~overtaken' => ~paused'
    <2>1. ~overtaken => inst[listed].st = "checkpointed"
        BY <1>1 DEF Working, Orderly, WakePhase, Frozen
    <2> QED BY <2>1 DEF EndCheckpoint
<1>7. Seen' /\ Marked' /\ Drained' /\ Shielded' /\ Unprobed'
    BY <1>1, <1>2, <1>3, <1>5, <1>6 DEF Flag, Seen, Marked, Drained, Shielded, Unprobed
<1>8. Spent'
    BY <1>1, <1>2, <1>3, <1>4 DEF Spent, Busy
<1> QED BY <1>7, <1>8 DEF Flag

LEMMA ColdFlag ==
    ASSUME Typed, Working, Flag, NEW c \in Conns, ColdStart(c) \/ ColdStartFails(c)
    PROVE  Flag'
<1>1. /\ waker[c] = "cold" /\ disabled' = TRUE
      /\ UNCHANGED <<asleep, conn, sleep, agent, reply, broken, image, overtaken>>
    BY DEF ColdStart, ColdStartFails, Unlock, WakeStep, agentVars
<1>2. /\ lock = c /\ c # "free" /\ c # "sleep" /\ sleep = "none"
      /\ \A d \in Conns : d # c => waker[d] \notin Busy
    BY <1>1, WakeHolds DEF Working, Busy
<1>3. PICK pc \in {"cold_started", "failed"} :
          waker' = [waker EXCEPT ![c] = pc] /\ (lock' = lock \/ lock' = "free")
    BY DEF ColdStart, ColdStartFails, Unlock, WakeStep
<1>4. waker'[c] = pc /\ \A d \in Conns : d # c => waker'[d] = waker[d]
    BY <1>3 DEF Typed
<1>5. listed \in Obj /\ inst \in [Obj -> InstanceRecord] /\ inst[listed] \in InstanceRecord
    BY ListedRecord DEF Typed
<1>6. ~Dumped'
    <2>1. CASE inst[listed].st # "checkpointed"
        <3>1. ~Dumped
            BY <1>2, <2>1 DEF Flag, Shielded
        <3> QED BY <1>1, <2>1, <3>1 DEF ColdStart, ColdStartFails, Dumped
    <2>2. CASE ColdStart(c) /\ inst[listed].st = "checkpointed"
        <3>1. listed' = used + 1 /\ image' = image
            BY <1>1, <2>2 DEF ColdStart, Recovered
        <3> QED BY <3>1, WarmTierAssumption DEF Dumped, Typed, Obj
    <2>3. CASE ColdStartFails(c)
        <3>1. inst' = [inst EXCEPT ![listed] = [inst[listed] EXCEPT !.checkpointing = FALSE, !.st = "failed"]]
              /\ listed' = listed
            BY <2>3 DEF ColdStartFails
        <3>2. inst'[listed] = [inst[listed] EXCEPT !.checkpointing = FALSE, !.st = "failed"]
            BY <1>5, <3>1
        <3> QED BY <1>5, <3>1, <3>2 DEF Dumped, InstanceRecord
    <2> QED BY <2>1, <2>2, <2>3
<1>7. ~overtaken => ~paused'
    <2>1. CASE inst[listed].st # "checkpointed"
        BY <1>2, <2>1 DEF Flag, Unprobed, Frozen, ColdStart, ColdStartFails
    <2>2. CASE inst[listed].st = "checkpointed"
        BY <2>2 DEF ColdStart, ColdStartFails
    <2> QED BY <2>1, <2>2
<1>8. Seen' /\ Marked' /\ Drained' /\ Shielded' /\ Unprobed'
    BY <1>1, <1>2, <1>3, <1>4, <1>6, <1>7, WarmTierAssumption
       DEF Flag, Seen, Marked, Drained, Shielded, Unprobed
<1>9. Spent'
    BY <1>1, <1>2, <1>3, <1>4, <1>6 DEF Flag, Spent, Busy
<1> QED BY <1>8, <1>9 DEF Flag

-----------------------------------------------------------------------------
(* The agent and the workload.                                             *)
LEMMA AgentFlag ==
    ASSUME Typed, Working, Flag, AgentStep
    PROVE  Flag'
<1>1. agent \in {"dump", "restore"}
      /\ UNCHANGED <<asleep, conn, waker, lock, sleep, disabled, broken, listed, used, paused, overtaken>>
    BY DEF AgentStep, AgentDumps, AgentRestores, AgentRefuses, AgentLosesImage, Answers, proxyVars, coordVars,
        workVars
<1>2. sleep = "await" \/ \E c \in Conns : waker[c] = "await"
    BY <1>1 DEF Working, Channel
<1>3. reply = "none" /\ ~broken /\ (agent = "dump" <=> sleep = "await") /\ (sleep # "await" => sleep = "none")
    BY <1>1, <1>2, WakeHolds DEF Working, Channel, Busy
<1>4. sleep = "await" => \A c \in Conns : waker[c] \notin Busy
    BY SleepHolds DEF Working
<1>5. listed \in Obj /\ inst \in [Obj -> InstanceRecord] /\ inst[listed] \in InstanceRecord
    BY ListedRecord DEF Typed
<1>6. /\ inst'[listed].checkpointing = inst[listed].checkpointing
      /\ inst'[listed].st = inst[listed].st
    <2>1. CASE AgentDumps
        <3>1. PICK m : inst' = [inst EXCEPT ![listed] = [inst[listed] EXCEPT !.tree = "dead", !.mon = m]]
            BY <2>1 DEF AgentDumps, Exits
        <3> QED BY <1>5, <3>1 DEF InstanceRecord
    <2>2. CASE AgentRestores
        <3>1. inst' = [inst EXCEPT ![image] = [inst[image] EXCEPT !.tree = "alive"]]
            BY <2>2 DEF AgentRestores
        <3>2. CASE image = listed
            BY <1>5, <3>1, <3>2 DEF InstanceRecord
        <3>3. CASE image # listed
            BY <1>5, <3>1, <3>3
        <3> QED BY <3>2, <3>3
    <2>3. CASE AgentRefuses \/ AgentLosesImage
        BY <2>3 DEF AgentRefuses, AgentLosesImage, workVars
    <2> QED BY <2>1, <2>2, <2>3 DEF AgentStep
<1>7. \/ sleep = "await" /\ reply' = "ok" /\ image' = listed
      \/ reply' # "ok" /\ image' = image
      \/ image' = 0
    BY <1>3 DEF AgentStep, AgentDumps, AgentRestores, AgentRefuses, AgentLosesImage, Answers
<1>8. Seen' /\ Marked' /\ Drained'
    BY <1>1 DEF Flag, Seen, Marked, Drained
<1>9. Unprobed'
    BY <1>1, <1>6 DEF Flag, Unprobed, Frozen
<1>10. Shielded'
    BY <1>1, <1>5, <1>6, <1>7, WarmTierAssumption DEF Flag, Shielded, Dumped, Marked, Drained, Obj
<1>11. \A c \in Conns : waker[c] # "cold_started"
    BY <1>1, <1>2, <1>4, WakeHolds DEF Working, Busy
<1>12. Spent'
    BY <1>1, <1>3, <1>4, <1>7, <1>11 DEF Flag, Spent, Marked, Busy
<1> QED BY <1>8, <1>9, <1>10, <1>12 DEF Flag

(* What a step of the workload may do to the listed instance.              *)
LEMMA ListedAges ==
    ASSUME Typed, Working, NEW o \in Obj, WorkloadStep(o)
    PROVE  \/ /\ listed' = listed /\ inst'[listed].checkpointing = inst[listed].checkpointing
              /\ Frozen(inst[listed]) => Frozen(inst'[listed])
           \/ listed' = used + 1 /\ (~overtaken => ~Frozen(inst[listed]))
<1>1. listed \in Obj /\ inst \in [Obj -> InstanceRecord] /\ inst[listed] \in InstanceRecord /\ Always(inst[listed])
    BY ListedRecord DEF Typed
<1>2. CASE attemptRestart(o)
    <2>1. listed' = used + 1 /\ inst[o].retries > 0
        BY <1>2 DEF attemptRestart
    <2>2. ~overtaken => o = listed
        BY <2>1 DEF Working, Orderly, Records, Past
    <2> QED BY <1>1, <2>1, <2>2 DEF Always, Frozen
<1>3. CASE ~attemptRestart(o)
    <2>1. listed' = listed
        BY <1>3 DEF WorkloadStep, Crash, RecordExit, monitorRestored, attemptRestartFails
    <2>2. PICK q : inst' = [inst EXCEPT ![o] = q]
        <3>1. CASE Crash(o)
            BY <3>1 DEF Crash, Exits
        <3>2. CASE RecordExit(o)
            BY <3>2 DEF RecordExit, Decided
        <3>3. CASE monitorRestored(o) \/ attemptRestartFails(o)
            BY <3>3 DEF monitorRestored, Decided, attemptRestartFails
        <3> QED BY <1>3, <3>1, <3>2, <3>3 DEF WorkloadStep
    <2>3. CASE o # listed
        BY <1>1, <2>1, <2>2, <2>3
    <2>4. CASE o = listed
        <3> DEFINE r == inst[o]
        <3>1. inst'[o] = q /\ r \in InstanceRecord /\ Always(r)
            BY <1>1, <2>2, <2>4
        <3>2. CASE Crash(o)
            <4>1. PICK m : inst'[o] = [r EXCEPT !.tree = "dead", !.mon = m]
                BY <1>1, <3>2 DEF Crash, Exits
            <4> QED BY <2>1, <2>4, <3>1, <4>1 DEF Frozen, InstanceRecord
        <3>3. CASE attemptRestartFails(o)
            <4>1. PICK n : inst'[o] = [r EXCEPT !.retries = n, !.st = "failed"]
                BY <1>1, <3>3 DEF attemptRestartFails
            <4>2. inst'[o].checkpointing = r.checkpointing
                BY <3>1, <4>1 DEF InstanceRecord
            <4>3. ~Frozen(r)
                BY <3>1, <3>3 DEF attemptRestartFails, Always, Frozen
            <4> QED BY <2>1, <2>4, <4>2, <4>3
        <3>4. CASE monitorRestored(o)
            <4>1. CASE r.st # "running"
                <5>1. inst'[o] = [r EXCEPT !.watchers = @ - 1]
                    BY <1>1, <3>4, <4>1 DEF monitorRestored
                <5> QED BY <2>1, <2>4, <3>1, <5>1 DEF Frozen, InstanceRecord
            <4>2. CASE r.st = "running"
                <5> DEFINE s == [r EXCEPT !.watchers = @ - 1, !.st = "stopped"]
                <5>1. Decided(o, s)
                    BY <3>4, <4>2 DEF monitorRestored
                <5>2. inst'[o] = s \/ inst'[o] = [s EXCEPT !.retries = @ + 1]
                    BY <1>1, <5>1 DEF Decided
                <5>3. inst'[o].checkpointing = r.checkpointing
                    BY <3>1, <5>2 DEF InstanceRecord
                <5> QED BY <2>1, <2>4, <4>2, <5>3 DEF Frozen
            <4> QED BY <4>1, <4>2
        <3>5. CASE RecordExit(o)
            <4>1. CASE r.checkpointing
                <5>1. inst' = [inst EXCEPT ![o] = [r EXCEPT !.mon = "done", !.st = "checkpointed"]]
                    BY <3>5, <4>1 DEF RecordExit
                <5>2. inst'[o] = [r EXCEPT !.mon = "done", !.st = "checkpointed"]
                    BY <1>1, <5>1
                <5> QED BY <2>1, <2>4, <3>1, <5>2 DEF Frozen, InstanceRecord
            <4>2. CASE ~r.checkpointing
                <5> DEFINE s == [r EXCEPT !.mon = "done", !.st = "stopped"]
                <5>1. inst'[o] = s \/ inst'[o] = [s EXCEPT !.retries = @ + 1]
                    BY <1>1, <3>5, <4>2 DEF RecordExit, Decided
                <5>2. inst'[o].checkpointing = r.checkpointing
                    BY <3>1, <5>1 DEF InstanceRecord
                <5> QED BY <2>1, <2>4, <4>2, <5>2 DEF Frozen
            <4> QED BY <4>1, <4>2
        <3> QED BY <1>3, <3>2, <3>3, <3>4, <3>5 DEF WorkloadStep
    <2> QED BY <2>3, <2>4
<1> QED BY <1>2, <1>3

LEMMA WorkloadFlag ==
    ASSUME Typed, Working, Flag, NEW o \in Obj, WorkloadStep(o)
    PROVE  Flag'
<1>1. UNCHANGED <<asleep, conn, waker, lock, sleep, disabled, reply, image, paused, overtaken>>
    BY DEF WorkloadStep, Crash, RecordExit, monitorRestored, attemptRestart, attemptRestartFails, proxyVars,
        coordVars, agentVars
<1>2. Dumped' => Dumped /\ (Frozen(inst[listed]) => Frozen(inst'[listed'])) /\ listed' = listed
    BY <1>1, ListedAges, WarmTierAssumption DEF Dumped, Typed, Obj
<1>3. Shielded'
    BY <1>1, <1>2 DEF Flag, Shielded, Frozen, Dumped
<1>4. Unprobed'
    BY <1>1, ListedAges DEF Flag, Unprobed
<1>5. Seen' /\ Marked' /\ Drained'
    BY <1>1 DEF Flag, Seen, Marked, Drained
<1>6. Spent'
    BY <1>1, <1>2 DEF Flag, Spent
<1> QED BY <1>3, <1>4, <1>5, <1>6 DEF Flag

(* After the fence there is no traffic.                                    *)
LEMMA FenceFlag ==
    ASSUME Typed, Working, Flag, fenceUncertain
    PROVE  NoTrafficIntoDump'
<1>1. UNCHANGED <<conn, sleep, image, listed>>
      /\ inst' = [o \in Obj |-> IF inst[o].tree = "alive" THEN [inst[o] EXCEPT !.tree = "dead"] ELSE inst[o]]
    BY DEF fenceUncertain
<1>2. listed \in Obj /\ inst[listed] \in InstanceRecord
    BY ListedRecord
<1>3. inst'[listed].checkpointing = inst[listed].checkpointing
    BY <1>1, <1>2 DEF InstanceRecord
<1> QED BY <1>1, <1>3 DEF NoTrafficIntoDump, Dumped, Flag, Drained, Shielded

FlagInv == (fenced => NoTrafficIntoDump) /\ (~fenced => Flag)

(* The flag and the dump agree at the start.                               *)
LEMMA InitFlag == Init => FlagInv
<1> SUFFICES ASSUME Init PROVE Flag
    BY DEF Init, FlagInv
<1>1. Seen /\ Marked /\ Drained /\ Unprobed
    BY WarmTierAssumption DEF Init, Seen, Marked, Drained, Unprobed
<1>2. Spent /\ Shielded
    BY DEF Init, Spent, Shielded, Dumped
<1> QED BY <1>1, <1>2 DEF Flag

(* One case per action, for sleeps of the idle loop only.                  *)
LEMMA NextFlag ==
    ASSUME TRUE \notin Requested, IInv, FlagInv, [Next]_vars
    PROVE  FlagInv'
<1>1. CASE UNCHANGED vars
    <2>1. UNCHANGED <<asleep, conn, waker, lock, sleep, disabled, fenced, reply, image, inst, listed, paused,
                      overtaken>>
        BY <1>1 DEF vars, proxyVars, coordVars, agentVars, workVars
    <2>2. Seen' = Seen /\ Marked' = Marked /\ Drained' = Drained /\ Spent' = Spent /\ Shielded' = Shielded
          /\ Unprobed' = Unprobed /\ NoTrafficIntoDump' = NoTrafficIntoDump
        BY <2>1 DEF Seen, Marked, Drained, Spent, Shielded, Unprobed, NoTrafficIntoDump, Dumped
    <2> QED BY <2>1, <2>2 DEF FlagInv, Flag
<1>2. CASE ~fenced /\ Next
    <2>1. Typed /\ Working /\ Flag
        BY <1>2 DEF IInv, FlagInv
    <2>2. CASE fenceUncertain
        BY <2>1, <2>2, FenceFlag, FenceHolds DEF FlagInv
    <2>3. CASE ~fenceUncertain
        <3>1. fenced' = fenced
            BY <1>2, <2>3 DEF Next, Accept, HandlerStep, CheckAsleep, AfterWake, handleObservation, Served,
                Handler, WakeSteps, WakeExpires, wake, WakerEnds, WakeLock, RestoreSend, RestoreReply,
                EndCheckpoint, WakeDone, ColdStart, ColdStarted, ColdStartFails, SleepBegin, SleepSteps,
                SleepMark, SleepCount, Quiesce, SleepRecount, BeginCheckpoint, CheckpointSend,
                CheckpointReply, AbortCheckpoint, CompleteCheckpoint, AgentStep, AgentDumps, AgentRestores,
                AgentRefuses, AgentLosesImage, Answers, WorkloadStep, Crash, RecordExit, monitorRestored,
                attemptRestart, attemptRestartFails, coordVars
        <3>2. Flag'
            BY <1>2, <2>1, <2>3, HandlerFlag, WakeLockFlag, WakeTalksFlag, EndFlag, ColdFlag, SleepEntersFlag,
               BeginFlag, SleepTalksFlag, AbortFlag, CompleteFlag, AgentFlag, WorkloadFlag
               DEF Next, WakeSteps, SleepSteps
        <3> QED BY <1>2, <3>1, <3>2 DEF FlagInv
    <2> QED BY <2>2, <2>3
<1> QED BY <1>1, <1>2 DEF Next

(* NoTrafficIntoDump (sleep in coordinator.go, handle in proxy.go): where  *)
(* only the idle loop puts the workload to sleep, a connection is never    *)
(* served by a workload that is being dumped or is dumped.                 *)
THEOREM NoTraffic ==
    ASSUME TRUE \notin Requested
    PROVE  Spec => []NoTrafficIntoDump
<1>1. IInv /\ FlagInv /\ [Next]_vars => FlagInv'
    BY NextFlag
<1>2. IInv /\ FlagInv => NoTrafficIntoDump
    BY DEF FlagInv, Flag, Drained, Shielded, NoTrafficIntoDump
<1> QED BY <1>1, <1>2, InitFlag, Invariance, PTL DEF Spec

(* AsleepIsStopped, however sleep is called: with no operation under way,  *)
(* nothing runs that the proxy believes to be asleep.                      *)
THEOREM AsleepStopped == Spec => []AsleepIsStopped
<1>1. IInv => AsleepIsStopped
    BY DEF IInv, Fence, Working, Orderly, Records, Past, RestPhase, Down, Trees, AsleepIsStopped
<1> QED BY <1>1, Invariance, PTL

(* RestIsConsistent, where only the idle loop calls sleep: the proxy's     *)
(* belief, the process and the health probes agree at rest.                *)
THEOREM RestConsistent ==
    ASSUME TRUE \notin Requested
    PROVE  Spec => []RestIsConsistent
<1>1. IInv /\ FlagInv /\ [Next]_vars => FlagInv'
    BY NextFlag
<1>2. IInv /\ FlagInv => ProbesResume
    BY DEF IInv, Fence, Working, Locks, FlagInv, Flag, Unprobed, ProbesResume
<1>3. AsleepIsStopped /\ ProbesResume => RestIsConsistent
    BY DEF RestIsConsistent
<1> QED BY <1>1, <1>2, <1>3, InitFlag, Invariance, AsleepStopped, PTL DEF Spec
=============================================================================
