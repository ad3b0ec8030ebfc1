-------------------------- MODULE SupervisorProofs --------------------------
(***************************************************************************)
(* TLAPS proofs about Supervisor, for every number of instance objects,    *)
(* every scale, configuration and set of calls, and about the restarts of  *)
(* one instance in CrashLoop, for every setting.                           *)
(***************************************************************************)
EXTENDS Supervisor, CrashLoop, TLAPS, SequenceTheorems

(* What holds of an instance object o with the contents r when n objects   *)
(* exist: the process, its monitor goroutine and its recorded state agree; *)
(* an instance claimed by a stop has lost the permission to restart before *)
(* its monitor can decide; a stop that reports success left a dead process.*)
Sound(r, o, n) ==
    /\ r.proc # "none" <=> o <= n
    /\ r.proc = "none" => r.mon = "none"
    /\ r.mon \in {"count", "adopt"} => r.child \in 1..n
    /\ r.proc \in {"alive", "killed"} <=> r.mon = "wait"
    /\ r.mon \in {"wait", "exited"} <=> r.st \in {"running", "stopping"}
    /\ r.st = "stopping" => r.allowRestart = FALSE
    /\ r.stop \in {"grace", "kill", "escalate", "ok", "err"} =>
           r.allowRestart = FALSE /\ r.mon \notin Restarting
    /\ r.stop # "idle" => r.proc # "none"
    /\ r.stop \in {"gone", "ok"} => r.proc = "dead"

InstancesSound == \A o \in Obj : Sound(inst[o], o, used)

(* Whatever is listed, or about to be, was made by startInstance.          *)
ListsKnown ==
    /\ \A i \in DOMAIN instances : instances[i] \in 1..used
    /\ \A i \in DOMAIN added : added[i] \in 1..used

IInv == TypeOK /\ InstancesSound /\ ListsKnown

-----------------------------------------------------------------------------
(* The fields of a configuration and of a call.                            *)
LEMMA SetupType ==
    ASSUME cfg \in Setups
    PROVE  /\ cfg.policy \in Policies
           /\ cfg.type \in {"longrun", "oneshot"}
           /\ cfg.hardKill \in BOOLEAN
           /\ cfg.scale \in 1..MaxScale
           /\ cfg.objects \in 0..MaxObj
BY SupervisorAssumption

(* The types of a control call.                                            *)
LEMMA CallType ==
    ASSUME NEW r \in Calls
    PROVE  r.op \in {"start", "stop", "up", "down"} /\ r.n \in 0..MaxScale
BY SupervisorAssumption

(* Initially there is no instance, no process and no operation.            *)
LEMMA IInvInit == Init => IInv
<1> SUFFICES ASSUME Init PROVE IInv
    OBVIOUS
<1> USE DEF Init
<1>1. Blank \in InstanceType
    BY SupervisorAssumption DEF Blank, InstanceType
<1>2. TypeOK
    BY <1>1, SupervisorAssumption DEF TypeOK, Obj
<1>3. InstancesSound
    BY DEF InstancesSound, Sound, Blank, Obj
<1>4. ListsKnown
    BY DEF ListsKnown
<1> QED BY <1>2, <1>3, <1>4 DEF IInv

(* startInstance makes a sound instance with a live process.               *)
LEMMA Fresh ==
    ASSUME NEW index \in 0..MaxScale, NEW n \in Nat, NEW o \in 1..n
    PROVE  startInstance(index) \in InstanceType /\ Sound(startInstance(index), o, n)
<1>1. startInstance(index) \in InstanceType
    BY SupervisorAssumption DEF startInstance, InstanceType
<1>2. Sound(startInstance(index), o, n)
    BY DEF startInstance, Sound
<1> QED BY <1>1, <1>2

(* Instances stay sound when others are made.                              *)
LEMMA Grown ==
    ASSUME NEW r, NEW n \in Nat, NEW m \in Nat, n <= m,
           NEW o \in Nat, o <= n \/ m < o, Sound(r, o, n)
    PROVE  Sound(r, o, m)
BY DEF Sound

(* A step that changes one instance object and leaves it sound.            *)
LEMMA OneChanged ==
    ASSUME IInv, NEW o \in Obj, NEW q \in InstanceType, Sound(q, o, used),
           inst' = [inst EXCEPT ![o] = q], used' = used
    PROVE  inst' \in [Obj -> InstanceType] /\ InstancesSound'
<1>1. inst \in [Obj -> InstanceType]
    BY DEF IInv, TypeOK
<1>2. inst' \in [Obj -> InstanceType]
    BY <1>1
<1>3. InstancesSound'
    BY <1>1 DEF IInv, InstancesSound
<1> QED BY <1>2, <1>3

(* The steps of one stopInstance.                                          *)
LEMMA StopStepInv ==
    ASSUME IInv, NEW o \in Obj, StopStep(o)
    PROVE  inst' \in [Obj -> InstanceType] /\ InstancesSound'
<1> DEFINE r == inst[o]
<1>1. r \in InstanceType /\ Sound(r, o, used)
    BY DEF IInv, TypeOK, InstancesSound
<1>2. used' = used
    BY DEF StopStep
<1>3. CASE stopInstance(o)
    <2>1. CASE inst' = Claim(o, "grace") /\ r.st \in {"running", "stopping"}
        <3> DEFINE q == [r EXCEPT !.stop = "grace", !.allowRestart = FALSE, !.st = "stopping"]
        <3>1. q \in InstanceType
            BY <1>1 DEF InstanceType
        <3>2. Sound(q, o, used)
            BY <1>1, <1>3, <2>1 DEF InstanceType, Sound, Restarting, stopInstance
        <3>3. inst' = [inst EXCEPT ![o] = q]
            BY <2>1 DEF Claim
        <3> QED BY <3>1, <3>2, <3>3, <1>2, OneChanged
    <2>2. CASE inst' = Claim(o, "err") /\ r.st \in {"running", "stopping"}
        <3> DEFINE q == [r EXCEPT !.stop = "err", !.allowRestart = FALSE, !.st = "stopping"]
        <3>1. q \in InstanceType
            BY <1>1 DEF InstanceType
        <3>2. Sound(q, o, used)
            BY <1>1, <1>3, <2>2 DEF InstanceType, Sound, Restarting, stopInstance
        <3>3. inst' = [inst EXCEPT ![o] = q]
            BY <2>2 DEF Claim
        <3> QED BY <3>1, <3>2, <3>3, <1>2, OneChanged
    <2>3. CASE inst' = Gone(o) /\ r.st \notin {"running", "stopping"}
        <3> DEFINE q == [r EXCEPT !.stop = "gone", !.allowRestart = FALSE]
        <3>1. q \in InstanceType
            BY <1>1 DEF InstanceType
        <3>2. Sound(q, o, used)
            BY <1>1, <1>3, <2>3 DEF InstanceType, Sound, Restarting, stopInstance
        <3>3. inst' = [inst EXCEPT ![o] = q]
            BY <2>3 DEF Gone
        <3> QED BY <3>1, <3>2, <3>3, <1>2, OneChanged
    <2> QED BY <1>3, <2>1, <2>2, <2>3 DEF stopInstance
<1>4. CASE waitForInstanceExit(o)
    <2> DEFINE q == [r EXCEPT !.stop = "ok"]
    <2>1. q \in InstanceType
        BY <1>1 DEF InstanceType
    <2>2. Sound(q, o, used)
        BY <1>1, <1>4 DEF InstanceType, Sound, waitForInstanceExit
    <2>3. inst' = [inst EXCEPT ![o] = q]
        BY <1>4 DEF waitForInstanceExit
    <2> QED BY <2>1, <2>2, <2>3, <1>2, OneChanged
<1>5. CASE /\ r.stop \in {"grace", "kill", "escalate"}
           /\ \E v \in {"kill", "escalate"}, p \in {r.proc, Sigkilled(o)} :
                  inst' = [inst EXCEPT ![o].stop = v, ![o].proc = p]
    <2> PICK v \in {"kill", "escalate"}, p \in {r.proc, Sigkilled(o)} :
                  inst' = [inst EXCEPT ![o].stop = v, ![o].proc = p]
        BY <1>5
    <2> DEFINE q == [r EXCEPT !.stop = v, !.proc = p]
    <2>1. q \in InstanceType
        BY <1>1 DEF InstanceType, Sigkilled
    <2>2. Sound(q, o, used)
        BY <1>1, <1>5 DEF InstanceType, Sound, Sigkilled
    <2>3. inst' = [inst EXCEPT ![o] = q]
        OBVIOUS
    <2> QED BY <2>1, <2>2, <2>3, <1>2, OneChanged
<1>6. CASE r.stop \in {"grace", "kill", "escalate"} /\ inst' = [inst EXCEPT ![o].stop = "err"]
    <2> DEFINE q == [r EXCEPT !.stop = "err"]
    <2>1. q \in InstanceType
        BY <1>1 DEF InstanceType
    <2>2. Sound(q, o, used)
        BY <1>1, <1>6 DEF InstanceType, Sound
    <2>3. inst' = [inst EXCEPT ![o] = q]
        BY <1>6
    <2> QED BY <2>1, <2>2, <2>3, <1>2, OneChanged
<1>7. CASE forceKillInstance(o)
    <2>1. r.stop = "grace"
        BY <1>7 DEF forceKillInstance
    <2>2. CASE inst' = [inst EXCEPT ![o].stop = "err"]
        BY <1>6, <2>1, <2>2
    <2>3. CASE inst' = [inst EXCEPT ![o].stop = "kill",
                                    ![o].proc = IF cfg.hardKill THEN Sigkilled(o) ELSE @]
        <3> DEFINE p == IF cfg.hardKill THEN Sigkilled(o) ELSE r.proc
        <3>1. inst' = [inst EXCEPT ![o].stop = "kill", ![o].proc = p]
            BY <2>3
        <3>2. p \in {r.proc, Sigkilled(o)}
            OBVIOUS
        <3> QED BY <1>5, <2>1, <3>1, <3>2
    <2> QED BY <1>7, <2>2, <2>3 DEF forceKillInstance
<1>8. CASE escalateKill(o)
    <2>1. r.stop = "kill"
        BY <1>8 DEF escalateKill
    <2>2. CASE inst' = [inst EXCEPT ![o].stop = "err"]
        BY <1>6, <2>1, <2>2
    <2>3. CASE inst' = [inst EXCEPT ![o].stop = "escalate", ![o].proc = Sigkilled(o)]
        BY <1>5, <2>1, <2>3
    <2> QED BY <1>8, <2>2, <2>3 DEF escalateKill
<1>9. CASE giveUpOnKill(o)
    BY <1>6, <1>9 DEF giveUpOnKill
<1> QED BY <1>3, <1>4, <1>7, <1>8, <1>9 DEF StopStep

-----------------------------------------------------------------------------
(* An update of one monitor's instance: the goroutine's place m and the    *)
(* recorded state s.                                                       *)
LEMMA MonitorMoves ==
    ASSUME IInv, NEW o \in Obj, inst[o].mon \notin {"none", "wait", "exited"}, used' = used,
           NEW m \in {"scan", "declare", "done", "backoff", "cancelled", "start", "adopt"},
           m \in Restarting => /\ inst[o].mon \in Restarting \/ inst[o].allowRestart = TRUE
                               /\ m = "adopt" => inst[o].mon = "count",
           NEW s \in {inst[o].st, "completed", "failed"},
           inst' = [inst EXCEPT ![o].mon = m, ![o].st = s]
    PROVE  inst' \in [Obj -> InstanceType] /\ InstancesSound'
<1> DEFINE r == inst[o]
<1> DEFINE q == [r EXCEPT !.mon = m, !.st = s]
<1>1. r \in InstanceType /\ Sound(r, o, used)
    BY DEF IInv, TypeOK, InstancesSound
<1>2. q \in InstanceType
    BY <1>1 DEF InstanceType, Restarting
<1>3. Sound(q, o, used)
    BY <1>1 DEF InstanceType, Sound, Restarting
<1>4. inst' = [inst EXCEPT ![o] = q]
    OBVIOUS
<1> QED BY <1>2, <1>3, <1>4, OneChanged

(* The same when the recorded state stays as it is.                        *)
LEMMA MonitorMovesOn ==
    ASSUME IInv, NEW o \in Obj, inst[o].mon \notin {"none", "wait", "exited"}, used' = used,
           NEW m \in {"scan", "declare", "done", "backoff", "cancelled", "start", "adopt"},
           m \in Restarting => /\ inst[o].mon \in Restarting \/ inst[o].allowRestart = TRUE
                               /\ m = "adopt" => inst[o].mon = "count",
           inst' = [inst EXCEPT ![o].mon = m]
    PROVE  inst' \in [Obj -> InstanceType] /\ InstancesSound'
<1> DEFINE r == inst[o]
<1> DEFINE q == [r EXCEPT !.mon = m]
<1>1. r \in InstanceType /\ Sound(r, o, used)
    BY DEF IInv, TypeOK, InstancesSound
<1>2. q \in InstanceType
    BY <1>1 DEF InstanceType, Restarting
<1>3. Sound(q, o, used)
    BY <1>1 DEF InstanceType, Sound, Restarting
<1>4. inst' = [inst EXCEPT ![o] = q]
    OBVIOUS
<1> QED BY <1>2, <1>3, <1>4, OneChanged

(* ProcessExit: the monitor's Wait returns.                                *)
LEMMA ProcessExitInv ==
    ASSUME IInv, NEW o \in Obj, ProcessExit(o)
    PROVE  inst' \in [Obj -> InstanceType] /\ InstancesSound'
<1> DEFINE r == inst[o]
<1> DEFINE q == [r EXCEPT !.proc = "dead", !.mon = "exited"]
<1>1. r \in InstanceType /\ Sound(r, o, used)
    BY DEF IInv, TypeOK, InstancesSound
<1>2. q \in InstanceType
    BY <1>1 DEF InstanceType
<1>3. Sound(q, o, used)
    BY <1>1 DEF InstanceType, Sound, Restarting, ProcessExit, Live
<1>4. inst' = [inst EXCEPT ![o] = q] /\ used' = used
    BY DEF ProcessExit
<1> QED BY <1>2, <1>3, <1>4, OneChanged

(* RecordExit: the exit is recorded under the instance's lock.             *)
LEMMA RecordExitInv ==
    ASSUME IInv, NEW o \in Obj, NEW up \in BOOLEAN, RecordExit(o, up)
    PROVE  inst' \in [Obj -> InstanceType] /\ InstancesSound'
<1> DEFINE r == inst[o]
<1> DEFINE c == IF resetRestartBudget(TRUE, up) THEN 0 ELSE r.restartCount
<1> DEFINE q == [r EXCEPT !.mon = "stopped", !.st = "stopped", !.attempt = c]
<1>1. r \in InstanceType /\ Sound(r, o, used)
    BY DEF IInv, TypeOK, InstancesSound
<1>2. c \in Nat
    BY <1>1 DEF InstanceType
<1>3. inst' = [inst EXCEPT ![o] = q] /\ used' = used
    BY DEF RecordExit
<1> HIDE DEF c
<1>4. q \in InstanceType
    BY <1>1, <1>2 DEF InstanceType
<1>5. Sound(q, o, used)
    BY <1>1 DEF InstanceType, Sound, Restarting, RecordExit
<1> QED BY <1>3, <1>4, <1>5, OneChanged

(* CountRestart: the replacement is given the count of its predecessor.    *)
LEMMA CountRestartInv ==
    ASSUME IInv, NEW o \in Obj, CountRestart(o)
    PROVE  inst' \in [Obj -> InstanceType] /\ InstancesSound'
<1> DEFINE c == inst[o].child
<1> DEFINE a == [inst EXCEPT ![o].mon = "adopt"]
<1>1. inst \in [Obj -> InstanceType] /\ InstancesSound /\ used \in 0..MaxObj
    BY DEF IInv, TypeOK
<1>2. inst[o].mon = "count" /\ used' = used /\ c \in Obj
    BY <1>1, SupervisorAssumption DEF CountRestart, InstancesSound, Sound, Obj
<1>3. a \in [Obj -> InstanceType] /\ \A p \in Obj : Sound(a[p], p, used)
    <2>1. [inst[o] EXCEPT !.mon = "adopt"] \in InstanceType
        BY <1>1 DEF InstanceType, Restarting
    <2>2. Sound([inst[o] EXCEPT !.mon = "adopt"], o, used)
        BY <1>1, <1>2 DEF InstancesSound, Sound, InstanceType, Restarting
    <2> QED BY <1>1, <2>1, <2>2 DEF InstancesSound
<1>4. inst' = [a EXCEPT ![c].restartCount = inst[o].attempt + 1]
    BY DEF CountRestart
<1>5. inst[o].attempt + 1 \in Nat
    BY <1>1 DEF InstanceType
<1> DEFINE q == [a[c] EXCEPT !.restartCount = inst[o].attempt + 1]
<1>6. q \in InstanceType /\ Sound(q, c, used)
    <2> HIDE DEF a
    <2>1. a[c] \in InstanceType /\ Sound(a[c], c, used)
        BY <1>2, <1>3
    <2>2. q \in InstanceType
        BY <2>1, <1>5 DEF InstanceType
    <2>3. Sound(q, c, used)
        BY <2>1 DEF Sound, InstanceType
    <2> QED BY <2>2, <2>3
<1>7. inst' = [a EXCEPT ![c] = q]
    BY <1>4
<1> HIDE DEF a, q, c
<1> QED BY <1>2, <1>3, <1>6, <1>7 DEF InstancesSound

(* ReplacementStarts: the predecessor remembers its replacement, which     *)
(* already runs.                                                           *)
LEMMA ReplacementStartsInv ==
    ASSUME IInv, NEW o \in Obj, ReplacementStarts(o)
    PROVE  /\ inst' \in [Obj -> InstanceType] /\ InstancesSound'
           /\ used' \in 0..MaxObj /\ used < used'
<1> DEFINE n == used + 1
<1> DEFINE q == [inst[o] EXCEPT !.mon = "count", !.child = n]
<1> DEFINE a == [inst EXCEPT ![o] = q]
<1>1. inst \in [Obj -> InstanceType] /\ InstancesSound /\ used \in 0..MaxObj
    BY DEF IInv, TypeOK
<1>2. inst[o].mon = "start" /\ used' = n /\ n \in Obj
    BY <1>1, SetupType, SupervisorAssumption DEF ReplacementStarts, Obj, IInv, TypeOK
<1>3. o \in 1..used
    BY <1>1, <1>2, SupervisorAssumption DEF InstancesSound, Sound, Obj, InstanceType
<1>4. q \in InstanceType /\ Sound(q, o, n)
    <2>1. q \in InstanceType
        <3>1. inst[o] \in InstanceType /\ n \in 0..MaxObj
            BY <1>1, <1>2 DEF Obj
        <3> HIDE DEF n
        <3> QED BY <3>1 DEF InstanceType, Restarting
    <2>2. Sound(q, o, n)
        BY <1>1, <1>2, <1>3 DEF InstancesSound, Sound, InstanceType, Restarting, Obj
    <2> QED BY <2>1, <2>2
<1>5. startInstance(inst[o].index) \in InstanceType /\ Sound(startInstance(inst[o].index), n, n)
    <2>1. inst[o].index \in 0..MaxScale
        BY <1>1 DEF InstanceType
    <2> QED BY <1>1, <2>1, Fresh
<1>6. inst' = [a EXCEPT ![n] = startInstance(inst[o].index)]
    BY DEF ReplacementStarts
<1>7. inst' \in [Obj -> InstanceType]
    BY <1>1, <1>2, <1>4, <1>5, <1>6
<1>8. ASSUME NEW p \in Obj PROVE Sound(inst'[p], p, n)
    <2>1. CASE p = n
        BY <1>1, <1>2, <1>4, <1>5, <1>6, <2>1
    <2>2. CASE p = o /\ p # n
        BY <1>1, <1>2, <1>4, <1>5, <1>6, <2>2
    <2>3. CASE p # o /\ p # n
        <3>1. inst'[p] = inst[p]
            BY <1>1, <1>2, <1>4, <1>5, <1>6, <2>3
        <3>2. Sound(inst[p], p, used) /\ p \in Nat /\ (p <= used \/ n < p)
            BY <1>1, <2>3, SupervisorAssumption DEF InstancesSound, Obj
        <3> QED BY <1>1, <3>1, <3>2, Grown
    <2> QED BY <2>1, <2>2, <2>3
<1> QED BY <1>1, <1>2, <1>7, <1>8, SupervisorAssumption DEF InstancesSound, Obj

(* Every step of a monitor goroutine.                                      *)
LEMMA MonitorStepInv ==
    ASSUME IInv, NEW o \in Obj, MonitorStep(o)
    PROVE  /\ inst' \in [Obj -> InstanceType] /\ InstancesSound'
           /\ used' \in 0..MaxObj /\ used <= used'
<1>1. used \in 0..MaxObj /\ used \in Nat
    BY DEF IInv, TypeOK
<1>2. CASE \E up \in BOOLEAN : RecordExit(o, up)
    <2>1. used' = used
        BY <1>2 DEF RecordExit
    <2> QED BY <1>1, <1>2, <2>1, RecordExitInv
<1>3. ASSUME NEW exitCode \in {0, 1}, handleOneshotExit(o, exitCode)
      PROVE  inst' \in [Obj -> InstanceType] /\ InstancesSound' /\ used' = used
    <2> DEFINE s == IF exitCode = 0 THEN "completed" ELSE "failed"
    <2>1. inst[o].mon = "stopped" /\ used' = used
        BY <1>3 DEF handleOneshotExit
    <2>2. inst' = [inst EXCEPT ![o].mon = "scan", ![o].st = s]
        BY <1>3 DEF handleOneshotExit
    <2>3. s \in {inst[o].st, "completed", "failed"}
        OBVIOUS
    <2> HIDE DEF s
    <2> QED BY <2>1, <2>2, <2>3, MonitorMoves DEF Restarting
<1>4. ASSUME NEW exitCode \in {0, 1}, Decide(o, exitCode)
      PROVE  inst' \in [Obj -> InstanceType] /\ InstancesSound' /\ used' = used
    <2>1. inst[o].mon = "stopped" /\ used' = used
        BY <1>4 DEF Decide
    <2>2. CASE inst' = [inst EXCEPT ![o].mon = "done"]
        BY <2>1, <2>2, MonitorMovesOn DEF Restarting
    <2>3. CASE inst' = [inst EXCEPT ![o].mon = "done", ![o].st = "failed"]
        BY <2>1, <2>3, MonitorMoves DEF Restarting
    <2>4. CASE inst[o].allowRestart = TRUE /\ inst' = [inst EXCEPT ![o].mon = "backoff"]
        BY <2>1, <2>4, MonitorMovesOn DEF Restarting
    <2>5. CASE inst[o].allowRestart = TRUE /\ inst' = [inst EXCEPT ![o].mon = "cancelled"]
        BY <2>1, <2>5, MonitorMovesOn DEF Restarting
    <2>6. CASE inst' = [inst EXCEPT ![o].mon = "scan"]
        BY <2>1, <2>6, MonitorMovesOn DEF Restarting
    <2>7. inst[o].allowRestart \in BOOLEAN
        BY DEF IInv, TypeOK, InstanceType
    <2> QED BY <1>4, <2>2, <2>3, <2>4, <2>5, <2>6, <2>7 DEF Decide
<1>5. ASSUME BackoffOver(o)
      PROVE  inst' \in [Obj -> InstanceType] /\ InstancesSound' /\ used' = used
    <2>1. inst[o].mon \in {"backoff", "detached", "cancelled"} /\ used' = used
        BY <1>5 DEF BackoffOver
    <2>2. CASE inst' = [inst EXCEPT ![o].mon = "start"]
        BY <2>1, <2>2, MonitorMovesOn DEF Restarting
    <2>3. CASE inst' = [inst EXCEPT ![o].mon = "done"]
        BY <2>1, <2>3, MonitorMovesOn DEF Restarting
    <2>4. CASE inst' = [inst EXCEPT ![o].mon = "done", ![o].st = "failed"]
        BY <2>1, <2>4, MonitorMoves DEF Restarting
    <2> QED BY <1>5, <2>2, <2>3, <2>4 DEF BackoffOver, IInv, TypeOK
<1>6. ASSUME BackoffCancelled(o)
      PROVE  inst' \in [Obj -> InstanceType] /\ InstancesSound' /\ used' = used
    <2>1. inst[o].mon = "cancelled" /\ used' = used /\ inst' = [inst EXCEPT ![o].mon = "done"]
        BY <1>6 DEF BackoffCancelled
    <2> QED BY <2>1, MonitorMovesOn DEF Restarting
<1>7. ASSUME ReplacementFails(o)
      PROVE  inst' \in [Obj -> InstanceType] /\ InstancesSound' /\ used' = used
    <2> DEFINE m == IF ctx = "none" THEN "done" ELSE "scan"
    <2>1. inst[o].mon = "start" /\ used' = used
        BY <1>7 DEF ReplacementFails
    <2>2. inst' = [inst EXCEPT ![o].mon = m, ![o].st = "failed"]
        <3>1. inst[o] \in InstanceType
            BY DEF IInv, TypeOK
        <3>2. [inst[o] EXCEPT !.st = "failed", !.mon = m] = [inst[o] EXCEPT !.mon = m, !.st = "failed"]
            BY <3>1 DEF InstanceType
        <3>3. inst' = [inst EXCEPT ![o] = [inst[o] EXCEPT !.st = "failed", !.mon = m]]
            BY <1>7 DEF ReplacementFails
        <3> HIDE DEF m
        <3> QED BY <3>2, <3>3
    <2>3. m \in {"scan", "done"}
        OBVIOUS
    <2> HIDE DEF m
    <2> QED BY <2>1, <2>2, <2>3, MonitorMoves DEF Restarting
<1>8. ASSUME Adopt(o)
      PROVE  inst' \in [Obj -> InstanceType] /\ InstancesSound' /\ used' = used
    <2>1. inst[o].mon = "adopt" /\ used' = used /\ inst' = [inst EXCEPT ![o].mon = "done"]
        BY <1>8 DEF Adopt
    <2> QED BY <2>1, MonitorMovesOn DEF Restarting
<1>9. ASSUME ScanInstances(o)
      PROVE  inst' \in [Obj -> InstanceType] /\ InstancesSound' /\ used' = used
    <2> DEFINE m == IF AllDead /\ instances # <<>> THEN "declare" ELSE "done"
    <2>1. inst[o].mon = "scan" /\ used' = used /\ inst' = [inst EXCEPT ![o].mon = m]
        BY <1>9 DEF ScanInstances
    <2>2. m \in {"declare", "done"}
        OBVIOUS
    <2> HIDE DEF m
    <2> QED BY <2>1, <2>2, MonitorMovesOn DEF Restarting
<1>10. ASSUME DeclareDead(o)
      PROVE  inst' \in [Obj -> InstanceType] /\ InstancesSound' /\ used' = used
    <2>1. inst[o].mon = "declare" /\ used' = used /\ inst' = [inst EXCEPT ![o].mon = "done"]
        BY <1>10 DEF DeclareDead
    <2> QED BY <2>1, MonitorMovesOn DEF Restarting
<1>11. CASE ReplacementStarts(o)
    BY <1>1, <1>11, ReplacementStartsInv
<1>12. CASE CountRestart(o)
    <2>1. used' = used
        BY <1>12 DEF CountRestart
    <2> QED BY <1>1, <1>12, <2>1, CountRestartInv
<1> QED BY <1>1, <1>2, <1>3, <1>4, <1>5, <1>6, <1>7, <1>8, <1>9, <1>10, <1>11, <1>12
        DEF MonitorStep

-----------------------------------------------------------------------------
(* The part of the invariant that is not about the instance objects.       *)
Frame ==
    /\ cfg \in Setups
    /\ state \in {"stopped", "starting", "running", "stopping", "failed"}
    /\ ctx \in {"none", "live", "cancelled"}
    /\ instances \in Seq(Obj)
    /\ op \in {"none", "up", "upfail", "down", "stop", "drain"}
    /\ target \in 0..MaxScale
    /\ victims \subseteq Obj
    /\ added \in Seq(Obj)
    /\ ListsKnown

(* IInv taken apart by which variables its parts are about.                *)
LEMMA IInvParts ==
    IInv <=> /\ Frame
             /\ used \in 0..MaxObj
             /\ inst \in [Obj -> InstanceType]
             /\ InstancesSound
BY DEF IInv, TypeOK, Frame

(* The processes, the stops and the monitors leave the rest alone, but for *)
(* a replacement taking its place in the list and for a declared death.    *)
LEMMA BackgroundFrame ==
    ASSUME IInv, NEW o \in Obj, StopStep(o) \/ MonitorStep(o) \/ ProcessExit(o),
           used' \in Nat, used <= used'
    PROVE  Frame'
<1>1. Frame /\ used \in Nat
    BY DEF IInv, TypeOK, Frame
<1>2. CASE UNCHANGED <<cfg, state, ctx, instances, op, target, victims, added>>
    BY <1>1, <1>2 DEF Frame, ListsKnown
<1>3. CASE DeclareDead(o)
    <2>1. state' \in {"stopped", "starting", "running", "stopping", "failed"}
        BY <1>1, <1>3 DEF DeclareDead, Frame
    <2> QED BY <1>1, <1>3, <2>1 DEF DeclareDead, Frame, ListsKnown
<1>4. CASE Adopt(o)
    <2>1. inst[o].child \in 1..used /\ inst[o].child \in Obj
        BY <1>4, SupervisorAssumption DEF Adopt, IInv, TypeOK, InstancesSound, Sound, Obj, InstanceType
    <2>2. instances \in Seq(Obj) /\ DOMAIN instances = 1..Len(instances) /\ Len(instances) \in Nat
        BY <1>1 DEF Frame
    <2>3. ASSUME NEW i \in DOMAIN instances
          PROVE  instances'[i] \in Obj /\ instances'[i] \in 1..used
        BY <1>1, <1>4, <2>1, <2>2 DEF Adopt, Frame, ListsKnown
    <2>4. instances' \in Seq(Obj) /\ DOMAIN instances' = DOMAIN instances
        BY <1>4, <2>2, <2>3 DEF Adopt
    <2> QED BY <1>1, <1>4, <2>3, <2>4 DEF Adopt, Frame, ListsKnown
<1> QED BY <1>2, <1>3, <1>4 DEF StopStep, ProcessExit, MonitorStep, RecordExit,
            handleOneshotExit, Decide, BackoffOver, BackoffCancelled, ReplacementStarts,
            ReplacementFails, CountRestart, ScanInstances

(* Every object of a sequence of objects is one of its range.              *)
LEMMA ConcatKnown ==
    ASSUME NEW n \in Nat, NEW s \in Seq(Obj), NEW t \in Seq(Obj),
           \A i \in DOMAIN s : s[i] \in 1..n, \A i \in DOMAIN t : t[i] \in 1..n
    PROVE  s \o t \in Seq(Obj) /\ \A i \in DOMAIN (s \o t) : (s \o t)[i] \in 1..n
<1>1. s \o t \in Seq(Obj) /\ Len(s \o t) = Len(s) + Len(t)
    OBVIOUS
<1>2. ASSUME NEW i \in 1..Len(s) + Len(t) PROVE (s \o t)[i] \in 1..n
    <2>1. CASE i <= Len(s)
        BY <2>1
    <2>2. CASE i > Len(s)
        <3>1. (s \o t)[i] = t[i - Len(s)] /\ i - Len(s) \in 1..Len(t)
            BY <2>2
        <3> QED BY <3>1
    <2> QED BY <2>1, <2>2
<1> QED BY <1>1, <1>2

(* The objects an operation creates are the next unused ones.              *)
LEMMA NewObjectsKnown ==
    ASSUME used \in Nat, NEW k \in Nat, used + k <= MaxObj
    PROVE  /\ NewObjects(k) \in Seq(Obj)
           /\ \A i \in DOMAIN NewObjects(k) : NewObjects(k)[i] \in 1..(used + k)
           /\ Range(NewObjects(k)) = (used + 1)..(used + k)
<1>1. \A i \in 1..k : used + i \in Obj /\ used + i \in 1..(used + k)
    BY SupervisorAssumption DEF Obj
<1>2. NewObjects(k) \in Seq(Obj)
    BY <1>1 DEF NewObjects
<1>3. \A i \in DOMAIN NewObjects(k) : NewObjects(k)[i] \in 1..(used + k)
    BY <1>1 DEF NewObjects
<1>4. ASSUME NEW o \in (used + 1)..(used + k) PROVE o \in Range(NewObjects(k))
    <2>1. o - used \in 1..k /\ NewObjects(k)[o - used] = o
        BY DEF NewObjects
    <2> QED BY <2>1 DEF Range, NewObjects
<1>5. Range(NewObjects(k)) \subseteq (used + 1)..(used + k)
    BY DEF Range, NewObjects
<1> QED BY <1>2, <1>3, <1>4, <1>5

(* Start's instances, and the older ones whose monitors wait on.           *)
LEMMA LaunchedSound ==
    ASSUME IInv, NEW k \in 0..MaxScale, used + k <= MaxObj
    PROVE  /\ Launched(k) \in [Obj -> InstanceType]
           /\ \A o \in Obj : Sound(Launched(k)[o], o, used + k)
<1>1. used \in Nat /\ k \in Nat /\ used + k \in Nat /\ inst \in [Obj -> InstanceType]
    BY SupervisorAssumption DEF IInv, TypeOK
<1>2. ASSUME NEW o \in Obj
      PROVE  Launched(k)[o] \in InstanceType /\ Sound(Launched(k)[o], o, used + k)
    <2>1. CASE o \in used + 1 .. used + k
        <3>1. Launched(k)[o] = startInstance(o - used - 1)
            BY <2>1 DEF Launched
        <3>2. o - used - 1 \in 0..MaxScale /\ o \in 1..(used + k)
            BY <1>1, <2>1, SupervisorAssumption
        <3> QED BY <1>1, <3>1, <3>2, Fresh
    <2>2. CASE o \notin used + 1 .. used + k
        <3>1. inst[o] \in InstanceType /\ Sound(inst[o], o, used) /\ o \in Nat
            BY <1>1, SupervisorAssumption DEF IInv, InstancesSound, Obj
        <3>2. Sound(inst[o], o, used + k)
            <4>1. o <= used \/ used + k < o
                BY <1>1, <2>2, <3>1
            <4> QED BY <1>1, <3>1, <4>1, Grown
        <3>3. CASE inst[o].mon # "backoff"
            <4>1. Launched(k)[o] = inst[o]
                BY <2>2, <3>3 DEF Launched
            <4> QED BY <3>1, <3>2, <4>1
        <3>4. CASE inst[o].mon = "backoff"
            <4> DEFINE q == [inst[o] EXCEPT !.mon = "detached"]
            <4>1. Launched(k)[o] = q
                BY <2>2, <3>4 DEF Launched
            <4>2. q \in InstanceType
                BY <3>1 DEF InstanceType, Restarting
            <4>3. Sound(q, o, used + k)
                BY <3>1, <3>2, <3>4 DEF Sound, InstanceType, Restarting
            <4> QED BY <4>1, <4>2, <4>3
        <3> QED BY <3>3, <3>4
    <2> QED BY <2>1, <2>2
<1>3. Launched(k) \in [Obj -> InstanceType]
    <2>1. Launched(k) = [o \in Obj |-> Launched(k)[o]]
        BY DEF Launched
    <2> HIDE DEF Launched
    <2> QED BY <1>2, <2>1
<1> QED BY <1>2, <1>3

(* The beginning of a stop, and its end.                                   *)
LEMMA StoppingSound ==
    ASSUME IInv, NEW S \in SUBSET (1..used)
    PROVE  /\ Stopping(S) \in [Obj -> InstanceType]
           /\ \A o \in Obj : Sound(Stopping(S)[o], o, used)
<1>1. inst \in [Obj -> InstanceType] /\ used \in Nat
    BY SupervisorAssumption DEF IInv, TypeOK
<1>2. ASSUME NEW o \in Obj
      PROVE  Stopping(S)[o] \in InstanceType /\ Sound(Stopping(S)[o], o, used)
    <2>1. inst[o] \in InstanceType /\ Sound(inst[o], o, used)
        BY <1>1 DEF IInv, InstancesSound
    <2>2. CASE o \notin S
        BY <2>1, <2>2 DEF Stopping
    <2>3. CASE o \in S
        <3> DEFINE q == [inst[o] EXCEPT !.stop = "begin"]
        <3>1. Stopping(S)[o] = q
            BY <2>3 DEF Stopping
        <3>2. q \in InstanceType
            BY <2>1 DEF InstanceType
        <3>3. Sound(q, o, used)
            BY <1>1, <2>1, <2>3 DEF Sound, InstanceType
        <3> QED BY <3>1, <3>2, <3>3
    <2> QED BY <2>2, <2>3
<1>3. Stopping(S) = [o \in Obj |-> Stopping(S)[o]]
    BY DEF Stopping
<1> HIDE DEF Stopping
<1> QED BY <1>2, <1>3

(* Releasing the victims of a stop that has ended leaves them sound.       *)
LEMMA ReleasedSound ==
    ASSUME IInv
    PROVE  /\ Released \in [Obj -> InstanceType]
           /\ \A o \in Obj : Sound(Released[o], o, used)
<1>1. inst \in [Obj -> InstanceType] /\ used \in Nat
    BY SupervisorAssumption DEF IInv, TypeOK
<1>2. ASSUME NEW o \in Obj
      PROVE  Released[o] \in InstanceType /\ Sound(Released[o], o, used)
    <2>1. inst[o] \in InstanceType /\ Sound(inst[o], o, used)
        BY <1>1 DEF IInv, InstancesSound
    <2>2. CASE o \notin victims
        BY <2>1, <2>2 DEF Released
    <2>3. CASE o \in victims
        <3> DEFINE q == [inst[o] EXCEPT !.stop = "idle"]
        <3>1. Released[o] = q
            BY <2>3 DEF Released
        <3>2. q \in InstanceType
            BY <2>1 DEF InstanceType
        <3>3. Sound(q, o, used)
            BY <2>1 DEF Sound, InstanceType
        <3> QED BY <3>1, <3>2, <3>3
    <2> QED BY <2>2, <2>3
<1>3. Released = [o \in Obj |-> Released[o]]
    BY DEF Released
<1> HIDE DEF Released
<1> QED BY <1>2, <1>3

(* What is listed or added exists.                                         *)
LEMMA ListedKnown ==
    ASSUME IInv
    PROVE  Listed \subseteq 1..used /\ Listed \subseteq Obj
           /\ Range(added) \subseteq 1..used /\ Range(added) \subseteq Obj
BY DEF IInv, TypeOK, ListsKnown, Listed, Range

(* StartOK and StartFails.                                                 *)
LEMMA StartInv ==
    ASSUME IInv, NEW r \in Calls, StartOK(r) \/ \E k \in 0..MaxScale : StartFails(r, k)
    PROVE  IInv'
<1>1. Frame /\ used \in Nat /\ inst \in [Obj -> InstanceType] /\ cfg \in Setups
    BY DEF IInv, TypeOK, Frame
<1>2. CASE StartOK(r)
    <2> DEFINE k == cfg.scale
    <2>1. k \in 0..MaxScale /\ k \in Nat /\ used + k <= MaxObj /\ used' = used + k
        BY <1>1, <1>2, SetupType, SupervisorAssumption DEF StartOK
    <2>2. instances' = instances \o NewObjects(k) /\ inst' = Launched(k)
        BY <1>2 DEF StartOK
    <2> HIDE DEF k
    <2>3. inst' \in [Obj -> InstanceType] /\ InstancesSound'
        BY <2>1, <2>2, LaunchedSound DEF InstancesSound
    <2>4. instances' \in Seq(Obj) /\ \A i \in DOMAIN instances' : instances'[i] \in 1..used'
        <3>1. \A i \in DOMAIN instances : instances[i] \in 1..(used + k)
            BY <1>1, <2>1 DEF Frame, ListsKnown
        <3> QED BY <1>1, <2>1, <2>2, <3>1, NewObjectsKnown, ConcatKnown DEF Frame
    <2>5. \A i \in DOMAIN added' : added'[i] \in 1..used'
        BY <1>1, <1>2, <2>1 DEF StartOK, Frame, ListsKnown
    <2>6. Frame'
        BY <1>1, <1>2, <2>4, <2>5 DEF StartOK, Frame, ListsKnown
    <2>7. used' \in 0..MaxObj
        BY <1>1, <2>1
    <2> QED BY <2>3, <2>6, <2>7 DEF IInv, TypeOK, Frame
<1>3. ASSUME NEW k \in 0..MaxScale, StartFails(r, k) PROVE IInv'
    <2>1. k \in Nat /\ used + k <= MaxObj /\ used' = used + k
        BY <1>1, <1>3, SetupType, SupervisorAssumption DEF StartFails
    <2>2. instances' = instances \o NewObjects(k)
        BY <1>3 DEF StartFails
    <2> DEFINE L == Launched(k)
    <2>3. L \in [Obj -> InstanceType] /\ \A o \in Obj : Sound(L[o], o, used + k)
        BY <2>1, LaunchedSound
    <2>4. inst' = [o \in Obj |-> IF o \in Range(instances') /\ L[o].proc = "alive"
                                 THEN [L[o] EXCEPT !.proc = "killed"] ELSE L[o]]
        BY <1>3 DEF StartFails
    <2> HIDE DEF L
    <2>5. ASSUME NEW o \in Obj PROVE inst'[o] \in InstanceType /\ Sound(inst'[o], o, used')
        <3>1. L[o] \in InstanceType /\ Sound(L[o], o, used')
            BY <2>1, <2>3
        <3>2. CASE inst'[o] = L[o]
            BY <3>1, <3>2
        <3>3. CASE L[o].proc = "alive" /\ inst'[o] = [L[o] EXCEPT !.proc = "killed"]
            <4> DEFINE q == [L[o] EXCEPT !.proc = "killed"]
            <4>1. q \in InstanceType
                BY <3>1 DEF InstanceType
            <4>2. Sound(q, o, used')
                BY <3>1, <3>3 DEF Sound, InstanceType
            <4> QED BY <3>3, <4>1, <4>2
        <3> QED BY <2>4, <3>2, <3>3
    <2>6. inst' \in [Obj -> InstanceType] /\ InstancesSound'
        BY <2>4, <2>5 DEF InstancesSound
    <2>7. instances' \in Seq(Obj) /\ \A i \in DOMAIN instances' : instances'[i] \in 1..used'
        <3>1. \A i \in DOMAIN instances : instances[i] \in 1..(used + k)
            BY <1>1, <2>1 DEF Frame, ListsKnown
        <3> QED BY <1>1, <2>1, <2>2, <3>1, NewObjectsKnown, ConcatKnown DEF Frame
    <2>8. \A i \in DOMAIN added' : added'[i] \in 1..used'
        BY <1>1, <1>3, <2>1 DEF StartFails, Frame, ListsKnown
    <2>9. Frame'
        BY <1>1, <1>3, <2>7, <2>8 DEF StartFails, Frame, ListsKnown
    <2>10. used' \in 0..MaxObj
        BY <1>1, <2>1
    <2> QED BY <2>6, <2>9, <2>10 DEF IInv, TypeOK, Frame
<1> QED BY <1>2, <1>3

(* ScaleUp.                                                                *)
LEMMA ScaleUpInv ==
    ASSUME IInv, ScaleUpStart \/ ScaleUpFails \/ ScaleUpAbort \/ ScaleUpCommit
    PROVE  IInv'
<1>1. Frame /\ used \in 0..MaxObj /\ used \in Nat /\ inst \in [Obj -> InstanceType] /\ InstancesSound
    BY DEF IInv, TypeOK, Frame
<1>2. CASE ScaleUpStart
    <2> DEFINE n == used + 1
    <2> DEFINE q == startInstance(NextIndex)
    <2>1. n \in Nat /\ n \in Obj /\ n \in 0..MaxObj /\ used' = n
        BY <1>1, <1>2, SetupType, SupervisorAssumption DEF ScaleUpStart, Frame, Obj
    <2>2. NextIndex \in 0..MaxScale
        BY <1>1, <1>2, SupervisorAssumption DEF ScaleUpStart, Frame, NextIndex
    <2>3. q \in InstanceType /\ Sound(q, n, n)
        BY <1>1, <2>1, <2>2, Fresh
    <2>4. inst' = [inst EXCEPT ![n] = q]
        BY <1>2 DEF ScaleUpStart
    <2> HIDE DEF q
    <2>5. inst' \in [Obj -> InstanceType]
        BY <1>1, <2>1, <2>3, <2>4
    <2>6. ASSUME NEW o \in Obj PROVE Sound(inst'[o], o, n)
        <3>1. CASE o = n
            BY <1>1, <2>1, <2>3, <2>4, <3>1
        <3>2. CASE o # n
            <4>1. inst'[o] = inst[o] /\ Sound(inst[o], o, used)
                BY <1>1, <2>4, <3>2 DEF InstancesSound
            <4>2. o \in Nat /\ (o <= used \/ n < o)
                BY <1>1, <3>2, SupervisorAssumption DEF Obj
            <4> QED BY <1>1, <2>1, <4>1, <4>2, Grown
        <3> QED BY <3>1, <3>2
    <2>7. added' \in Seq(Obj) /\ \A i \in DOMAIN added' : added'[i] \in 1..n
        <3>1. added \in Seq(Obj) /\ added' = Append(added, n)
            BY <1>1, <1>2 DEF Frame, ScaleUpStart
        <3>2. \A i \in DOMAIN added : added[i] \in 1..n
            BY <1>1 DEF Frame, ListsKnown
        <3> QED BY <1>1, <2>1, <3>1, <3>2
    <2>8. \A i \in DOMAIN instances' : instances'[i] \in 1..n
        BY <1>1, <1>2 DEF Frame, ListsKnown, ScaleUpStart
    <2>9. Frame'
        BY <1>1, <1>2, <2>1, <2>7, <2>8 DEF ScaleUpStart, Frame, ListsKnown
    <2>10. InstancesSound'
        BY <2>1, <2>6 DEF InstancesSound
    <2> QED BY <2>1, <2>5, <2>9, <2>10 DEF IInv, TypeOK, Frame
<1>3. CASE ScaleUpFails
    <2>1. inst' = Stopping(Range(added)) /\ used' = used
        BY <1>3 DEF ScaleUpFails, Stopping
    <2>2. inst' \in [Obj -> InstanceType] /\ InstancesSound'
        BY <2>1, ListedKnown, StoppingSound DEF InstancesSound
    <2>3. Frame'
        BY <1>1, <1>3, ListedKnown DEF ScaleUpFails, Frame, ListsKnown
    <2> QED BY <1>1, <2>1, <2>2, <2>3 DEF IInv, TypeOK, Frame
<1>4. CASE ScaleUpAbort
    <2>1. Frame'
        BY <1>1, <1>4, SupervisorAssumption DEF ScaleUpAbort, Frame, ListsKnown
    <2> QED BY <1>1, <1>4, <2>1 DEF ScaleUpAbort, IInv, TypeOK, Frame, InstancesSound
<1>5. CASE ScaleUpCommit
    <2>1. instances' = instances \o added /\ used' = used
        BY <1>5 DEF ScaleUpCommit
    <2>2. instances' \in Seq(Obj) /\ \A i \in DOMAIN instances' : instances'[i] \in 1..used
        BY <1>1, <2>1, ConcatKnown DEF Frame, ListsKnown
    <2>3. Frame'
        BY <1>1, <1>5, <2>1, <2>2, SupervisorAssumption DEF ScaleUpCommit, Frame, ListsKnown
    <2> QED BY <1>1, <1>5, <2>3 DEF ScaleUpCommit, IInv, TypeOK, Frame, InstancesSound
<1> QED BY <1>2, <1>3, <1>4, <1>5

(* A part of the list.                                                     *)
LEMMA SubSeqKnown ==
    ASSUME IInv, NEW m \in 1..Len(instances) + 1, NEW n \in 0..Len(instances)
    PROVE  /\ SubSeq(instances, m, n) \in Seq(Obj)
           /\ \A i \in DOMAIN SubSeq(instances, m, n) :
                  SubSeq(instances, m, n)[i] \in 1..used
           /\ \A i \in m..n : instances[i] \in Range(SubSeq(instances, m, n))
           /\ Range(SubSeq(instances, m, n)) \subseteq Listed
<1> DEFINE t == SubSeq(instances, m, n)
<1>1. instances \in Seq(Obj) /\ Len(instances) \in Nat /\ \A i \in 1..Len(instances) : instances[i] \in 1..used
    BY DEF IInv, TypeOK, ListsKnown
<1>2. /\ t \in Seq(Obj)
      /\ Len(t) = IF m <= n THEN n - m + 1 ELSE 0
      /\ \A i \in 1..(n - m + 1) : t[i] = instances[m + i - 1]
    BY <1>1, SubSeqProperties
<1> HIDE DEF t
<1>3. \A i \in DOMAIN t : i + m - 1 \in 1..Len(instances) /\ t[i] = instances[m + i - 1]
    BY <1>1, <1>2
<1>4. ASSUME NEW i \in m..n PROVE instances[i] \in Range(t)
    <2>1. i - m + 1 \in DOMAIN t /\ t[i - m + 1] = instances[i]
        BY <1>1, <1>2
    <2> QED BY <2>1 DEF Range
<1>5. Range(t) \subseteq Listed
    BY <1>1, <1>3 DEF Range, Listed
<1> QED BY <1>1, <1>2, <1>3, <1>4, <1>5 DEF t

(* A scale-down cuts the list, and no longer than it is.                   *)
CutInside == op = "down" => target <= Len(instances)

(* ScaleDown and Stop.                                                     *)
LEMMA ScaleDownInv ==
    ASSUME IInv, CutInside, ScaleDownEnd \/ \E r \in Calls : ScaleDownBegin(r)
    PROVE  IInv'
<1>1. Frame /\ used \in 0..MaxObj /\ used \in Nat /\ inst \in [Obj -> InstanceType] /\ InstancesSound
    BY DEF IInv, TypeOK, Frame
<1>2. ASSUME NEW r \in Calls, ScaleDownBegin(r) PROVE IInv'
    <2> DEFINE tail == Range(SubSeq(instances, r.n + 1, Len(instances)))
    <2>1. victims' = tail /\ inst' = Stopping(tail) /\ used' = used
        BY <1>2 DEF ScaleDownBegin
    <2>2. tail \subseteq Listed
        <3>1. r.n + 1 \in 1..Len(instances) + 1 /\ Len(instances) \in 0..Len(instances)
            BY <1>1, <1>2, CallType, SupervisorAssumption DEF ScaleDownBegin, Frame
        <3> QED BY <3>1, SubSeqKnown
    <2> HIDE DEF tail
    <2>3. tail \in SUBSET (1..used) /\ tail \subseteq Obj
        BY <2>2, ListedKnown
    <2>4. inst' \in [Obj -> InstanceType] /\ InstancesSound'
        BY <2>1, <2>3, StoppingSound DEF InstancesSound
    <2>5. Frame'
        BY <1>1, <1>2, <2>1, <2>3, CallType DEF ScaleDownBegin, Frame, ListsKnown
    <2> QED BY <1>1, <2>1, <2>4, <2>5 DEF IInv, TypeOK, Frame
<1>3. CASE ScaleDownEnd
    <2>1. inst' \in [Obj -> InstanceType] /\ InstancesSound' /\ used' = used
        BY <1>3, ReleasedSound DEF ScaleDownEnd, InstancesSound
    <2>2. instances' \in Seq(Obj) /\ \A i \in DOMAIN instances' : instances'[i] \in 1..used
        <3>1. 1 \in 1..Len(instances) + 1 /\ target \in 0..Len(instances)
            BY <1>1, <1>3, SupervisorAssumption DEF CutInside, ScaleDownEnd, Frame
        <3>2. CASE instances' = SubSeq(instances, 1, target)
            BY <3>1, <3>2, SubSeqKnown
        <3>3. CASE instances' = instances
            BY <1>1, <3>3 DEF Frame, ListsKnown
        <3> QED BY <1>3, <3>2, <3>3 DEF ScaleDownEnd
    <2>3. Frame'
        BY <1>1, <1>3, <2>1, <2>2, SupervisorAssumption DEF ScaleDownEnd, Frame, ListsKnown
    <2> QED BY <1>1, <2>1, <2>3 DEF IInv, TypeOK, Frame
<1> QED BY <1>2, <1>3

(* The steps of Stop that touch all victims at once.                       *)
LEMMA StopInv ==
    ASSUME IInv, StopDrain \/ StopEnd \/ \E r \in Calls : StopBegin(r)
    PROVE  IInv'
<1>1. Frame /\ used \in 0..MaxObj /\ used \in Nat /\ inst \in [Obj -> InstanceType] /\ InstancesSound
    BY DEF IInv, TypeOK, Frame
<1>2. ASSUME NEW r \in Calls, StopBegin(r) PROVE IInv'
    <2> DEFINE L == Stopping(Listed)
    <2>1. L \in [Obj -> InstanceType] /\ \A o \in Obj : Sound(L[o], o, used)
        BY ListedKnown, StoppingSound
    <2>2. inst' = [o \in Obj |-> IF ctx # "none" /\ L[o].mon = "backoff"
                                 THEN [L[o] EXCEPT !.mon = "cancelled"] ELSE L[o]]
          /\ used' = used
        BY <1>2 DEF StopBegin
    <2> HIDE DEF L
    <2>3. ASSUME NEW o \in Obj PROVE inst'[o] \in InstanceType /\ Sound(inst'[o], o, used)
        <3>1. L[o] \in InstanceType /\ Sound(L[o], o, used)
            BY <2>1
        <3>2. CASE inst'[o] = L[o]
            BY <3>1, <3>2
        <3>3. CASE L[o].mon = "backoff" /\ inst'[o] = [L[o] EXCEPT !.mon = "cancelled"]
            <4> DEFINE q == [L[o] EXCEPT !.mon = "cancelled"]
            <4>1. q \in InstanceType
                BY <3>1 DEF InstanceType, Restarting
            <4>2. Sound(q, o, used)
                BY <3>1, <3>3 DEF Sound, InstanceType, Restarting
            <4> QED BY <3>3, <4>1, <4>2
        <3> QED BY <2>2, <3>2, <3>3
    <2>4. inst' \in [Obj -> InstanceType] /\ InstancesSound'
        BY <2>2, <2>3 DEF InstancesSound
    <2>5. Frame'
        BY <1>1, <1>2, <2>2, ListedKnown DEF StopBegin, Frame, ListsKnown
    <2> QED BY <1>1, <2>2, <2>4, <2>5 DEF IInv, TypeOK, Frame
<1>3. CASE StopDrain
    <2>1. Frame'
        BY <1>1, <1>3 DEF StopDrain, Frame, ListsKnown
    <2> QED BY <1>1, <1>3, <2>1 DEF StopDrain, IInv, TypeOK, Frame, InstancesSound
<1>4. CASE StopEnd
    <2>1. inst' \in [Obj -> InstanceType] /\ InstancesSound' /\ used' = used
        BY <1>4, ReleasedSound DEF StopEnd, InstancesSound
    <2>2. /\ instances' \in Seq(Obj) /\ \A i \in DOMAIN instances' : instances'[i] \in 1..used
          /\ ctx' \in {"none", "live", "cancelled"}
          /\ state' \in {"stopped", "starting", "running", "stopping", "failed"}
        <3>1. CASE Clean
            BY <1>4, <3>1 DEF StopEnd
        <3>2. CASE ~Clean
            BY <1>1, <1>4, <3>2 DEF StopEnd, Frame, ListsKnown
        <3> QED BY <3>1, <3>2
    <2>3. Frame'
        BY <1>1, <1>4, <2>1, <2>2 DEF StopEnd, Frame, ListsKnown
    <2> QED BY <1>1, <2>1, <2>3 DEF IInv, TypeOK, Frame
<1> QED BY <1>2, <1>3, <1>4

(* Nothing but a scale-down sets a target below the length of the list, and *)
(* while it holds operationMu nothing shortens the list.                   *)
LEMMA CutInv ==
    ASSUME IInv, CutInside, Next PROVE CutInside'
<1>1. instances \in Seq(Obj) /\ target \in Int
    BY DEF IInv, TypeOK
<1>2. CASE CallStep
    BY <1>1, <1>2, CallType DEF CallStep, Serve, StartNoop, StartOK, StartFails,
        ScaleUpRejected, ScaleUpBegin, ScaleDownRejected, ScaleDownBegin, StopBegin, CutInside
<1>3. CASE OperationStep
    BY <1>1, <1>3 DEF OperationStep, ScaleUpStart, ScaleUpFails, ScaleUpAbort, ScaleUpCommit,
        ScaleDownEnd, StopDrain, StopEnd, CutInside
<1>4. ASSUME NEW o \in Obj, Adopt(o) PROVE CutInside'
    <2>1. DOMAIN instances' = DOMAIN instances
        BY <1>4 DEF Adopt
    <2>2. Len(instances') = Len(instances)
        <3>1. MonitorStep(o) /\ used' = used /\ used \in Nat
            BY <1>4 DEF MonitorStep, Adopt, IInv, TypeOK
        <3>2. instances' \in Seq(Obj)
            BY <3>1, BackgroundFrame DEF Frame
        <3> QED BY <1>1, <2>1, <3>2
    <2> QED BY <1>4, <2>2 DEF Adopt, CutInside
<1>5. ASSUME NEW o \in Obj, StopStep(o) \/ ProcessExit(o) \/ (MonitorStep(o) /\ ~Adopt(o))
      PROVE  CutInside'
    BY <1>5 DEF CutInside, StopStep, ProcessExit, MonitorStep, RecordExit, handleOneshotExit,
        Decide, BackoffOver, BackoffCancelled, ReplacementStarts, ReplacementFails,
        CountRestart, ScanInstances, DeclareDead
<1> QED BY <1>2, <1>3, <1>4, <1>5 DEF Next

-----------------------------------------------------------------------------
(* The inductive invariant is preserved by every step.                     *)
LEMMA IInvNext ==
    ASSUME IInv, CutInside, [Next]_vars PROVE IInv' /\ CutInside'
<1>1. CASE UNCHANGED vars
    BY <1>1 DEF vars, IInv, TypeOK, InstancesSound, ListsKnown, CutInside
<1>2. ASSUME NEW r \in Calls, StartNoop(r) \/ ScaleUpRejected(r) \/ ScaleDownRejected(r) PROVE IInv'
    BY <1>2 DEF StartNoop, ScaleUpRejected, ScaleDownRejected, IInv, TypeOK, InstancesSound, ListsKnown
<1>3. ASSUME NEW r \in Calls, ScaleUpBegin(r) PROVE IInv'
    BY <1>3, CallType DEF ScaleUpBegin, IInv, TypeOK, InstancesSound, ListsKnown
<1>4. ASSUME CallStep PROVE IInv'
    BY <1>2, <1>3, <1>4, StartInv, ScaleDownInv, StopInv DEF CallStep
<1>5. ASSUME OperationStep PROVE IInv'
    BY <1>5, ScaleUpInv, ScaleDownInv, StopInv DEF OperationStep
<1>6. ASSUME NEW o \in Obj, StopStep(o) \/ MonitorStep(o) \/ ProcessExit(o) PROVE IInv'
    <2>1. used \in 0..MaxObj
        BY DEF IInv, TypeOK
    <2>2. /\ inst' \in [Obj -> InstanceType] /\ InstancesSound'
          /\ used' \in 0..MaxObj /\ used <= used'
        <3>1. CASE StopStep(o)
            <4>1. used' = used
                BY <3>1 DEF StopStep
            <4> QED BY <2>1, <3>1, <4>1, StopStepInv
        <3>2. CASE ProcessExit(o)
            <4>1. used' = used
                BY <3>2 DEF ProcessExit
            <4> QED BY <2>1, <3>2, <4>1, ProcessExitInv
        <3>3. CASE MonitorStep(o)
            BY <3>3, MonitorStepInv
        <3> QED BY <1>6, <3>1, <3>2, <3>3
    <2>3. used' \in Nat
        BY <2>2, SupervisorAssumption
    <2>4. Frame'
        BY <1>6, <2>2, <2>3, BackgroundFrame
    <2> QED BY <2>2, <2>4 DEF IInv, TypeOK, Frame
<1>7. CASE Next
    BY <1>4, <1>5, <1>6, <1>7, CutInv DEF Next
<1> QED BY <1>1, <1>7

(* Every reachable state satisfies the inductive invariant.                *)
THEOREM Invariance == Spec => [](IInv /\ CutInside)
<1>1. Init => IInv /\ CutInside
    BY IInvInit DEF Init, CutInside
<1>2. (IInv /\ CutInside) /\ [Next]_vars => (IInv /\ CutInside)'
    BY IInvNext
<1> QED BY <1>1, <1>2, PTL DEF Spec

(* Type correctness of the supervisor's state under every step of Start,   *)
(* Stop, ScaleUp, ScaleDown, stopInstance and the monitor goroutines; a    *)
(* replacement is always a real instance when it enters s.instances.       *)
THEOREM TypeCorrect == Spec => []TypeOK
<1>1. IInv => TypeOK
    BY DEF IInv
<1> QED BY <1>1, Invariance, PTL

(* stopInstance never reports a stopped instance whose process still lives. *)
THEOREM StopTruthful == Spec => []StopIsTruthful
<1>1. IInv => StopIsTruthful
    BY DEF IInv, InstancesSound, Sound, StopIsTruthful
<1> QED BY <1>1, Invariance, PTL

(* An instance that a stop found running is never restarted by its monitor. *)
THEOREM ClaimFinal == Spec => []ClaimedNeverRestarts
<1>1. IInv => ClaimedNeverRestarts
    <2> SUFFICES ASSUME IInv, NEW o \in Obj, Claimed(o) PROVE inst[o].mon \notin Restarting
        BY DEF ClaimedNeverRestarts
    <2>1. CASE inst[o].st = "stopping"
        BY <2>1 DEF IInv, InstancesSound, Sound, Restarting
    <2>2. CASE inst[o].st # "stopping"
        BY <2>2 DEF IInv, InstancesSound, Sound, Claimed
    <2> QED BY <2>1, <2>2
<1> QED BY <1>1, Invariance, PTL

(* A process that lives is never recorded as stopped, completed or failed. *)
THEOREM LiveIsVisible == Spec => []LiveLooksLive
<1>1. IInv => LiveLooksLive
    BY DEF IInv, InstancesSound, Sound, LiveLooksLive, Live
<1> QED BY <1>1, Invariance, PTL
-----------------------------------------------------------------------------
(* No orphans.  With the policy never, or for a oneshot, no monitor gets   *)
(* near a replacement; so the list changes only under operationMu, and the *)
(* operation that drops an instance from it has it among its victims.      *)
RestartFree == cfg.policy = "never" \/ cfg.type = "oneshot"

NoneRestarts == \A o \in Obj : inst[o].mon \notin Restarting

Accounted == \A o \in Obj : Live(o) => o \in Listed \cup Range(added) \/ inst[o].stop = "err"

Held ==
    /\ op = "upfail" => Range(added) \subseteq victims
    /\ op = "down" => /\ victims \subseteq Listed
                      /\ \A i \in DOMAIN instances : i > target => instances[i] \in victims
    /\ op \in {"stop", "drain"} => victims = Listed
    /\ op = "drain" => Finished

OrphanInv == NoneRestarts /\ Accounted /\ Held

(* The elements of a concatenation.                                        *)
LEMMA ConcatRange ==
    ASSUME NEW s \in Seq(Obj), NEW t \in Seq(Obj)
    PROVE  Range(s \o t) = Range(s) \cup Range(t)
<1>1. s \o t \in Seq(Obj) /\ Len(s \o t) = Len(s) + Len(t) /\ Len(s) \in Nat /\ Len(t) \in Nat
    OBVIOUS
<1>2. \A i \in 1..Len(s) : i \in DOMAIN (s \o t) /\ (s \o t)[i] = s[i]
    BY <1>1
<1>3. \A i \in 1..Len(t) : i + Len(s) \in DOMAIN (s \o t) /\ (s \o t)[i + Len(s)] = t[i]
    BY <1>1
<1>4. ASSUME NEW i \in DOMAIN (s \o t) PROVE (s \o t)[i] \in Range(s) \cup Range(t)
    <2>1. CASE i <= Len(s)
        BY <1>1, <1>2, <2>1 DEF Range
    <2>2. CASE i > Len(s)
        <3>1. i - Len(s) \in 1..Len(t) /\ (i - Len(s)) + Len(s) = i
            BY <1>1, <2>2
        <3>2. (s \o t)[i] = t[i - Len(s)]
            BY <1>3, <3>1
        <3> QED BY <3>1, <3>2 DEF Range
    <2> QED BY <1>1, <2>1, <2>2
<1>5. Range(s \o t) \subseteq Range(s) \cup Range(t)
    BY <1>4 DEF Range
<1>6. Range(s) \subseteq Range(s \o t)
    BY <1>2 DEF Range
<1>7. Range(t) \subseteq Range(s \o t)
    <2> SUFFICES ASSUME NEW i \in 1..Len(t) PROVE t[i] \in Range(s \o t)
        BY <1>1 DEF Range
    <2> QED BY <1>3 DEF Range
<1> QED BY <1>5, <1>6, <1>7

(* Processes only die, and a finished stop stays finished, in the steps    *)
(* that take no part in operationMu.                                       *)
Fades ==
    \A p \in Obj : /\ Live(p)' => Live(p)
                   /\ inst[p].stop \in {"gone", "ok", "err"} => inst'[p].stop = inst[p].stop
                   /\ inst'[p].mon \notin Restarting

(* A step after which no more instances are live than before, and which    *)
(* leaves the lists alone, loses track of none.                            *)
LEMMA FadesKeeps ==
    ASSUME IInv, OrphanInv, Fades, UNCHANGED <<cfg, instances, op, target, victims, added>>
    PROVE  OrphanInv'
<1>1. NoneRestarts'
    BY DEF Fades, NoneRestarts
<1>2. Accounted'
    BY DEF Fades, OrphanInv, Accounted, Listed
<1>3. Held'
    <2>1. Finished => Finished'
        BY DEF Fades, Finished, IInv, TypeOK
    <2> QED BY <2>1 DEF OrphanInv, Held, Listed
<1> QED BY <1>1, <1>2, <1>3 DEF OrphanInv

(* One object o is given the contents q.                                   *)
LEMMA OneFades ==
    ASSUME IInv, OrphanInv, NEW o \in Obj, NEW q, inst' = [inst EXCEPT ![o] = q],
           q.proc \in {"alive", "killed"} => Live(o),
           inst[o].stop \in {"gone", "ok", "err"} => q.stop = inst[o].stop,
           q.mon \notin Restarting
    PROVE  Fades
<1>1. inst \in [Obj -> InstanceType]
    BY DEF IInv, TypeOK
<1>2. inst'[o] = q /\ \A p \in Obj : p # o => inst'[p] = inst[p]
    BY <1>1
<1> QED BY <1>2 DEF Fades, Live, OrphanInv, NoneRestarts

(* stopInstance and, without restarts, the monitors only ever end          *)
(* instances.                                                              *)
LEMMA StopStepFades ==
    ASSUME IInv, OrphanInv, NEW o \in Obj, StopStep(o)
    PROVE  Fades
<1>1. inst[o] \in InstanceType /\ inst[o].mon \notin Restarting
    BY DEF IInv, TypeOK, OrphanInv, NoneRestarts
<1>2. CASE stopInstance(o)
    <2>1. PICK s \in {"grace", "err", "gone"}, st \in {"stopping", inst[o].st} :
              inst' = [inst EXCEPT ![o] = [inst[o] EXCEPT !.stop = s, !.allowRestart = FALSE, !.st = st]]
        <3>1. inst' \in {Claim(o, "grace"), Claim(o, "err"), Gone(o)}
            BY <1>2 DEF stopInstance
        <3>2. Gone(o) = [inst EXCEPT ![o] = [inst[o] EXCEPT !.stop = "gone", !.allowRestart = FALSE,
                                                           !.st = inst[o].st]]
            BY <1>1 DEF Gone, InstanceType
        <3> QED BY <3>1, <3>2 DEF Claim
    <2> DEFINE q == [inst[o] EXCEPT !.stop = s, !.allowRestart = FALSE, !.st = st]
    <2>2. q.proc = inst[o].proc /\ q.mon = inst[o].mon
        BY <1>1 DEF InstanceType
    <2>3. inst[o].stop = "begin"
        BY <1>2 DEF stopInstance
    <2> HIDE DEF q
    <2> QED BY <1>1, <2>1, <2>2, <2>3, OneFades DEF q, Live
<1>3. ASSUME NEW s, NEW p \in {inst[o].proc, "killed"}, inst[o].stop \in {"grace", "kill", "escalate"},
             inst' = [inst EXCEPT ![o] = [inst[o] EXCEPT !.stop = s, !.proc = p]],
             p = "killed" => Live(o)
      PROVE  Fades
    <2> DEFINE q == [inst[o] EXCEPT !.stop = s, !.proc = p]
    <2>1. q.proc = p /\ q.mon = inst[o].mon
        BY <1>1 DEF InstanceType
    <2> HIDE DEF q
    <2> QED BY <1>1, <1>3, <2>1, OneFades DEF q, Live
<1>4. \A s : [inst EXCEPT ![o].stop = s] = [inst EXCEPT ![o] = [inst[o] EXCEPT !.stop = s, !.proc = inst[o].proc]]
    BY <1>1 DEF InstanceType
<1>5. Sigkilled(o) \in {inst[o].proc, "killed"} /\ (Sigkilled(o) = "killed" => Live(o))
    BY DEF Sigkilled, Live
<1>6. CASE waitForInstanceExit(o) \/ giveUpOnKill(o)
    BY <1>3, <1>4, <1>6 DEF waitForInstanceExit, giveUpOnKill, Live
<1>7. CASE forceKillInstance(o) \/ escalateKill(o)
    <2>1. inst[o].stop \in {"grace", "kill"}
        BY <1>7 DEF forceKillInstance, escalateKill
    <2>2. CASE \E s : inst' = [inst EXCEPT ![o].stop = s]
        BY <1>3, <1>4, <2>1, <2>2 DEF Live
    <2>3. CASE \E s, p \in {inst[o].proc, Sigkilled(o)} :
                   inst' = [inst EXCEPT ![o].stop = s, ![o].proc = p]
        <3>1. PICK s, p \in {inst[o].proc, Sigkilled(o)} :
                  inst' = [inst EXCEPT ![o].stop = s, ![o].proc = p]
            BY <2>3
        <3>2. inst' = [inst EXCEPT ![o] = [inst[o] EXCEPT !.stop = s, !.proc = p]]
            BY <3>1
        <3>3. p \in {inst[o].proc, "killed"} /\ (p = "killed" => Live(o))
            BY <1>5, <3>1 DEF Live
        <3> QED BY <1>3, <2>1, <3>2, <3>3
    <2> QED BY <1>7, <2>2, <2>3 DEF forceKillInstance, escalateKill
<1> QED BY <1>2, <1>6, <1>7 DEF StopStep

LEMMA MonitorFades ==
    ASSUME IInv, OrphanInv, RestartFree, NEW o \in Obj, MonitorStep(o) \/ ProcessExit(o)
    PROVE  Fades /\ UNCHANGED <<cfg, instances, op, target, victims, added>>
<1>1. inst[o] \in InstanceType /\ inst[o].mon \notin Restarting /\ inst \in [Obj -> InstanceType]
    BY DEF IInv, TypeOK, OrphanInv, NoneRestarts
<1>2. ASSUME NEW m, m \notin Restarting, NEW st, NEW a, NEW p, p \in {inst[o].proc, "dead"},
             inst' = [inst EXCEPT ![o] = [inst[o] EXCEPT !.mon = m, !.st = st, !.attempt = a, !.proc = p]]
      PROVE  Fades
    <2> DEFINE q == [inst[o] EXCEPT !.mon = m, !.st = st, !.attempt = a, !.proc = p]
    <2>1. q.proc = p /\ q.mon = m /\ q.stop = inst[o].stop
        BY <1>1 DEF InstanceType
    <2> HIDE DEF q
    <2> QED BY <1>1, <1>2, <2>1, OneFades DEF q, Live
<1>3. ASSUME NEW m, m \notin Restarting,
             inst' = [inst EXCEPT ![o].mon = m] \/ (\E st : inst' = [inst EXCEPT ![o].mon = m, ![o].st = st])
      PROVE  Fades
    <2>1. CASE inst' = [inst EXCEPT ![o].mon = m]
        <3>1. inst' = [inst EXCEPT ![o] = [inst[o] EXCEPT !.mon = m, !.st = inst[o].st,
                                              !.attempt = inst[o].attempt, !.proc = inst[o].proc]]
            BY <1>1, <2>1 DEF InstanceType
        <3> QED BY <1>2, <1>3, <3>1
    <2>2. CASE \E st : inst' = [inst EXCEPT ![o].mon = m, ![o].st = st]
        <3>1. PICK st : inst' = [inst EXCEPT ![o].mon = m, ![o].st = st]
            BY <2>2
        <3>2. inst' = [inst EXCEPT ![o] = [inst[o] EXCEPT !.mon = m, !.st = st,
                                              !.attempt = inst[o].attempt, !.proc = inst[o].proc]]
            BY <1>1, <3>1 DEF InstanceType
        <3> QED BY <1>2, <1>3, <3>2
    <2> QED BY <1>3, <2>1, <2>2
<1>0. {"exited", "stopped", "scan", "declare", "done"} \cap Restarting = {}
    BY DEF Restarting
<1>4. CASE ProcessExit(o)
    <2>1. inst' = [inst EXCEPT ![o] = [inst[o] EXCEPT !.mon = "exited", !.st = inst[o].st,
                                          !.attempt = inst[o].attempt, !.proc = "dead"]]
        BY <1>1, <1>4 DEF ProcessExit, InstanceType
    <2>2. Fades
        BY <1>2, <1>0, <2>1
    <2> QED BY <1>4, <2>2 DEF ProcessExit
<1>5. ASSUME NEW up \in BOOLEAN, RecordExit(o, up)
      PROVE  Fades /\ UNCHANGED <<cfg, instances, op, target, victims, added>>
    <2>1. PICK a : inst' = [inst EXCEPT ![o].mon = "stopped", ![o].st = "stopped", ![o].attempt = a]
        BY <1>5 DEF RecordExit
    <2>2. inst' = [inst EXCEPT ![o] = [inst[o] EXCEPT !.mon = "stopped", !.st = "stopped",
                                          !.attempt = a, !.proc = inst[o].proc]]
        BY <1>1, <2>1 DEF InstanceType
    <2>3. Fades
        BY <1>2, <1>0, <2>2
    <2> QED BY <1>5, <2>3 DEF RecordExit
<1>6. ASSUME NEW exitCode \in {0, 1}, handleOneshotExit(o, exitCode)
      PROVE  Fades /\ UNCHANGED <<cfg, instances, op, target, victims, added>>
    <2>1. Fades
        BY <1>3, <1>6, <1>0 DEF handleOneshotExit
    <2> QED BY <1>6, <2>1 DEF handleOneshotExit
<1>7. ASSUME NEW exitCode \in {0, 1}, Decide(o, exitCode)
      PROVE  Fades /\ UNCHANGED <<cfg, instances, op, target, victims, added>>
    <2>1. cfg.policy = "never"
        BY <1>7 DEF RestartFree, Decide
    <2>2. ~ShouldRestart(cfg.policy, MaxAttempts, exitCode, inst[o].attempt)
        BY <2>1, Zenon DEF ShouldRestart
    <2>3. inst' = [inst EXCEPT ![o].mon = "done"] \/ inst' = [inst EXCEPT ![o].mon = "scan"]
        BY <1>7, <2>2, Zenon DEF Decide
    <2>4. Fades
        BY <1>3, <1>0, <2>3
    <2> QED BY <1>7, <2>4 DEF Decide
<1>8. CASE ScanInstances(o)
    <2>1. PICK m \in {"declare", "done"} : inst' = [inst EXCEPT ![o].mon = m]
        BY <1>8 DEF ScanInstances
    <2>2. Fades
        BY <1>3, <1>0, <2>1
    <2> QED BY <1>8, <2>2 DEF ScanInstances
<1>9. CASE DeclareDead(o)
    <2>1. Fades
        BY <1>3, <1>9, <1>0 DEF DeclareDead
    <2> QED BY <1>9, <2>1 DEF DeclareDead
<1>10. ~BackoffOver(o) /\ ~BackoffCancelled(o) /\ ~ReplacementStarts(o) /\ ~ReplacementFails(o)
       /\ ~CountRestart(o) /\ ~Adopt(o)
    BY <1>1 DEF BackoffOver, BackoffCancelled, ReplacementStarts, ReplacementFails, CountRestart,
        Adopt, Restarting
<1> QED BY <1>4, <1>5, <1>6, <1>7, <1>8, <1>9, <1>10 DEF MonitorStep

(* Start lists whatever it has started.                                    *)
LEMMA StartAccounts ==
    ASSUME IInv, OrphanInv, NEW r \in Calls,
           StartOK(r) \/ \E k \in 0..MaxScale : StartFails(r, k)
    PROVE  OrphanInv'
<1>1. PICK k \in Nat :
          /\ used + k <= MaxObj /\ instances' = instances \o NewObjects(k)
          /\ \A o \in Obj : \/ inst'[o] = Launched(k)[o]
                            \/ /\ inst'[o] = [Launched(k)[o] EXCEPT !.proc = "killed"]
                               /\ Launched(k)[o].proc = "alive"
          /\ k \in 0..MaxScale
    <2>1. cfg \in Setups /\ used \in Nat
        BY DEF IInv, TypeOK
    <2>2. CASE StartOK(r)
        <3>1. cfg.scale \in Nat /\ cfg.scale \in 0..MaxScale /\ used + cfg.scale <= MaxObj
            BY <2>1, <2>2, SetupType, SupervisorAssumption DEF StartOK
        <3> QED BY <2>2, <3>1 DEF StartOK
    <2>3. ASSUME NEW k \in 0..MaxScale, StartFails(r, k)
          PROVE  /\ k \in Nat /\ used + k <= MaxObj /\ instances' = instances \o NewObjects(k)
                 /\ \A o \in Obj : \/ inst'[o] = Launched(k)[o]
                                   \/ /\ inst'[o] = [Launched(k)[o] EXCEPT !.proc = "killed"]
                                      /\ Launched(k)[o].proc = "alive"
        <3>1. k \in Nat /\ used + k <= MaxObj
            BY <2>1, <2>3, SetupType, SupervisorAssumption DEF StartFails
        <3> QED BY <2>3, <3>1 DEF StartFails
    <2> QED BY <2>2, <2>3
<1>2. op' = "none" /\ added' = added
    BY DEF StartOK, StartFails, Serve
<1>3. used \in Nat /\ inst \in [Obj -> InstanceType] /\ instances \in Seq(Obj)
    BY DEF IInv, TypeOK
<1>4. Range(instances') = Listed \cup (used + 1)..(used + k)
    BY <1>1, <1>3, NewObjectsKnown, ConcatRange DEF Listed
<1>5. ASSUME NEW o \in Obj
      PROVE  /\ inst'[o].mon \notin Restarting
             /\ Live(o)' => o \in Range(instances') \cup Range(added') \/ inst'[o].stop = "err"
    <2>1. Launched(k)[o] \in InstanceType
        BY <1>1, LaunchedSound
    <2>2. /\ inst'[o].mon = Launched(k)[o].mon /\ inst'[o].stop = Launched(k)[o].stop
          /\ Live(o)' => Launched(k)[o].proc \in {"alive", "killed"}
        BY <1>1, <2>1 DEF InstanceType, Live
    <2>3. CASE o \in (used + 1)..(used + k)
        <3>1. Launched(k)[o] = startInstance(o - used - 1)
            BY <2>3 DEF Launched
        <3> QED BY <1>4, <2>2, <2>3, <3>1 DEF startInstance, Restarting
    <2>4. CASE o \notin (used + 1)..(used + k)
        <3>1. inst[o].mon \notin Restarting
            BY DEF OrphanInv, NoneRestarts
        <3>2. Launched(k)[o] = inst[o]
            BY <2>4, <3>1 DEF Launched, Restarting
        <3> QED BY <1>2, <1>4, <2>2, <3>1, <3>2 DEF OrphanInv, Accounted, Live
    <2> QED BY <2>3, <2>4
<1> QED BY <1>2, <1>5 DEF OrphanInv, NoneRestarts, Accounted, Held, Listed

(* The operations account for every live instance: in the list, among the  *)
(* victims or among the additions.                                         *)
LEMMA ScaleUpAccounts ==
    ASSUME IInv, OrphanInv, ScaleUpStart \/ ScaleUpFails \/ ScaleUpAbort \/ ScaleUpCommit
    PROVE  OrphanInv'
<1>1. /\ used \in Nat /\ inst \in [Obj -> InstanceType] /\ instances \in Seq(Obj)
      /\ added \in Seq(Obj) /\ cfg \in Setups
    BY DEF IInv, TypeOK
<1>2. CASE ScaleUpStart
    <2> DEFINE n == used + 1
               q == startInstance(NextIndex)
    <2>1. n \in Obj /\ inst' = [inst EXCEPT ![n] = q] /\ added' = Append(added, n)
          /\ op' = "up" /\ instances' = instances
        BY <1>1, <1>2, SetupType, SupervisorAssumption DEF ScaleUpStart, Obj
    <2>2. Range(added') = Range(added) \cup {n}
        <3>1. <<n>> \in Seq(Obj) /\ Append(added, n) = added \o <<n>> /\ Range(<<n>>) = {n}
            BY <1>1, <2>1 DEF Range
        <3> QED BY <1>1, <2>1, <3>1, ConcatRange
    <2>3. q.mon \notin Restarting
        BY DEF startInstance, Restarting
    <2> HIDE DEF n, q
    <2>4. inst'[n] = q /\ \A o \in Obj : o # n => inst'[o] = inst[o]
        BY <1>1, <2>1
    <2>5. NoneRestarts'
        BY <2>3, <2>4 DEF OrphanInv, NoneRestarts
    <2>6. Accounted'
        BY <2>1, <2>2, <2>4 DEF OrphanInv, Accounted, Live, Listed
    <2> QED BY <2>1, <2>5, <2>6 DEF OrphanInv, Held
<1>3. CASE ScaleUpFails
    <2>1. /\ op' = "upfail" /\ victims' = Range(added) /\ added' = added /\ instances' = instances
          /\ \A o \in Obj : inst'[o] = IF o \in Range(added) THEN [inst[o] EXCEPT !.stop = "begin"] ELSE inst[o]
        BY <1>3 DEF ScaleUpFails
    <2>2. \A o \in Obj : /\ inst'[o].mon = inst[o].mon /\ inst'[o].proc = inst[o].proc
                         /\ o \notin Range(added) => inst'[o].stop = inst[o].stop
        BY <1>1, <2>1 DEF InstanceType
    <2>3. NoneRestarts'
        BY <2>2 DEF OrphanInv, NoneRestarts
    <2>4. Accounted'
        BY <2>1, <2>2 DEF OrphanInv, Accounted, Live, Listed
    <2> QED BY <2>1, <2>3, <2>4 DEF OrphanInv, Held
<1>4. CASE ScaleUpAbort
    <2>1. \A o \in Obj : Live(o) => o \notin Range(added) \/ inst[o].stop = "err"
        BY <1>4 DEF ScaleUpAbort, OrphanInv, Held, Finished, IInv, InstancesSound, Sound, Live
    <2>2. Accounted'
        BY <1>4, <2>1 DEF ScaleUpAbort, OrphanInv, Accounted, Live, Listed
    <2> QED BY <1>4, <2>2 DEF ScaleUpAbort, OrphanInv, NoneRestarts, Held
<1>5. CASE ScaleUpCommit
    <2>1. Range(instances') = Listed \cup Range(added)
        BY <1>1, <1>5, ConcatRange DEF ScaleUpCommit, Listed
    <2>2. Accounted'
        BY <1>5, <2>1 DEF ScaleUpCommit, OrphanInv, Accounted, Live, Listed
    <2> QED BY <1>5, <2>2 DEF ScaleUpCommit, OrphanInv, NoneRestarts, Held
<1> QED BY <1>2, <1>3, <1>4, <1>5

(* A set of listed instances is going to be stopped.                       *)
LEMMA StoppingAccounts ==
    ASSUME IInv, OrphanInv, NEW S, S \subseteq Listed, instances' = instances, added' = added,
           \A o \in Obj : \/ inst'[o] = Stopping(S)[o]
                          \/ inst'[o] = [Stopping(S)[o] EXCEPT !.mon = "cancelled"]
                             /\ Stopping(S)[o].mon = "backoff"
    PROVE  NoneRestarts' /\ Accounted'
<1>1. inst \in [Obj -> InstanceType]
    BY DEF IInv, TypeOK
<1>2. ASSUME NEW o \in Obj
      PROVE  /\ inst'[o].mon = inst[o].mon /\ inst'[o].proc = inst[o].proc
             /\ o \notin S => inst'[o].stop = inst[o].stop
    <2>1. /\ Stopping(S)[o].mon = inst[o].mon /\ Stopping(S)[o].proc = inst[o].proc
          /\ o \notin S => Stopping(S)[o].stop = inst[o].stop
        BY <1>1 DEF Stopping, InstanceType
    <2>2. inst[o].mon # "backoff"
        BY DEF OrphanInv, NoneRestarts, Restarting
    <2> QED BY <2>1, <2>2
<1>3. NoneRestarts'
    BY <1>2 DEF OrphanInv, NoneRestarts
<1>4. Accounted'
    BY <1>2 DEF OrphanInv, Accounted, Live, Listed
<1> QED BY <1>3, <1>4

(* The operation ends: what it drops from the list is dead.                *)
LEMMA ReleasedAccounts ==
    ASSUME IInv, OrphanInv, victims \subseteq Listed, Finished, inst' = Released, added' = added,
           Clean => Listed \ Range(instances') \subseteq victims,
           ~Clean => instances' = instances
    PROVE  NoneRestarts' /\ Accounted'
<1>1. inst \in [Obj -> InstanceType]
    BY DEF IInv, TypeOK
<1>2. \A o \in Obj : /\ inst'[o].mon = inst[o].mon /\ inst'[o].proc = inst[o].proc
                     /\ o \notin victims => inst'[o].stop = inst[o].stop
    BY <1>1 DEF Released, InstanceType
<1>3. NoneRestarts'
    BY <1>2 DEF OrphanInv, NoneRestarts
<1>4. CASE Clean
    <2>1. \A o \in Obj : Live(o) => o \notin victims
        BY <1>4 DEF Clean, Finished, IInv, InstancesSound, Sound, Live
    <2> QED BY <1>2, <1>3, <1>4, <2>1 DEF OrphanInv, Accounted, Live, Listed
<1>5. CASE ~Clean
    BY <1>2, <1>3, <1>5 DEF OrphanInv, Accounted, Live, Listed
<1> QED BY <1>4, <1>5

LEMMA ScaleDownAccounts ==
    ASSUME IInv, CutInside, OrphanInv, ScaleDownEnd \/ \E r \in Calls : ScaleDownBegin(r)
    PROVE  OrphanInv'
<1>1. instances \in Seq(Obj) /\ Len(instances) \in Nat /\ DOMAIN instances = 1..Len(instances)
      /\ target \in Nat
    BY SupervisorAssumption DEF IInv, TypeOK
<1>2. ASSUME NEW r \in Calls, ScaleDownBegin(r) PROVE OrphanInv'
    <2> DEFINE tail == Range(SubSeq(instances, r.n + 1, Len(instances)))
    <2>1. /\ victims' = tail /\ inst' = Stopping(tail) /\ instances' = instances /\ added' = added
          /\ op' = "down" /\ target' = r.n
        BY <1>2 DEF ScaleDownBegin
    <2>2. r.n \in Nat /\ r.n + 1 \in 1..Len(instances) + 1 /\ Len(instances) \in 0..Len(instances)
        BY <1>1, <1>2, CallType, SupervisorAssumption DEF ScaleDownBegin
    <2>3. tail \subseteq Listed /\ \A i \in r.n + 1 .. Len(instances) : instances[i] \in tail
        BY <2>2, SubSeqKnown
    <2> HIDE DEF tail
    <2>4. NoneRestarts' /\ Accounted'
        BY <2>1, <2>3, StoppingAccounts
    <2>5. \A i \in DOMAIN instances : i > r.n => instances[i] \in tail
        BY <1>1, <2>2, <2>3
    <2>6. Held'
        BY <2>1, <2>3, <2>5 DEF Held, Listed
    <2> QED BY <2>4, <2>6 DEF OrphanInv
<1>3. CASE ScaleDownEnd
    <2>1. /\ Finished /\ inst' = Released /\ added' = added /\ op' = "none"
          /\ instances' = IF Clean THEN SubSeq(instances, 1, target) ELSE instances
          /\ op = "down"
        BY <1>3 DEF ScaleDownEnd
    <2>2. /\ victims \subseteq Listed /\ \A i \in DOMAIN instances : i > target => instances[i] \in victims
        BY <2>1 DEF OrphanInv, Held
    <2>3. \A i \in 1..target : instances[i] \in Range(SubSeq(instances, 1, target))
        <3>1. 1 \in 1..Len(instances) + 1 /\ target \in 0..Len(instances)
            BY <1>1, <2>1 DEF CutInside
        <3> QED BY <3>1, SubSeqKnown
    <2>4. Clean => Listed \ Range(instances') \subseteq victims
        <3> SUFFICES ASSUME Clean, NEW i \in DOMAIN instances, instances[i] \notin Range(instances')
                     PROVE  instances[i] \in victims
            BY DEF Listed, Range
        <3>1. ~(i \in 1..target)
            BY <2>1, <2>3
        <3> QED BY <1>1, <2>2, <3>1
    <2>5. NoneRestarts' /\ Accounted'
        BY <2>1, <2>2, <2>4, ReleasedAccounts
    <2> QED BY <2>1, <2>5 DEF OrphanInv, Held
<1> QED BY <1>2, <1>3

LEMMA StopAccounts ==
    ASSUME IInv, OrphanInv, StopDrain \/ StopEnd \/ \E r \in Calls : StopBegin(r)
    PROVE  OrphanInv'
<1>1. ASSUME NEW r \in Calls, StopBegin(r) PROVE OrphanInv'
    <2>1. op' = "stop" /\ victims' = Listed /\ instances' = instances /\ added' = added
        BY <1>1 DEF StopBegin
    <2>2. \A o \in Obj : \/ inst'[o] = Stopping(Listed)[o]
                         \/ inst'[o] = [Stopping(Listed)[o] EXCEPT !.mon = "cancelled"]
                            /\ Stopping(Listed)[o].mon = "backoff"
        BY <1>1 DEF StopBegin
    <2>3. NoneRestarts' /\ Accounted'
        BY <2>1, <2>2, StoppingAccounts
    <2> QED BY <2>1, <2>3 DEF OrphanInv, Held, Listed
<1>2. CASE StopDrain
    BY <1>2 DEF StopDrain, OrphanInv, NoneRestarts, Accounted, Held, Finished, Listed, Live
<1>3. CASE StopEnd
    <2>1. Finished /\ victims = Listed /\ inst' = Released /\ added' = added /\ op' = "none"
        BY <1>3 DEF StopEnd, OrphanInv, Held
    <2>2. ~Clean => instances' = instances
        BY <1>3 DEF StopEnd
    <2>3. NoneRestarts' /\ Accounted'
        BY <2>1, <2>2, ReleasedAccounts
    <2> QED BY <2>1, <2>3 DEF OrphanInv, Held
<1> QED BY <1>1, <1>2, <1>3

(* One case per action.                                                    *)
LEMMA OrphanNext ==
    ASSUME IInv, CutInside, RestartFree => OrphanInv, [Next]_vars
    PROVE  (RestartFree => OrphanInv)'
<1>1. cfg' = cfg
    BY DEF Next, vars, CallStep, StartNoop, StartOK, StartFails, ScaleUpRejected, ScaleUpBegin,
        ScaleDownRejected, ScaleDownBegin, StopBegin, OperationStep, ScaleUpStart, ScaleUpFails,
        ScaleUpAbort, ScaleUpCommit, ScaleDownEnd, StopDrain, StopEnd, StopStep, ProcessExit,
        MonitorStep, RecordExit, handleOneshotExit, Decide, BackoffOver, BackoffCancelled,
        ReplacementStarts, ReplacementFails, CountRestart, Adopt, ScanInstances, DeclareDead
<1> SUFFICES ASSUME RestartFree, OrphanInv PROVE OrphanInv'
    BY <1>1 DEF RestartFree
<1>2. ASSUME UNCHANGED <<instances, inst, op, target, victims, added>> PROVE OrphanInv'
    BY <1>2 DEF OrphanInv, NoneRestarts, Accounted, Held, Finished, Listed, Live
<1>3. ASSUME NEW r \in Calls, StartNoop(r) \/ ScaleUpRejected(r) \/ ScaleDownRejected(r) PROVE OrphanInv'
    BY <1>2, <1>3 DEF StartNoop, ScaleUpRejected, ScaleDownRejected
<1>4. ASSUME NEW r \in Calls, ScaleUpBegin(r) PROVE OrphanInv'
    BY <1>4 DEF ScaleUpBegin, OrphanInv, NoneRestarts, Accounted, Held, Listed, Live
<1>5. ASSUME CallStep PROVE OrphanInv'
    BY <1>3, <1>4, <1>5, StartAccounts, ScaleDownAccounts, StopAccounts DEF CallStep
<1>6. ASSUME OperationStep PROVE OrphanInv'
    BY <1>6, ScaleUpAccounts, ScaleDownAccounts, StopAccounts DEF OperationStep
<1>7. ASSUME NEW o \in Obj, StopStep(o) PROVE OrphanInv'
    <2>1. UNCHANGED <<cfg, instances, op, target, victims, added>>
        BY <1>7 DEF StopStep
    <2> QED BY <1>7, <2>1, StopStepFades, FadesKeeps
<1>8. ASSUME NEW o \in Obj, MonitorStep(o) \/ ProcessExit(o) PROVE OrphanInv'
    BY <1>8, MonitorFades, FadesKeeps
<1>9. CASE UNCHANGED vars
    BY <1>2, <1>9 DEF vars
<1> QED BY <1>5, <1>6, <1>7, <1>8, <1>9 DEF Next

(* Without restarts, Start, Stop, ScaleUp and ScaleDown lose no process,   *)
(* whatever fails in them and whenever processes exit: a live process is   *)
(* listed, or belongs to the scale-up in progress, or its stop failed.     *)
THEOREM NoOrphan == Spec => []NoOrphansWithoutRestarts
<1>1. Init => (RestartFree => OrphanInv)
    BY DEF Init, OrphanInv, NoneRestarts, Accounted, Held, Blank, Live, Restarting
<1>2. (IInv /\ CutInside) /\ (RestartFree => OrphanInv) /\ [Next]_vars => (RestartFree => OrphanInv)'
    BY OrphanNext
<1>3. (RestartFree => OrphanInv) => NoOrphansWithoutRestarts
    BY DEF RestartFree, OrphanInv, Accounted, NoOrphansWithoutRestarts
<1> QED BY <1>1, <1>2, <1>3, Invariance, PTL DEF Spec

-----------------------------------------------------------------------------
(***************************************************************************)
(* The bookkeeping of restarts.  CrashLoop and the arithmetic of           *)
(* RestartPolicy, for every configured budget, delay and ceiling and every *)
(* number of crashes.                                                      *)
(***************************************************************************)

(* The count the policy is asked about is the number of restarts since the *)
(* last stable run, and whoever waits to be restarted has budget left.     *)
BudgetInv ==
    LET attempts == effectiveAttempts(setup.configured)
    IN  /\ streak = restartCount
        /\ attempts > 0 => restartCount <= attempts
        /\ attempts > 0 /\ phase = "backoff" => restartCount < attempts

(* The delay that is waited for is the one restart.go computes for the     *)
(* current count.                                                          *)
DelayInv ==
    phase = "backoff" =>
        delay = calculateBackoff(effectiveInitial(setup.initial), effectiveCeiling(setup.max),
                                 restartCount)

(* A restart is pending only below the bound on the count.                 *)
CountInv == phase = "backoff" => restartCount < CountBound

LoopInv == LoopTypeOK /\ CountInv /\ BudgetInv /\ DelayInv

-----------------------------------------------------------------------------
(* The larger and the smaller of two integers.                             *)
LEMMA MaxOfTwo ==
    ASSUME NEW a \in Int, NEW b \in Int
    PROVE  Max({a, b}) = IF a >= b THEN a ELSE b
BY DEF Max

(* The minimum in the definitions is the conditional in the code.          *)
LEMMA MinOfTwo ==
    ASSUME NEW a \in Int, NEW b \in Int
    PROVE  Min({a, b}) = IF a <= b THEN a ELSE b
BY DEF Min

(* calculateBackoff clamps the shift count at maxShift.                    *)
LEMMA ShiftClamped ==
    ASSUME NEW n \in Nat
    PROVE  Min({Max({n, 0}), maxShift}) = IF n <= maxShift THEN n ELSE maxShift
<1>1. Max({n, 0}) = n
    BY MaxOfTwo
<1> QED BY <1>1, MinOfTwo DEF maxShift

(* What config defaults and NewSupervisor leave are durations above zero.  *)
LEMMA EffectiveDurations ==
    ASSUME NEW d \in Durations
    PROVE  /\ effectiveInitial(d) \in Durations /\ Positive(effectiveInitial(d))
           /\ effectiveCeiling(d) \in Durations /\ Positive(effectiveCeiling(d))
<1>1. FiveSeconds \in Durations /\ Positive(FiveSeconds)
    BY DEF FiveSeconds, Durations, Word, SignBit, Positive
<1>2. SixtySeconds \in Durations /\ Positive(SixtySeconds)
    BY DEF SixtySeconds, Durations, Word, SignBit, Positive
<1>3. effectiveInitial(d) \in Durations /\ Positive(effectiveInitial(d))
    BY <1>1 DEF effectiveInitial
<1>4. effectiveCeiling(d) \in Durations /\ Positive(effectiveCeiling(d))
    <2>1. CASE d = {}
        BY <1>2, <2>1 DEF effectiveCeiling
    <2>2. CASE d # {} /\ Positive(d)
        BY <2>2 DEF effectiveCeiling
    <2>3. CASE d # {} /\ ~Positive(d)
        BY <1>1, <2>3 DEF effectiveCeiling
    <2> QED BY <2>1, <2>2, <2>3
<1> QED BY <1>3, <1>4

(* A duration is not less than itself.                                     *)
LEMMA LessIrreflexive ==
    ASSUME NEW d
    PROVE  ~Less(d, d)
<1>1. SymDiff(d, d) = {}
    BY DEF SymDiff
<1> QED BY <1>1 DEF Less

(* Whatever the multiplication lost, a positive ceiling is not exceeded.   *)
LEMMA BackoffBelowCeiling ==
    ASSUME NEW initial, NEW max, NEW n, Positive(max)
    PROVE  ~Less(max, calculateBackoff(initial, max, n))
BY LessIrreflexive DEF calculateBackoff

(* The delay is a duration again.                                          *)
LEMMA BackoffType ==
    ASSUME NEW initial, NEW max \in Durations, NEW n
    PROVE  calculateBackoff(initial, max, n) \in Durations
<1> DEFINE shifted == ShiftLeft(IF NotPositive(initial) THEN OneSecond ELSE initial,
                                Min({Max({n, 0}), maxShift}))
<1>1. shifted \in Durations
    BY DEF ShiftLeft, Durations
<1> HIDE DEF shifted
<1>2. calculateBackoff(initial, max, n) \in {max, shifted}
    BY DEF calculateBackoff, shifted
<1> QED BY <1>1, <1>2

(* As long as no bit of the initial delay reaches the sign bit, the 64-bit *)
(* delay is the product clamped by the ceiling: the shift does not reach   *)
(* maxShift, loses nothing, and the signed comparison is the exact one.    *)
LEMMA BackoffExact ==
    ASSUME NEW d \in Durations, NEW max \in Durations, NEW n \in Nat,
           Positive(d), Positive(max), \A b \in d : b + n < SignBit
    PROVE  LET exact == {b + n : b \in d}
               diff  == SymDiff(exact, max)
           IN  calculateBackoff(d, max, n) = IF diff # {} /\ Max(diff) \in exact THEN max ELSE exact
<1> DEFINE exact == {b + n : b \in d}
           diff  == SymDiff(exact, max)
<1>1. PICK b \in d : TRUE
    BY DEF Positive
<1>2. n <= maxShift
    BY <1>1 DEF maxShift, SignBit, Durations, Word
<1>3. Min({Max({n, 0}), maxShift}) = n
    BY <1>2, ShiftClamped
<1>4. ShiftLeft(d, n) = exact
    <2>1. \A c \in d : c + n \in Word
        BY DEF Durations, Word, SignBit
    <2> QED BY <2>1 DEF ShiftLeft
<1>5. calculateBackoff(d, max, n) = IF Positive(max) /\ Less(max, exact) THEN max ELSE exact
    BY <1>3, <1>4 DEF calculateBackoff, NotPositive
<1>6. SignBit \notin exact /\ SignBit \notin max
    BY DEF Positive, SignBit
<1>7. SymDiff(max, exact) = diff /\ SignBit \notin diff
    BY <1>6 DEF SymDiff
<1> HIDE DEF exact, diff
<1>8. Less(max, exact) <=> diff # {} /\ Max(diff) \in exact
    BY <1>7 DEF Less
<1>9. calculateBackoff(d, max, n) = IF diff # {} /\ Max(diff) \in exact THEN max ELSE exact
    BY <1>5, <1>8
<1> QED BY <1>9 DEF exact, diff

-----------------------------------------------------------------------------
(* The fields of a configuration.                                          *)
LEMMA ConfigType ==
    ASSUME setup \in Configs
    PROVE  /\ setup.policy \in Policies
           /\ setup.initial \in Durations /\ setup.max \in Durations
           /\ setup.window \in BOOLEAN
           /\ effectiveAttempts(setup.configured) \in Int
<1>1. /\ setup.policy \in Policies /\ setup.configured \in Attempts
      /\ setup.initial \in Initials /\ setup.max \in Ceilings /\ setup.window \in Windows
    BY DEF Configs
<1>2. setup.configured \in Int
    BY <1>1, CrashLoopAssumption
<1>3. setup.initial \in Durations /\ setup.max \in Durations /\ setup.window \in BOOLEAN
    BY <1>1, Zenon, CrashLoopAssumption
<1> QED BY <1>1, <1>2, <1>3 DEF effectiveAttempts

(* The invariant holds before the first exit.                              *)
LEMMA LoopInvInit ==
    ASSUME LoopInit
    PROVE  LoopInv
<1> USE DEF LoopInit
<1>1. LoopTypeOK
    BY CrashLoopAssumption DEF LoopTypeOK, Durations
<1>2. CountInv /\ DelayInv
    BY DEF CountInv, DelayInv
<1>3. BudgetInv
    BY ConfigType DEF BudgetInv
<1> QED BY <1>1, <1>2, <1>3 DEF LoopInv

(* What an exit does to the count, and what a restart that is decided on   *)
(* says about the budget.                                                  *)
LEMMA LoopExitInv ==
    ASSUME LoopInv, NEW exitCode \in {0, 1}, NEW up \in BOOLEAN, Exit(exitCode, up)
    PROVE  LoopInv'
<1> DEFINE count    == IF setup.window /\ up THEN 0 ELSE restartCount
           attempts == effectiveAttempts(setup.configured)
           restart  == ShouldRestart(setup.policy, attempts, exitCode, count)
<1>0. setup \in Configs /\ setup' = setup
    BY DEF LoopInv, LoopTypeOK, Exit
<1>1. /\ setup.policy \in Policies
      /\ setup.initial \in Durations /\ setup.max \in Durations
      /\ setup.window \in BOOLEAN
      /\ attempts \in Int
    BY <1>0, ConfigType
<1>2. /\ phase = "up" /\ restartCount < CountBound
      /\ restartCount' = count
      /\ streak' = IF setup.window /\ up THEN 0 ELSE streak
      /\ restart => /\ phase' = "backoff"
                    /\ delay' = BackoffDuration(setup.policy, effectiveInitial(setup.initial),
                                                effectiveCeiling(setup.max), count)
      /\ ~restart => phase' = "abandoned" /\ delay' = delay
    BY DEF Exit, resetRestartBudget
<1>3. /\ restartCount \in 0..CountBound /\ streak = restartCount /\ delay \in Durations
      /\ attempts > 0 => restartCount <= attempts
    BY DEF LoopInv, LoopTypeOK, BudgetInv
<1>4. count \in 0..CountBound /\ count < CountBound
    BY <1>2, <1>3, CrashLoopAssumption
<1>5. restart => setup.policy \in {"always", "on-failure"} /\ (attempts > 0 => count < attempts)
    BY <1>1, <1>4 DEF ShouldRestart, withinBudget, Policies
<1>6. restart => delay' = calculateBackoff(effectiveInitial(setup.initial),
                                           effectiveCeiling(setup.max), count)
    BY <1>2, <1>5 DEF BackoffDuration
<1> HIDE DEF count, attempts, restart
<1>7. LoopTypeOK'
    <2>1. delay' \in Durations
        BY <1>1, <1>2, <1>3, <1>6, BackoffType, EffectiveDurations
    <2>2. phase' \in {"up", "backoff", "abandoned"}
        BY <1>2
    <2>3. streak' \in Nat
        BY <1>2, <1>3, CrashLoopAssumption
    <2> QED BY <1>0, <1>2, <1>4, <2>1, <2>2, <2>3 DEF LoopTypeOK
<1>8. CountInv'
    BY <1>2, <1>4 DEF CountInv
<1>9. BudgetInv'
    <2>1. streak' = restartCount'
        BY <1>2, <1>3 DEF count
    <2>2. attempts > 0 => restartCount' <= attempts
        BY <1>1, <1>2, <1>3, CrashLoopAssumption DEF count
    <2>3. phase' = "backoff" => restart
        BY <1>2
    <2> QED BY <1>0, <1>2, <1>5, <2>1, <2>2, <2>3 DEF BudgetInv, attempts
<1>10. DelayInv'
    BY <1>0, <1>2, <1>6 DEF DelayInv
<1> QED BY <1>7, <1>8, <1>9, <1>10 DEF LoopInv

(* attemptRestart carries the count on and touches no decision.            *)
LEMMA LoopRestartInv ==
    ASSUME LoopInv, Restart
    PROVE  LoopInv'
<1>1. setup' = setup /\ phase = "backoff" /\ phase' = "up" /\ delay' = delay
      /\ restartCount' = restartCount + 1 /\ streak' = streak + 1
    BY DEF Restart
<1>2. restartCount \in 0..CountBound /\ restartCount < CountBound /\ setup \in Configs
    BY <1>1 DEF LoopInv, LoopTypeOK, CountInv
<1>3. LoopTypeOK'
    BY <1>1, <1>2, CrashLoopAssumption DEF LoopInv, LoopTypeOK
<1>4. CountInv' /\ DelayInv'
    BY <1>1 DEF CountInv, DelayInv
<1>5. BudgetInv'
    BY <1>1, <1>2, ConfigType, CrashLoopAssumption DEF LoopInv, BudgetInv
<1> QED BY <1>3, <1>4, <1>5 DEF LoopInv

(* One case per action.                                                    *)
LEMMA LoopInvNext ==
    ASSUME LoopInv, [LoopNext]_loopVars
    PROVE  LoopInv'
<1>1. CASE Restart
    BY <1>1, LoopRestartInv
<1>2. CASE \E exitCode \in {0, 1}, up \in BOOLEAN : Exit(exitCode, up)
    BY <1>2, LoopExitInv
<1>3. CASE UNCHANGED loopVars
    BY <1>3 DEF loopVars, LoopInv, LoopTypeOK, CountInv, BudgetInv, DelayInv
<1> QED BY <1>1, <1>2, <1>3 DEF LoopNext

(* The inductive invariant.                                                *)
THEOREM LoopInvariance ==
    LoopSpec => []LoopInv
<1>1. LoopInit => LoopInv
    BY LoopInvInit
<1>2. LoopInv /\ [LoopNext]_loopVars => LoopInv'
    BY LoopInvNext
<1> QED BY <1>1, <1>2, PTL DEF LoopSpec

-----------------------------------------------------------------------------
(* restart.go, calculateBackoff: for any budget, initial delay and ceiling *)
(* and after any number of restarts, the wait is the documented            *)
(* min(initial * 2^n, max) while the product fits into 63 bits, and never  *)
(* longer than the ceiling even when it does not.                          *)
THEOREM BackoffBounded ==
    LoopSpec => []BackoffIsBounded
<1>1. LoopInv => BackoffIsBounded
    <2> SUFFICES ASSUME LoopInv, phase = "backoff" PROVE BackoffIsBounded
        BY DEF BackoffIsBounded, DelayIsPromised, CeilingHolds
    <2> DEFINE d   == effectiveInitial(setup.initial)
               max == effectiveCeiling(setup.max)
    <2>1. setup \in Configs /\ restartCount \in Nat
        BY CrashLoopAssumption DEF LoopInv, LoopTypeOK
    <2>2. d \in Durations /\ max \in Durations /\ Positive(d) /\ Positive(max)
        BY <2>1, ConfigType, EffectiveDurations
    <2>3. delay = calculateBackoff(d, max, restartCount)
        BY DEF LoopInv, DelayInv
    <2> HIDE DEF d, max
    <2>4. CeilingHolds
        BY <2>2, <2>3, BackoffBelowCeiling DEF CeilingHolds, max
    <2>5. ASSUME Fits(restartCount) PROVE delay = Promised(restartCount)
        <3>1. \A b \in d : b + restartCount < SignBit
            BY <2>5 DEF Fits, d
        <3> DEFINE exact == {b + restartCount : b \in d}
                   diff  == SymDiff(exact, max)
        <3>2. calculateBackoff(d, max, restartCount)
                 = IF diff # {} /\ Max(diff) \in exact THEN max ELSE exact
            BY <2>1, <2>2, <3>1, BackoffExact
        <3>3. Promised(restartCount) = IF diff # {} /\ Max(diff) \in exact THEN max ELSE exact
            BY DEF Promised, d, max
        <3> QED BY <2>3, <3>2, <3>3
    <2> QED BY <2>4, <2>5 DEF BackoffIsBounded, DelayIsPromised
<1> QED BY <1>1, LoopInvariance, PTL

(* Why an instance is given up on.                                         *)
LEMMA AbandonedStep ==
    ASSUME LoopInv, LoopNext, phase' = "abandoned", phase # "abandoned"
    PROVE  \/ setup.policy = "never"
           \/ /\ effectiveAttempts(setup.configured) > 0
              /\ streak' >= effectiveAttempts(setup.configured)
           \/ /\ setup.policy = "on-failure"
              /\ Exit(0, TRUE) \/ Exit(0, FALSE)
<1>1. PICK exitCode \in {0, 1}, up \in BOOLEAN : Exit(exitCode, up)
    BY DEF LoopNext, Restart
<1> DEFINE count    == IF setup.window /\ up THEN 0 ELSE restartCount
           attempts == effectiveAttempts(setup.configured)
<1>2. setup \in Configs /\ restartCount \in Nat /\ streak = restartCount
    BY CrashLoopAssumption DEF LoopInv, LoopTypeOK, BudgetInv
<1>3. streak' = count /\ count \in Nat
    BY <1>1, <1>2 DEF Exit
<1>4. ~ShouldRestart(setup.policy, attempts, exitCode, count)
    BY <1>1 DEF Exit, resetRestartBudget
<1>5. setup.policy \in Policies /\ attempts \in Int
    BY <1>2, ConfigType
<1> HIDE DEF count, attempts
<1>6. CASE ~withinBudget(attempts, count)
    <2>1. attempts > 0 /\ count >= attempts
        BY <1>3, <1>5, <1>6 DEF withinBudget
    <2> QED BY <1>3, <2>1 DEF attempts
<1>7. CASE withinBudget(attempts, count) /\ setup.policy = "always"
    BY <1>4, <1>7 DEF ShouldRestart
<1>8. CASE withinBudget(attempts, count) /\ setup.policy = "on-failure"
    <2>1. exitCode = 0
        BY <1>4, <1>8 DEF ShouldRestart
    <2> QED BY <1>1, <1>8, <2>1
<1> QED BY <1>5, <1>6, <1>7, <1>8 DEF Policies

(* supervisor.go and restart.go: the budget is spent exactly, for every    *)
(* configured number of attempts, the default and the unlimited included.  *)
THEOREM BudgetExact ==
    LoopSpec => BudgetIsExact
<1>1. LoopInv => BudgetRespected
    <2> SUFFICES ASSUME LoopInv PROVE BudgetRespected
        OBVIOUS
    <2> QED BY DEF LoopInv, BudgetInv, BudgetRespected
<1>2. LoopInv /\ [LoopNext]_loopVars =>
        [phase' = "abandoned" /\ phase # "abandoned" =>
          \/ setup.policy = "never"
          \/ /\ effectiveAttempts(setup.configured) > 0
             /\ streak' >= effectiveAttempts(setup.configured)
          \/ /\ setup.policy = "on-failure"
             /\ Exit(0, TRUE) \/ Exit(0, FALSE)]_loopVars
    BY AbandonedStep
<1> QED BY <1>1, <1>2, LoopInvariance, PTL DEF LoopSpec, BudgetIsExact, AbandonedForCause

=============================================================================
