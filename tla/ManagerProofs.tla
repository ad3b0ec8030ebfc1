--------------------------- MODULE ManagerProofs ---------------------------
(***************************************************************************)
(* TLAPS proofs about Manager, for any configurations and any number of    *)
(* processes: a process starts after what it depends on has been ready,    *)
(* Shutdown stops it before that, and PID 1 exits with nothing left behind *)
(* and with the right exit code.                                           *)
(***************************************************************************)
EXTENDS Manager, DependencyProofs

Sortable(c) == Validate(NewGraph(c)) /\ ~HasCycle(NewGraph(c))

(* A process that is ready as soon as it has been started.                 *)
Instant(p) == cfg.kind[p] \in {"service", "liveness"}

Typed == TypeOK /\ order \in Seq(cfg.enabled)

(* Only what the graph could order is registered, and only after all that  *)
(* it depends on has been ready.                                           *)
Booted ==
    /\ Registered # {} \/ main \in {"next", "wait", "launch"} => Sortable(cfg)
    /\ \A p \in Procs :
          /\ proc[p].reg => p \in cfg.enabled /\ Deps(p) \subseteq everReady
          /\ ~proc[p].reg => proc[p].inst = "none" /\ ~proc[p].ran /\ proc[p].busy = "free"
    /\ \A c \in Callers : call[c].step # "idle" => call[c].p \in Registered
    /\ \A a \in pending : a[2] \in Registered

(* everReady remembers what the readiness channels once said.              *)
Remembered ==
    \A p \in Procs :
        /\ "ready" \in proc[p].ready => p \in everReady
        /\ proc[p].st = "running" => proc[p].ran
        /\ proc[p].ran /\ Instant(p) => p \in everReady

(* Manager.Start: what is registered by now has been ready, but for the    *)
(* process it is starting, and so have the dependencies it has waited for. *)
Starting ==
    /\ main \in {"prestart", "next", "wait"} => \A p \in Registered : Instant(p) => p \in everReady
    /\ main = "launch" =>
          /\ order # <<>>
          /\ \A p \in Registered : Instant(p) /\ p # Head(order) => p \in everReady
          /\ call["main"].step # "idle" => call["main"].p = Head(order)
          /\ call["main"].step = "started" /\ Instant(Head(order)) => Head(order) \in everReady
    /\ main = "wait" => order # <<>> /\ Deps(Head(order)) \subseteq everReady \cup ToSet(waiting)

(* A process that has run and is not running has left an exit code.        *)
Recorded ==
    \A p \in Procs : proc[p].ran /\ proc[p].inst \notin {"up", "stuck"} => proc[p].exit # "none"

(* Manager.Shutdown: what it is done with does not run, or would not stop, *)
(* or was started behind its back; a level holds nothing that something    *)
(* not yet stopped depends on.                                             *)
Stopping ==
    /\ main # "levels" => level = {} /\ remaining = {}
    /\ level \cup remaining \subseteq Registered
    /\ main \in {"levels", "exiting", "exited"} =>
          \A p \in Procs \ (level \cup remaining) :
              p \in late \/ (proc[p].inst \notin {"up", "backoff"} /\ (proc[p].inst = "stuck" => errs))
    /\ \A p \in level, q \in level \cup remaining : p \notin Deps(q)

IInv == Typed /\ Booted /\ Remembered /\ Starting /\ Recorded /\ Stopping /\ FailureIsReported

-----------------------------------------------------------------------------
(* The configurations.                                                     *)
LEMMA SetupFacts ==
    ASSUME NEW c \in Setups
    PROVE  /\ c.enabled \subseteq Procs /\ c.present = Procs /\ c.depends \in [Procs -> Seq(Procs)]
           /\ c.kind \in [Procs -> Kinds] /\ c.calls \in Nat
           /\ Nodes(NewGraph(c)) = c.enabled
           /\ IsFiniteSet(c.enabled) /\ c.enabled \subseteq Nat
           /\ \A p, q \in c.enabled : p \in ToSet(c.depends[q]) => p \in NewGraph(c)[q]
<1>1. /\ c.enabled \subseteq Procs /\ c.present = Procs /\ c.depends \in [Procs -> Seq(Procs)]
      /\ c.kind \in [Procs -> Kinds] /\ c.calls \in Nat
    BY ManagerAssumption
<1>2. Nodes(NewGraph(c)) = c.enabled
    BY <1>1 DEF Nodes, NewGraph
<1>3. IsFiniteSet(c.enabled) /\ c.enabled \subseteq Nat
    BY <1>1, ManagerAssumption, FS_Subset
<1>4. \A p, q \in c.enabled : p \in ToSet(c.depends[q]) => p \in NewGraph(c)[q]
    BY <1>1 DEF NewGraph, KeepsEdge
<1> QED BY <1>1, <1>2, <1>3, <1>4

(* The order Start walks through holds enabled processes only.             *)
LEMMA OrderTyped ==
    ASSUME NEW c \in Setups, Sortable(c)
    PROVE  TopologicalSort(NewGraph(c)) \in Seq(c.enabled)
<1> DEFINE g == NewGraph(c)
           n == Cardinality(Nodes(g))
<1>1. IsFiniteSet(Nodes(g)) /\ Nodes(g) \subseteq Nat /\ Nodes(g) = c.enabled
    BY SetupFacts
<1>2. n \in Nat
    BY <1>1, FS_CardinalityType
<1>3. TopologicalSort(g) \in [1..n -> Nodes(g)]
    BY <1>1, SortExists DEF Sortable, SortedUpTo
<1> HIDE DEF n, g
<1>4. TopologicalSort(g) \in Seq(Nodes(g))
    BY <1>2, <1>3
<1> QED BY <1>1, <1>4 DEF g

(* A process does not depend on itself.                                    *)
LEMMA NoSelfDependency ==
    ASSUME NEW c \in Setups, Sortable(c), NEW p \in c.enabled
    PROVE  p \notin ToSet(c.depends[p])
BY SetupFacts DEF Sortable, Validate

-----------------------------------------------------------------------------
(* Types.                                                                  *)
Calls == [step : {"idle", "launching", "started", "refused", "undo", "stop", "restop"},
          p : Procs \cup {0}]

(* Start keeps the types; Head and Tail of the order need that it is not   *)
(* empty where they are taken.                                             *)
LEMMA TypeStart ==
    ASSUME Typed, Booted, Starting,
           StartBegin \/ StartNext \/ waitForDependencies \/ registerScheduledProcess
           \/ startRegularProcess \/ StartLaunched \/ StartEnd
    PROVE  Typed'
<1>1. UNCHANGED <<cfg, notifying, deaths, scan, allDead, asked, level, remaining, errs, reason, exitCode,
                  calls, late>>
    BY DEF StartBegin, StartNext, waitForDependencies, registerScheduledProcess, startRegularProcess,
        StartLaunched, StartEnd, UNCHANGED_Background
<1>2. cfg \in Setups /\ cfg.enabled \subseteq Procs /\ cfg.depends \in [Procs -> Seq(Procs)]
    BY SetupFacts DEF Typed, TypeOK
<1>3. ASSUME UNCHANGED <<proc, call, pending, everReady>>, main' \in Mains, order' \in Seq(cfg.enabled),
             waiting' \in Seq(Procs)
      PROVE  Typed'
    <2>1. order' \in Seq(Procs)
        BY <1>2, <1>3
    <2> QED BY <1>1, <1>3, <2>1 DEF Typed, TypeOK
<1>4. order \in Seq(cfg.enabled) /\ waiting \in Seq(Procs) /\ main \in Mains
    BY DEF Typed, TypeOK
<1>5. CASE StartBegin
    BY <1>2, <1>3, <1>4, <1>5, OrderTyped DEF StartBegin, Sortable, Mains
<1>6. CASE StartNext
    <2>1. Head(order) \in Procs
        BY <1>2, <1>4, <1>6 DEF StartNext
    <2> QED BY <1>2, <1>3, <1>4, <1>6, <2>1 DEF StartNext, Mains
<1>7. CASE waitForDependencies
    <2>1. waiting # <<>> => Tail(waiting) \in Seq(Procs)
        BY <1>4
    <2>2. <<>> \in Seq(Procs) /\ waiting # <<>>
        BY <1>7 DEF waitForDependencies
    <2>3. main' \in Mains /\ waiting' \in Seq(Procs)
        BY <1>4, <1>7, <2>1, <2>2 DEF waitForDependencies, Mains
    <2> QED BY <1>3, <1>4, <1>7, <2>3 DEF waitForDependencies
<1>8. CASE registerScheduledProcess
    <2>1. order # <<>>
        BY <1>8 DEF registerScheduledProcess, Starting
    <2>2. Tail(order) \in Seq(cfg.enabled)
        BY <1>4, <2>1
    <2> QED BY <1>3, <1>4, <1>8, <2>2 DEF registerScheduledProcess, Mains
<1>9. CASE startRegularProcess
    <2>1. order # <<>>
        BY <1>9 DEF startRegularProcess, Starting
    <2>2. Tail(order) \in Seq(cfg.enabled) /\ Head(order) \in Procs
        BY <1>2, <1>4, <2>1
    <2>3. main' \in Mains /\ order' \in Seq(cfg.enabled) /\ waiting' \in Seq(Procs)
        BY <1>4, <1>9, <2>2 DEF startRegularProcess, Mains
    <2>4. everReady' \subseteq Procs /\ pending' \subseteq Callers \X Procs
        BY <1>9, <2>2 DEF startRegularProcess, Typed, TypeOK, Callers
    <2>5. proc' \in [Procs -> ProcType]
        <3>1. proc \in [Procs -> ProcType] /\ proc[Head(order)] \in ProcType
            BY <2>2 DEF Typed, TypeOK
        <3>2. [proc[Head(order)] EXCEPT !.reg = TRUE] \in ProcType
            BY <3>1 DEF ProcType
        <3>3. [proc[Head(order)] EXCEPT !.reg = TRUE, !.ready = @ \cup {"ready"}] \in ProcType
            BY <3>1 DEF ProcType
        <3> QED BY <1>9, <2>2, <3>1, <3>2, <3>3 DEF startRegularProcess
    <2>6. call' \in [Callers -> Calls]
        <3>1. [step |-> "launching", p |-> Head(order)] \in Calls
            BY <2>2 DEF Calls
        <3>2. call \in [Callers -> Calls]
            BY DEF Typed, TypeOK, Calls
        <3> QED BY <1>9, <3>1, <3>2 DEF startRegularProcess
    <2>7. order' \in Seq(Procs)
        BY <1>2, <2>3
    <2> QED BY <1>1, <2>3, <2>4, <2>5, <2>6, <2>7 DEF Typed, TypeOK, Calls
<1>10. CASE StartLaunched
    <2>1. order # <<>>
        BY <1>10 DEF StartLaunched, Starting
    <2>2. Tail(order) \in Seq(cfg.enabled)
        BY <1>4, <2>1
    <2>3. main' \in Mains /\ order' \in Seq(cfg.enabled)
        BY <1>4, <1>10, <2>2 DEF StartLaunched, Mains
    <2>4. call' \in [Callers -> Calls]
        BY <1>10 DEF StartLaunched, Typed, TypeOK, Calls, NoCall
    <2>5. order' \in Seq(Procs)
        BY <1>2, <2>3
    <2>6. UNCHANGED <<waiting, proc, pending, everReady>>
        BY <1>10 DEF StartLaunched
    <2> QED BY <1>1, <2>3, <2>4, <2>5, <2>6 DEF Typed, TypeOK, Calls
<1>11. CASE StartEnd
    BY <1>3, <1>4, <1>11 DEF StartEnd, Mains
<1> QED BY <1>5, <1>6, <1>7, <1>8, <1>9, <1>10, <1>11
-----------------------------------------------------------------------------
(* What a step on one supervisor that is registered leaves true.           *)
LEMMA OneSupervisor ==
    ASSUME Typed, Booted, Remembered, Recorded, NEW p \in Procs, NEW q \in ProcType,
           proc' = [proc EXCEPT ![p] = q], proc[p].reg, q.reg, cfg' = cfg,
           everReady \subseteq everReady',
           "ready" \in q.ready => p \in everReady',
           q.st = "running" => q.ran,
           q.ran /\ Instant(p) => p \in everReady',
           q.ran /\ q.inst \notin {"up", "stuck"} => q.exit # "none"
    PROVE  /\ proc' \in [Procs -> ProcType] /\ Registered' = Registered
           /\ proc'[p] = q /\ \A r \in Procs : r # p => proc'[r] = proc[r]
           /\ \A r \in Procs : proc'[r] = proc[r] \/ proc'[r].reg
           /\ Remembered' /\ Recorded'
<1>1. proc' \in [Procs -> ProcType] /\ proc'[p] = q /\ \A r \in Procs : r # p => proc'[r] = proc[r]
    BY DEF Typed, TypeOK
<1>2. \A r \in Procs : proc'[r].reg <=> proc[r].reg
    BY <1>1
<1>3. Registered' = Registered
    BY <1>2 DEF Registered
<1>4. \A r \in Procs : Instant(r)' <=> Instant(r)
    BY DEF Instant
<1>5. Remembered'
    BY <1>1, <1>4 DEF Remembered
<1>6. Recorded'
    BY <1>1 DEF Recorded
<1> QED BY <1>1, <1>3, <1>5, <1>6

(* What a step may do without disturbing Booted, Starting and Stopping     *)
(* (three lemmas): the steps below are shown to do no more.                *)
LEMMA BootedKeeps ==
    ASSUME Booted, cfg' = cfg, Registered' = Registered, everReady \subseteq everReady',
           \A r \in Procs : proc'[r] = proc[r] \/ proc'[r].reg,
           main' \in {"next", "wait", "launch"} => Sortable(cfg),
           \A c \in Callers : call'[c].step # "idle" => call'[c].p \in Registered,
           \A a \in pending' : a[2] \in Registered
    PROVE  Booted'
<1>1. Sortable(cfg)' <=> Sortable(cfg)
    BY DEF Sortable
<1>2. Registered' # {} \/ main' \in {"next", "wait", "launch"} => Sortable(cfg)
    BY DEF Booted
<1>3. ASSUME NEW r \in Procs
      PROVE  /\ proc'[r].reg => r \in cfg'.enabled /\ Deps(r)' \subseteq everReady'
             /\ ~proc'[r].reg => proc'[r].inst = "none" /\ ~proc'[r].ran /\ proc'[r].busy = "free"
    <2>1. proc'[r].reg <=> proc[r].reg
        BY DEF Registered
    <2>2. Deps(r)' = Deps(r)
        BY DEF Deps
    <2> QED BY <2>1, <2>2 DEF Booted
<1> QED BY <1>1, <1>2, <1>3 DEF Booted

LEMMA StartingKeeps ==
    ASSUME Starting, UNCHANGED <<cfg, main, order, waiting>>, Registered' = Registered,
           everReady \subseteq everReady',
           main = "launch" =>
               /\ call'["main"].step # "idle" => call'["main"].p = Head(order)
               /\ call'["main"].step = "started" /\ Instant(Head(order)) => Head(order) \in everReady'
    PROVE  Starting'
<1>1. \A r : Instant(r)' <=> Instant(r)
    BY DEF Instant
<1>2. \A r : Deps(r)' = Deps(r)
    BY DEF Deps
<1>3. Instant(Head(order))' <=> Instant(Head(order))
    BY DEF Instant
<1>4. Deps(Head(order))' = Deps(Head(order))
    BY DEF Deps
<1>5. main' \in {"prestart", "next", "wait"} => \A p \in Registered' : Instant(p)' => p \in everReady'
    BY <1>1 DEF Starting
<1>6. main' = "launch" =>
          /\ order' # <<>>
          /\ \A p \in Registered' : Instant(p)' /\ p # Head(order') => p \in everReady'
          /\ call'["main"].step # "idle" => call'["main"].p = Head(order')
          /\ call'["main"].step = "started" /\ Instant(Head(order))' => Head(order') \in everReady'
    BY <1>1, <1>3 DEF Starting
<1>7. main' = "wait" => order' # <<>> /\ Deps(Head(order))' \subseteq everReady' \cup ToSet(waiting')
    BY <1>4 DEF Starting
<1> QED BY <1>5, <1>6, <1>7 DEF Starting

LEMMA StoppingKeeps ==
    ASSUME Stopping, UNCHANGED <<cfg, main, level, remaining>>, Registered' = Registered,
           \A p \in Procs \ (level \cup remaining) :
               main \in {"levels", "exiting", "exited"} =>
                   p \in late' \/ (proc'[p].inst \notin {"up", "backoff"} /\ (proc'[p].inst = "stuck" => errs'))
    PROVE  Stopping'
<1>1. \A p, q : p \notin Deps(q)' <=> p \notin Deps(q)
    BY DEF Deps
<1> QED BY <1>1 DEF Stopping
-----------------------------------------------------------------------------
(* The processes.                                                          *)
LEMMA OnProcKeeps ==
    ASSUME IInv, main # "exited", NEW p \in Procs, NEW q \in ProcType, NEW told \in BOOLEAN, OnProc(p, q, told),
           proc[p].inst # "none", q.reg <=> proc[p].reg, q.ran <=> proc[p].ran, q.st = proc[p].st,
           everReady \subseteq everReady', everReady' \subseteq Procs,
           "ready" \in q.ready => p \in everReady',
           q.ran /\ q.inst \notin {"up", "stuck"} => q.exit # "none",
           q.inst \in {"up", "backoff"} => proc[p].inst \in {"up", "backoff"},
           q.inst # "stuck"
    PROVE  IInv'
<1>1. /\ proc' = [proc EXCEPT ![p] = q]
      /\ notifying' = IF told THEN notifying \cup {p} ELSE notifying
      /\ UNCHANGED <<cfg, main, order, waiting, call, pending, deaths, scan, allDead, asked,
                     level, remaining, errs, reason, exitCode, calls, late>>
    BY DEF OnProc
<1>2. Typed /\ Booted /\ Remembered /\ Starting /\ Recorded /\ Stopping
    BY DEF IInv
<1>3. proc[p].reg
    BY <1>2 DEF Booted
<1>4. /\ proc' \in [Procs -> ProcType] /\ Registered' = Registered
      /\ proc'[p] = q /\ \A r \in Procs : r # p => proc'[r] = proc[r]
      /\ \A r \in Procs : proc'[r] = proc[r] \/ proc'[r].reg
      /\ Remembered' /\ Recorded'
    <2>1. q.reg /\ cfg' = cfg
        BY <1>1, <1>3
    <2>2. (q.st = "running" => q.ran) /\ (q.ran /\ Instant(p) => p \in everReady')
        BY <1>2 DEF Remembered
    <2> QED BY <1>1, <1>2, <1>3, <2>1, <2>2, OneSupervisor
<1>5. Typed'
    BY <1>1, <1>2, <1>4 DEF Typed, TypeOK
<1>6. Booted'
    <2>1. \A c \in Callers : call'[c].step # "idle" => call'[c].p \in Registered
        BY <1>1, <1>2 DEF Booted
    <2>2. \A a \in pending' : a[2] \in Registered
        BY <1>1, <1>2 DEF Booted
    <2>3. main' \in {"next", "wait", "launch"} => Sortable(cfg)
        BY <1>1, <1>2 DEF Booted
    <2> QED BY <1>1, <1>2, <1>4, <2>1, <2>2, <2>3, BootedKeeps
<1>7. Starting'
    <2>1. main = "launch" =>
               /\ call'["main"].step # "idle" => call'["main"].p = Head(order)
               /\ call'["main"].step = "started" /\ Instant(Head(order)) => Head(order) \in everReady'
        BY <1>1, <1>2 DEF Starting
    <2> QED BY <1>1, <1>2, <1>4, <2>1, StartingKeeps
<1>8. Stopping'
    <2>1. \A r \in Procs \ (level \cup remaining) :
               main \in {"levels", "exiting", "exited"} =>
                   r \in late' \/ (proc'[r].inst \notin {"up", "backoff"} /\ (proc'[r].inst = "stuck" => errs'))
        BY <1>1, <1>2, <1>4 DEF Stopping
    <2> QED BY <1>1, <1>2, <1>4, <2>1, StoppingKeeps
<1>9. FailureIsReported'
    BY <1>1 DEF FailureIsReported
<1> QED BY <1>4, <1>5, <1>6, <1>7, <1>8, <1>9 DEF IInv

(* The steps of the system preserve the invariant, one lemma per group of  *)
(* actions: first what a process does by itself.                           *)
LEMMA ProcessKeeps ==
    ASSUME IInv, main # "exited", NEW p \in Procs, ProcessStep(p)
    PROVE  IInv'
<1>1. proc[p] \in ProcType /\ everReady \subseteq Procs /\ cfg \in Setups
    BY DEF IInv, Typed, TypeOK
<1>2. /\ "ready" \in proc[p].ready => p \in everReady
      /\ proc[p].ran /\ proc[p].inst \notin {"up", "stuck"} => proc[p].exit # "none"
    BY DEF IInv, Remembered, Recorded
<1>3. ASSUME NEW code \in {"zero", "bad"}, OneshotExit(p, code) PROVE IInv'
    <2> DEFINE q == [proc[p] EXCEPT !.inst = IF proc[p].busy = "free" THEN "over" ELSE "lost", !.exit = code,
                                    !.ready = @ \cup {IF code = "zero" THEN "ready" ELSE "failed"}]
    <2>1. q \in ProcType /\ OnProc(p, q, TRUE) /\ proc[p].inst = "up"
        BY <1>1, <1>3 DEF OneshotExit, ProcType
    <2>2. q.reg = proc[p].reg /\ q.ran = proc[p].ran /\ q.st = proc[p].st /\ q.exit = code
          /\ q.inst \in {"over", "lost"} /\ ("ready" \in q.ready => "ready" \in proc[p].ready \/ code = "zero")
        BY <1>1 DEF ProcType
    <2>3. everReady' = IF code = "zero" THEN everReady \cup {p} ELSE everReady
        BY <1>3 DEF OneshotExit
    <2> HIDE DEF q
    <2> QED BY <1>1, <1>2, <2>1, <2>2, <2>3, OnProcKeeps
<1>4. ASSUME NEW code \in {"zero", "bad"}, CrashRestarts(p, code) PROVE IInv'
    <2> DEFINE q == [proc[p] EXCEPT !.inst = "backoff", !.exit = code, !.ready = {}]
    <2>1. q \in ProcType /\ OnProc(p, q, FALSE) /\ proc[p].inst = "up"
        BY <1>1, <1>4 DEF CrashRestarts, ProcType
    <2>2. q.reg = proc[p].reg /\ q.ran = proc[p].ran /\ q.st = proc[p].st /\ q.exit = code
          /\ q.inst = "backoff" /\ q.ready = {}
        BY <1>1 DEF ProcType
    <2>3. everReady' = everReady
        BY <1>4 DEF CrashRestarts
    <2> HIDE DEF q
    <2> QED BY <1>1, <1>2, <2>1, <2>2, <2>3, OnProcKeeps
<1>5. ASSUME NEW code \in {"zero", "bad"}, CrashFinal(p, code) PROVE IInv'
    <2> DEFINE q == [proc[p] EXCEPT !.inst = "over", !.exit = code]
    <2>1. q \in ProcType /\ OnProc(p, q, TRUE) /\ proc[p].inst = "up"
        BY <1>1, <1>5 DEF CrashFinal, ProcType
    <2>2. q.reg = proc[p].reg /\ q.ran = proc[p].ran /\ q.st = proc[p].st /\ q.exit = code
          /\ q.inst = "over" /\ q.ready = proc[p].ready
        BY <1>1 DEF ProcType
    <2>3. everReady' = everReady
        BY <1>5 DEF CrashFinal
    <2> HIDE DEF q
    <2> QED BY <1>1, <1>2, <2>1, <2>2, <2>3, OnProcKeeps
<1>6. ASSUME NEW code \in {"zero", "bad"}, NEW told \in BOOLEAN, StoppedExit(p, code, told) PROVE IInv'
    <2> DEFINE q == [proc[p] EXCEPT !.inst = "lost", !.exit = code]
    <2>1. q \in ProcType /\ OnProc(p, q, told) /\ proc[p].inst \in {"up", "stuck"}
        BY <1>1, <1>6 DEF StoppedExit, ProcType
    <2>2. q.reg = proc[p].reg /\ q.ran = proc[p].ran /\ q.st = proc[p].st /\ q.exit = code
          /\ q.inst = "lost" /\ q.ready = proc[p].ready
        BY <1>1 DEF ProcType
    <2>3. everReady' = everReady
        BY <1>6 DEF StoppedExit
    <2> HIDE DEF q
    <2> QED BY <1>1, <1>2, <2>1, <2>2, <2>3, OnProcKeeps
<1>7. ASSUME BackoffOver(p, TRUE) PROVE IInv'
    <2> DEFINE q == [proc[p] EXCEPT !.inst = "up"]
    <2>1. q \in ProcType /\ OnProc(p, q, FALSE) /\ proc[p].inst = "backoff"
        BY <1>1, <1>7 DEF BackoffOver, ProcType
    <2>2. q.reg = proc[p].reg /\ q.ran = proc[p].ran /\ q.st = proc[p].st
          /\ q.inst = "up" /\ q.ready = proc[p].ready
        BY <1>1 DEF ProcType
    <2>3. everReady' = everReady
        BY <1>7 DEF BackoffOver
    <2> HIDE DEF q
    <2> QED BY <1>1, <1>2, <2>1, <2>2, <2>3, OnProcKeeps
<1>8. ASSUME BackoffOver(p, FALSE) PROVE IInv'
    <2> DEFINE q == [proc[p] EXCEPT !.inst = "over", !.ready = @ \cup {"failed"}]
    <2>1. q \in ProcType /\ OnProc(p, q, TRUE) /\ proc[p].inst = "backoff"
        BY <1>1, <1>8 DEF BackoffOver, ProcType
    <2>2. q.reg = proc[p].reg /\ q.ran = proc[p].ran /\ q.st = proc[p].st /\ q.exit = proc[p].exit
          /\ q.inst = "over" /\ ("ready" \in q.ready => "ready" \in proc[p].ready)
        BY <1>1 DEF ProcType
    <2>3. everReady' = everReady
        BY <1>8 DEF BackoffOver
    <2> HIDE DEF q
    <2> QED BY <1>1, <1>2, <2>1, <2>2, <2>3, OnProcKeeps
<1>9. ASSUME Probe(p) PROVE IInv'
    <2> DEFINE q == [proc[p] EXCEPT !.ready = @ \cup {"ready"}]
    <2>1. q \in ProcType /\ OnProc(p, q, FALSE) /\ proc[p].inst = "up"
        BY <1>1, <1>9 DEF Probe, ProcType
    <2>2. q.reg = proc[p].reg /\ q.ran = proc[p].ran /\ q.st = proc[p].st /\ q.exit = proc[p].exit
          /\ q.inst = "up"
        BY <1>1, <2>1 DEF ProcType
    <2>3. everReady' = everReady \cup {p}
        BY <1>9 DEF Probe
    <2> HIDE DEF q
    <2> QED BY <1>1, <1>2, <2>1, <2>2, <2>3, OnProcKeeps
<1> QED BY <1>3, <1>4, <1>5, <1>6, <1>7, <1>8, <1>9 DEF ProcessStep
-----------------------------------------------------------------------------
(* The calls.  What a call that goes on is about does not change.          *)
CallsGoOn ==
    /\ \A c \in Callers : call'[c].step # "idle" => call'[c].p \in Registered
    /\ \A a \in pending' : a[2] \in Registered
    /\ main = "launch" =>
           /\ call'["main"].step # "idle" => call'["main"].p = Head(order)
           /\ call'["main"].step = "started" /\ Instant(Head(order)) => Head(order) \in everReady'

(* A step that leaves processes, order and levels alone and only moves     *)
(* calls on.                                                               *)
LEMMA QuietKeeps ==
    ASSUME IInv, main # "exited", Typed', CallsGoOn,
           UNCHANGED <<cfg, main, order, waiting, proc, level, remaining, errs, everReady, late>>
    PROVE  IInv'
<1>1. Booted /\ Remembered /\ Starting /\ Recorded /\ Stopping
    BY DEF IInv
<1>2. Registered' = Registered
    BY DEF Registered
<1>3. Booted'
    <2>1. main' \in {"next", "wait", "launch"} => Sortable(cfg)
        BY <1>1 DEF Booted
    <2> QED BY <1>1, <1>2, <2>1, BootedKeeps DEF CallsGoOn
<1>4. Starting'
    BY <1>1, <1>2, StartingKeeps DEF CallsGoOn
<1>5. Stopping'
    <2>1. \A r \in Procs \ (level \cup remaining) :
               main \in {"levels", "exiting", "exited"} =>
                   r \in late' \/ (proc'[r].inst \notin {"up", "backoff"} /\ (proc'[r].inst = "stuck" => errs'))
        BY <1>1 DEF Stopping
    <2> QED BY <1>1, <1>2, <2>1, StoppingKeeps
<1>6. Remembered' /\ Recorded' /\ FailureIsReported'
    BY <1>1 DEF Remembered, Recorded, FailureIsReported, Instant
<1> QED BY <1>3, <1>4, <1>5, <1>6 DEF IInv

(* A step of a supervisor on its own entry, with what its new state has to *)
(* satisfy.                                                                *)
LEMMA SupervisorKeeps ==
    ASSUME IInv, main # "exited", CallsGoOn, NEW p \in Procs, NEW q \in ProcType,
           proc' = [proc EXCEPT ![p] = q], proc[p].reg, q.reg,
           UNCHANGED <<cfg, main, order, waiting>>, everReady \subseteq everReady',
           "ready" \in q.ready => p \in everReady',
           q.st = "running" => q.ran,
           q.ran /\ Instant(p) => p \in everReady',
           q.ran /\ q.inst \notin {"up", "stuck"} => q.exit # "none"
    PROVE  /\ proc' \in [Procs -> ProcType] /\ Registered' = Registered
           /\ proc'[p] = q /\ \A r \in Procs : r # p => proc'[r] = proc[r]
           /\ Booted' /\ Remembered' /\ Starting' /\ Recorded' /\ FailureIsReported'
<1>1. Typed /\ Booted /\ Remembered /\ Starting /\ Recorded /\ Stopping
    BY DEF IInv
<1>2. /\ proc' \in [Procs -> ProcType] /\ Registered' = Registered
      /\ proc'[p] = q /\ \A r \in Procs : r # p => proc'[r] = proc[r]
      /\ \A r \in Procs : proc'[r] = proc[r] \/ proc'[r].reg
      /\ Remembered' /\ Recorded'
    BY <1>1, OneSupervisor
<1>3. Booted'
    <2>1. main' \in {"next", "wait", "launch"} => Sortable(cfg)
        BY <1>1 DEF Booted
    <2> QED BY <1>1, <1>2, <2>1, BootedKeeps DEF CallsGoOn
<1>4. Starting'
    BY <1>1, <1>2, StartingKeeps DEF CallsGoOn
<1>5. FailureIsReported'
    BY DEF FailureIsReported
<1> QED BY <1>2, <1>3, <1>4, <1>5

(* startSupervisor's answer reaches the call it is for, or is dropped.     *)
LEMMA AnswerFacts ==
    ASSUME IInv, NEW c \in Callers, NEW p \in Procs, NEW res \in {"started", "refused"},
           call' = Answer(c, p, res), pending' = pending \ {<<c, p>>}, everReady \subseteq everReady',
           res = "started" /\ Instant(p) => p \in everReady'
    PROVE  /\ CallsGoOn /\ call' \in [Callers -> Calls] /\ pending' \subseteq Callers \X Procs
<1>1. call \in [Callers -> Calls] /\ pending \subseteq Callers \X Procs
    BY DEF IInv, Typed, TypeOK, Calls
<1>2. call' \in [Callers -> Calls]
    BY <1>1 DEF Answer, Calls
<1>3. \A d \in Callers : /\ call'[d].p = call[d].p
                         /\ call'[d].step # "idle" => call[d].step # "idle"
                         /\ call'[d].step = "started" =>
                                call[d].step = "started" \/ (call[d] = [step |-> "launching", p |-> p] /\ res = "started")
    BY <1>1 DEF Answer, Calls
<1>4. /\ \A d \in Callers : call[d].step # "idle" => call[d].p \in Registered
      /\ \A a \in pending : a[2] \in Registered
      /\ main = "launch" =>
             /\ call["main"].step # "idle" => call["main"].p = Head(order)
             /\ call["main"].step = "started" /\ Instant(Head(order)) => Head(order) \in everReady
    BY DEF IInv, Booted, Starting
<1>5. "main" \in Callers
    BY DEF Callers
<1>6. ASSUME main = "launch", call'["main"].step = "started", Instant(Head(order)) PROVE Head(order) \in everReady'
    <2>1. CASE call["main"].step = "started"
        BY <1>4, <1>6, <2>1
    <2>2. CASE call["main"] = [step |-> "launching", p |-> p] /\ res = "started"
        BY <1>4, <1>6, <2>2
    <2> QED BY <1>3, <1>5, <1>6, <2>1, <2>2
<1>7. \A d \in Callers : call'[d].step # "idle" => call'[d].p \in Registered
    BY <1>3, <1>4
<1>8. main = "launch" /\ call'["main"].step # "idle" => call'["main"].p = Head(order)
    BY <1>3, <1>4, <1>5
<1> QED BY <1>1, <1>2, <1>4, <1>6, <1>7, <1>8 DEF CallsGoOn

LEMMA SupervisorStartKeeps ==
    ASSUME IInv, main # "exited", NEW c \in Callers, NEW p \in Procs, SupervisorStart(c, p)
    PROVE  IInv'
<1>1. /\ <<c, p>> \in pending /\ pending' = pending \ {<<c, p>>}
      /\ UNCHANGED <<main, order, waiting, cfg, notifying, deaths, scan, allDead, asked, level, remaining,
                     errs, reason, exitCode, calls>>
    BY DEF SupervisorStart, UNCHANGED_Background
<1>2. proc[p] \in ProcType /\ everReady \subseteq Procs /\ late \subseteq Procs /\ cfg \in Setups
    BY DEF IInv, Typed, TypeOK
<1>3. proc[p].reg
    BY <1>1 DEF IInv, Booted, Registered
<1>4. /\ "ready" \in proc[p].ready => p \in everReady
      /\ proc[p].st = "running" => proc[p].ran
      /\ proc[p].ran /\ Instant(p) => p \in everReady
      /\ proc[p].ran /\ proc[p].inst \notin {"up", "stuck"} => proc[p].exit # "none"
    BY DEF IInv, Remembered, Recorded
<1>5. CASE /\ proc[p].st = "running"
           /\ call' = Answer(c, p, "started")
           /\ UNCHANGED <<proc, everReady, late>>
    <2>1. CallsGoOn /\ call' \in [Callers -> Calls] /\ pending' \subseteq Callers \X Procs
        BY <1>1, <1>4, <1>5, AnswerFacts
    <2>2. Typed'
        BY <1>1, <1>5, <2>1 DEF IInv, Typed, TypeOK, Calls
    <2> QED BY <1>1, <1>5, <2>1, <2>2, QuietKeeps
<1>6. ASSUME NEW res \in {"started", "refused"}, call' = Answer(c, p, res), proc' = [proc EXCEPT ![p] = Started(p)],
             everReady' = (IF cfg.kind[p] \in {"service", "liveness"} THEN everReady \cup {p} ELSE everReady),
             late' = (IF main \in {"levels", "exiting"} /\ p \notin level \cup remaining
                     THEN late \cup {p} ELSE late)
      PROVE  IInv'
    <2> DEFINE q == Started(p)
    <2>1. q \in ProcType
        BY <1>2 DEF Started, ProcType
    <2>2. q.reg = proc[p].reg /\ q.st = "running" /\ q.inst = "up" /\ q.ran
          /\ ("ready" \in q.ready => cfg.kind[p] = "service")
        BY <1>2 DEF Started, ProcType
    <2>3. /\ everReady \subseteq everReady' /\ everReady' \subseteq Procs /\ late \subseteq late' /\ late' \subseteq Procs
          /\ Instant(p) => p \in everReady'
          /\ cfg.kind[p] = "service" => p \in everReady'
        BY <1>2, <1>6 DEF Instant
    <2>4. CallsGoOn /\ call' \in [Callers -> Calls] /\ pending' \subseteq Callers \X Procs
        BY <1>1, <1>6, <2>3, AnswerFacts
    <2> HIDE DEF q
    <2>5. proc' = [proc EXCEPT ![p] = q]
        BY <1>6 DEF q
    <2>6. /\ proc' \in [Procs -> ProcType] /\ Registered' = Registered
          /\ proc'[p] = q /\ \A r \in Procs : r # p => proc'[r] = proc[r]
          /\ Booted' /\ Remembered' /\ Starting' /\ Recorded' /\ FailureIsReported'
        BY <1>1, <1>3, <2>1, <2>2, <2>3, <2>4, <2>5, SupervisorKeeps
    <2>7. Typed'
        BY <1>1, <2>3, <2>4, <2>6 DEF IInv, Typed, TypeOK, Calls
    <2>8. Stopping'
        <3>1. \A r \in Procs \ (level \cup remaining) :
                   main \in {"levels", "exiting", "exited"} =>
                       r \in late' \/ (proc'[r].inst \notin {"up", "backoff"} /\ (proc'[r].inst = "stuck" => errs'))
            BY <1>1, <1>6, <2>3, <2>6 DEF IInv, Stopping
        <3> QED BY <1>1, <2>6, <3>1, StoppingKeeps DEF IInv
    <2> QED BY <2>6, <2>7, <2>8 DEF IInv
<1>7. CASE /\ call' = Answer(c, p, "refused")
           /\ proc' = [proc EXCEPT ![p] = Refused(p)]
           /\ UNCHANGED <<everReady, late>>
    <2> DEFINE q == Refused(p)
    <2>1. q \in ProcType
        BY <1>2 DEF Refused, ProcType
    <2>2. q.reg = proc[p].reg /\ q.st = "failed" /\ q.inst = proc[p].inst /\ q.ran = proc[p].ran
          /\ q.ready = {} /\ q.exit = proc[p].exit
        BY <1>2 DEF Refused, ProcType
    <2>4. CallsGoOn /\ call' \in [Callers -> Calls] /\ pending' \subseteq Callers \X Procs
        BY <1>1, <1>7, AnswerFacts
    <2> HIDE DEF q
    <2>5. proc' = [proc EXCEPT ![p] = q]
        BY <1>7 DEF q
    <2>6. /\ proc' \in [Procs -> ProcType] /\ Registered' = Registered
          /\ proc'[p] = q /\ \A r \in Procs : r # p => proc'[r] = proc[r]
          /\ Booted' /\ Remembered' /\ Starting' /\ Recorded' /\ FailureIsReported'
        BY <1>1, <1>3, <1>4, <1>7, <2>1, <2>2, <2>4, <2>5, SupervisorKeeps
    <2>7. Typed'
        BY <1>1, <1>7, <2>4, <2>6 DEF IInv, Typed, TypeOK, Calls
    <2>8. Stopping'
        <3>1. \A r \in Procs \ (level \cup remaining) :
                   main \in {"levels", "exiting", "exited"} =>
                       r \in late' \/ (proc'[r].inst \notin {"up", "backoff"} /\ (proc'[r].inst = "stuck" => errs'))
            BY <1>1, <1>7, <2>2, <2>6 DEF IInv, Stopping
        <3> QED BY <1>1, <2>6, <3>1, StoppingKeeps DEF IInv
    <2> QED BY <2>6, <2>7, <2>8 DEF IInv
<1> QED BY <1>5, <1>6, <1>7 DEF SupervisorStart
LEMMA StopBeginKeeps ==
    ASSUME IInv, main # "exited", NEW c \in Callers, NEW p \in Procs, StopBegin(c, p)
    PROVE  IInv'
<1> DEFINE q == [proc[p] EXCEPT !.busy = c, !.st = "stopping"]
<1>1. /\ WantsStop(c, p) /\ proc' = [proc EXCEPT ![p].busy = c, ![p].st = "stopping"]
      /\ UNCHANGED <<main, order, waiting, call, pending, everReady, late, cfg, notifying, deaths, scan,
                     allDead, asked, level, remaining, errs, reason, exitCode, calls>>
    BY DEF StopBegin, UNCHANGED_Background
<1>2. proc \in [Procs -> ProcType] /\ proc[p] \in ProcType
    BY DEF IInv, Typed, TypeOK
<1>3. proc[p].reg
    BY <1>1 DEF IInv, Booted, Stopping, Registered, WantsStop
<1>4. q \in ProcType
    BY <1>2 DEF ProcType
<1>5. q.reg = proc[p].reg /\ q.st = "stopping" /\ q.inst = proc[p].inst /\ q.ran = proc[p].ran
      /\ q.ready = proc[p].ready /\ q.exit = proc[p].exit
    BY <1>2 DEF ProcType
<1>6. proc' = [proc EXCEPT ![p] = q]
    BY <1>1, <1>2
<1> HIDE DEF q
<1>7. /\ "ready" \in proc[p].ready => p \in everReady
      /\ proc[p].ran /\ Instant(p) => p \in everReady
      /\ proc[p].ran /\ proc[p].inst \notin {"up", "stuck"} => proc[p].exit # "none"
    BY DEF IInv, Remembered, Recorded
<1>8. CallsGoOn
    BY <1>1 DEF IInv, Booted, Starting, CallsGoOn
<1>9. /\ proc' \in [Procs -> ProcType] /\ Registered' = Registered
      /\ proc'[p] = q /\ \A r \in Procs : r # p => proc'[r] = proc[r]
      /\ Booted' /\ Remembered' /\ Starting' /\ Recorded' /\ FailureIsReported'
    BY <1>1, <1>3, <1>4, <1>5, <1>6, <1>7, <1>8, SupervisorKeeps
<1>10. Typed'
    BY <1>1, <1>9 DEF IInv, Typed, TypeOK
<1>11. Stopping'
    <2>1. \A r \in Procs \ (level \cup remaining) :
               main \in {"levels", "exiting", "exited"} =>
                   r \in late' \/ (proc'[r].inst \notin {"up", "backoff"} /\ (proc'[r].inst = "stuck" => errs'))
        BY <1>1, <1>5, <1>9 DEF IInv, Stopping
    <2> QED BY <1>1, <1>9, <2>1, StoppingKeeps DEF IInv
<1> QED BY <1>9, <1>10, <1>11 DEF IInv

(* A call after its Stop goes on for the process it was made for.          *)
LEMMA AfterStopFacts ==
    ASSUME IInv, NEW c \in Callers, NEW ok \in BOOLEAN
    PROVE  /\ AfterStop(c, ok) \in [Callers -> Calls]
           /\ \A d \in Callers : AfterStop(c, ok)[d].step # "idle" =>
                  call[d].step # "idle" /\ AfterStop(c, ok)[d].p = call[d].p
           /\ \A d \in Callers : AfterStop(c, ok)[d].step = "started" => call[d].step = "started"
<1>1. call \in [Callers -> Calls]
    BY DEF IInv, Typed, TypeOK, Calls
<1>2. \/ call[c].step = "undo" /\ AfterStop(c, ok) = [call EXCEPT ![c].step = "refused"]
      \/ call[c].step = "restop" /\ AfterStop(c, ok) = [call EXCEPT ![c].step = "launching"]
      \/ AfterStop(c, ok) = [call EXCEPT ![c] = NoCall]
    BY Zenon DEF AfterStop
<1>3. CASE call[c].step = "undo" /\ AfterStop(c, ok) = [call EXCEPT ![c].step = "refused"]
    BY <1>1, <1>3 DEF Calls
<1>4. CASE call[c].step = "restop" /\ AfterStop(c, ok) = [call EXCEPT ![c].step = "launching"]
    BY <1>1, <1>4 DEF Calls
<1>5. CASE AfterStop(c, ok) = [call EXCEPT ![c] = NoCall]
    BY <1>1, <1>5 DEF Calls, NoCall
<1> QED BY <1>2, <1>3, <1>4, <1>5

LEMMA StopEndKeeps ==
    ASSUME IInv, main # "exited", NEW c \in Callers, NEW p \in Procs, NEW ok \in BOOLEAN, StopEnd(c, p, ok)
    PROVE  IInv'
<1> DEFINE q == IF ok THEN StoppedOK(p) ELSE StoppedBadly(p)
<1>1. /\ proc[p].busy = c /\ (ok \/ Live(p)) /\ proc' = [proc EXCEPT ![p] = q]
      /\ UNCHANGED <<cfg, main, order, waiting, notifying, deaths, scan, allDead, asked,
                     remaining, reason, exitCode, calls, everReady, late>>
    BY DEF StopEnd
<1>2. proc[p] \in ProcType /\ call \in [Callers -> Calls] /\ pending \subseteq Callers \X Procs
      /\ errs \in BOOLEAN /\ level \subseteq Procs
    BY DEF IInv, Typed, TypeOK, Calls
<1>3. proc[p].reg
    BY <1>1 DEF IInv, Booted, Callers
<1>4. q \in ProcType
    BY <1>2 DEF ProcType, StoppedOK, StoppedBadly
<1>5. q.reg = proc[p].reg /\ q.st # "running" /\ q.ran = proc[p].ran /\ q.ready = proc[p].ready
    BY <1>2 DEF ProcType, StoppedOK, StoppedBadly
<1>6. /\ ok => q.inst = "none" /\ q.exit = IF Live(p) THEN "bad" ELSE proc[p].exit
      /\ ~ok => q.inst = "stuck"
    BY <1>2 DEF ProcType, StoppedOK, StoppedBadly
<1> HIDE DEF q
<1>7. /\ "ready" \in proc[p].ready => p \in everReady
      /\ proc[p].ran /\ Instant(p) => p \in everReady
      /\ proc[p].ran /\ proc[p].inst \notin {"up", "stuck"} => proc[p].exit # "none"
    BY DEF IInv, Remembered, Recorded
<1>8. /\ \A d \in Callers : call[d].step # "idle" => call[d].p \in Registered
      /\ \A a \in pending : a[2] \in Registered
      /\ main = "launch" =>
             /\ call["main"].step # "idle" => call["main"].p = Head(order)
             /\ call["main"].step = "started" /\ Instant(Head(order)) => Head(order) \in everReady
    BY DEF IInv, Booted, Starting
<1>9. q.ran /\ q.inst \notin {"up", "stuck"} => q.exit # "none"
    BY <1>5, <1>6, <1>7 DEF Live
<1>10. ASSUME CallsGoOn
       PROVE  /\ proc' \in [Procs -> ProcType] /\ Registered' = Registered
              /\ proc'[p] = q /\ \A r \in Procs : r # p => proc'[r] = proc[r]
              /\ Booted' /\ Remembered' /\ Starting' /\ Recorded' /\ FailureIsReported'
    BY <1>1, <1>3, <1>4, <1>5, <1>7, <1>9, <1>10, SupervisorKeeps
<1>11. CASE c = "main" /\ p \in level
    <2>1. level' = level \ {p} /\ errs' = (errs \/ ~ok) /\ UNCHANGED <<call, pending>>
        BY <1>11 DEF StopEnd
    <2>2. CallsGoOn
        BY <1>1, <1>8, <2>1 DEF CallsGoOn
    <2>3. /\ proc' \in [Procs -> ProcType] /\ Registered' = Registered
          /\ proc'[p] = q /\ \A r \in Procs : r # p => proc'[r] = proc[r]
          /\ Booted' /\ Remembered' /\ Starting' /\ Recorded' /\ FailureIsReported'
        BY <1>10, <2>2
    <2>4. level' \subseteq Procs
        BY <1>2, <2>1
    <2>5. errs' \in BOOLEAN
        BY <2>1
    <2>6. Typed'
        BY <1>1, <2>1, <2>3, <2>4, <2>5 DEF IInv, Typed, TypeOK
    <2>7. Stopping'
        <3>1. errs => errs'
            BY <2>1
        <3>2. ~ok => errs'
            BY <2>1
        <3>3. ASSUME NEW r \in Procs \ (level' \cup remaining'), main' \in {"levels", "exiting", "exited"}
              PROVE  r \in late' \/ (proc'[r].inst \notin {"up", "backoff"} /\ (proc'[r].inst = "stuck" => errs'))
            <4>1. CASE r = p
                BY <1>6, <2>3, <3>2, <4>1
            <4>2. CASE r # p
                BY <1>1, <2>1, <2>3, <3>1, <3>3, <4>2 DEF IInv, Stopping
            <4> QED BY <4>1, <4>2
        <3>4. /\ main' # "levels" => level' = {} /\ remaining' = {}
              /\ level' \cup remaining' \subseteq Registered'
            BY <1>1, <2>1, <2>3 DEF IInv, Stopping
        <3>5. ASSUME NEW r \in level', NEW s \in level' \cup remaining' PROVE r \notin Deps(s)'
            <4>1. Deps(s)' = Deps(s)
                BY <1>1 DEF Deps
            <4> QED BY <1>1, <2>1, <4>1, <3>5 DEF IInv, Stopping
        <3> QED BY <3>3, <3>4, <3>5 DEF Stopping
    <2> QED BY <2>3, <2>6, <2>7 DEF IInv
<1>12. CASE ~(c = "main" /\ p \in level)
    <2>1. /\ call' = AfterStop(c, ok)
          /\ pending' = IF call[c].step = "restop" /\ ok THEN pending \cup {<<c, p>>} ELSE pending
          /\ UNCHANGED <<level, errs>>
        BY <1>12 DEF StopEnd
    <2>2. /\ call' \in [Callers -> Calls]
          /\ \A d \in Callers : call'[d].step # "idle" => call[d].step # "idle" /\ call'[d].p = call[d].p
          /\ \A d \in Callers : call'[d].step = "started" => call[d].step = "started"
        BY <2>1, AfterStopFacts
    <2>3. pending' \subseteq Callers \X Procs /\ \A a \in pending' : a[2] \in Registered
        BY <1>2, <1>3, <1>8, <2>1 DEF Registered
    <2>4. CallsGoOn
        BY <1>1, <1>8, <2>2, <2>3 DEF CallsGoOn, Callers
    <2>5. /\ proc' \in [Procs -> ProcType] /\ Registered' = Registered
          /\ proc'[p] = q /\ \A r \in Procs : r # p => proc'[r] = proc[r]
          /\ Booted' /\ Remembered' /\ Starting' /\ Recorded' /\ FailureIsReported'
        BY <1>10, <2>4
    <2>6. Typed'
        BY <1>1, <2>1, <2>2, <2>3, <2>5 DEF IInv, Typed, TypeOK, Calls
    <2>7. Stopping'
        <3>1. \A r \in Procs \ (level \cup remaining) :
                   main \in {"levels", "exiting", "exited"} =>
                       r \in late' \/ (proc'[r].inst \notin {"up", "backoff"} /\ (proc'[r].inst = "stuck" => errs'))
            BY <1>1, <1>6, <2>1, <2>5 DEF IInv, Stopping, Live
        <3> QED BY <1>1, <2>1, <2>5, <3>1, StoppingKeeps DEF IInv
    <2> QED BY <2>5, <2>6, <2>7 DEF IInv
<1> QED BY <1>11, <1>12

LEMMA CallKeeps ==
    ASSUME IInv, main # "exited", CallStep
    PROVE  IInv'
<1>1. call \in [Callers -> Calls]
    BY DEF IInv, Typed, TypeOK, Calls
<1>2. /\ \A d \in Callers : call[d].step # "idle" => call[d].p \in Registered
      /\ \A a \in pending : a[2] \in Registered
      /\ main = "launch" =>
             /\ call["main"].step # "idle" => call["main"].p = Head(order)
             /\ call["main"].step = "started" /\ Instant(Head(order)) => Head(order) \in everReady
    BY DEF IInv, Booted, Starting
<1>3. ASSUME NEW c \in Callers, startSupervisorGivesUp(c) PROVE IInv'
    <2>1. /\ call[c].step = "launching" /\ call' = [call EXCEPT ![c].step = "undo"]
          /\ UNCHANGED <<main, order, waiting, proc, pending, everReady, late, cfg, notifying, deaths, scan,
                         allDead, asked, level, remaining, errs, reason, exitCode, calls>>
        BY <1>3 DEF startSupervisorGivesUp, UNCHANGED_Background
    <2>2. /\ call' \in [Callers -> Calls]
          /\ \A d \in Callers : call'[d].step # "idle" => call[d].step # "idle" /\ call'[d].p = call[d].p
          /\ \A d \in Callers : call'[d].step = "started" => call[d].step = "started"
        BY <1>1, <2>1 DEF Calls
    <2>3. CallsGoOn
        BY <1>2, <2>1, <2>2 DEF CallsGoOn, Callers
    <2>4. Typed'
        BY <2>1, <2>2 DEF IInv, Typed, TypeOK, Calls
    <2> QED BY <2>1, <2>3, <2>4, QuietKeeps
<1>4. ASSUME ApiReturns PROVE IInv'
    <2>1. /\ call' = [call EXCEPT !["api"] = NoCall]
          /\ UNCHANGED <<main, order, waiting, proc, pending, everReady, late, cfg, notifying, deaths, scan,
                         allDead, asked, level, remaining, errs, reason, exitCode, calls>>
        BY <1>4 DEF ApiReturns, UNCHANGED_Background
    <2>2. /\ call' \in [Callers -> Calls]
          /\ \A d \in Callers : call'[d].step # "idle" => call[d].step # "idle" /\ call'[d].p = call[d].p
          /\ \A d \in Callers : call'[d].step = "started" => call[d].step = "started"
        BY <1>1, <2>1 DEF Calls, NoCall
    <2>3. CallsGoOn
        BY <1>2, <2>1, <2>2 DEF CallsGoOn, Callers
    <2>4. Typed'
        BY <2>1, <2>2 DEF IInv, Typed, TypeOK, Calls
    <2> QED BY <2>1, <2>3, <2>4, QuietKeeps
<1> QED BY <1>3, <1>4, SupervisorStartKeeps, StopBeginKeeps, StopEndKeeps DEF CallStep

LEMMA ApiKeeps ==
    ASSUME IInv, main # "exited", ApiStep
    PROVE  IInv'
<1>1. PICK p \in Procs, step \in {"launching", "stop", "restop"} :
          ApiCall(step, p) /\ (pending' = pending \cup {<<"api", p>>} \/ UNCHANGED pending)
    BY DEF ApiStep, StartProcess, StopProcess, RestartProcess
<1>2. /\ main \in {"running", "exiting"} /\ proc[p].reg /\ calls > 0 /\ calls' = calls - 1
      /\ call' = [call EXCEPT !["api"] = [step |-> step, p |-> p]]
      /\ UNCHANGED <<cfg, main, order, waiting, proc, notifying, deaths, scan, allDead, asked,
                     level, remaining, errs, reason, exitCode, everReady, late>>
    BY <1>1 DEF ApiCall, ApiOpen
<1>3. call \in [Callers -> Calls] /\ pending \subseteq Callers \X Procs /\ calls \in Nat
      /\ (\A d \in Callers : call[d].step # "idle" => call[d].p \in Registered)
      /\ \A a \in pending : a[2] \in Registered
    BY DEF IInv, Typed, TypeOK, Calls, Booted
<1>4. p \in Registered /\ "api" \in Callers
    BY <1>2 DEF Registered, Callers
<1>5. /\ call' \in [Callers -> Calls]
      /\ \A d \in Callers : call'[d].step # "idle" => call'[d].p \in Registered
    BY <1>2, <1>3, <1>4 DEF Calls
<1>6. pending' \subseteq Callers \X Procs /\ \A a \in pending' : a[2] \in Registered
    BY <1>1, <1>3, <1>4
<1>7. CallsGoOn
    BY <1>2, <1>5, <1>6 DEF CallsGoOn
<1>8. calls' \in Nat
    BY <1>2, <1>3
<1>9. Typed'
    BY <1>2, <1>5, <1>6, <1>8 DEF IInv, Typed, TypeOK, Calls
<1> QED BY <1>2, <1>7, <1>9, QuietKeeps
-----------------------------------------------------------------------------
(* The deaths and the signal.                                              *)
LEMMA NotifyKeeps ==
    ASSUME IInv, main # "exited", NEW p \in Procs, Notify(p)
    PROVE  IInv'
<1>1. /\ p \in notifying /\ notifying' = notifying \ {p}
      /\ proc' = IF Gone(p) /\ cfg.kind[p] # "oneshot" THEN [proc EXCEPT ![p] = Dead(p)] ELSE proc
      /\ deaths' = IF Gone(p) /\ deaths < QueueCap THEN deaths + 1 ELSE deaths
      /\ UNCHANGED <<cfg, main, order, waiting, call, pending, scan, allDead, asked, level,
                     remaining, errs, reason, exitCode, calls, everReady, late>>
    BY DEF Notify, Notified
<1>2. deaths' \in 0..QueueCap /\ notifying' \subseteq Procs
    BY <1>1, ManagerAssumption DEF IInv, Typed, TypeOK
<1>3. CallsGoOn
    BY <1>1 DEF IInv, Booted, Starting, CallsGoOn
<1>4. CASE ~(Gone(p) /\ cfg.kind[p] # "oneshot")
    <2>1. Typed'
        BY <1>1, <1>2, <1>4 DEF IInv, Typed, TypeOK
    <2> QED BY <1>1, <1>3, <1>4, <2>1, QuietKeeps
<1>5. CASE Gone(p) /\ cfg.kind[p] # "oneshot"
    <2> DEFINE q == Dead(p)
    <2>1. proc[p] \in ProcType
        BY DEF IInv, Typed, TypeOK
    <2>2. proc[p].reg
        BY <1>5 DEF IInv, Booted, Gone
    <2>3. q \in ProcType
        BY <2>1 DEF ProcType, Dead
    <2>4. q.reg = proc[p].reg /\ (q.st = "running" => proc[p].st = "running") /\ q.inst = proc[p].inst
          /\ q.ran = proc[p].ran /\ ("ready" \in q.ready => "ready" \in proc[p].ready) /\ q.exit = proc[p].exit
        BY <2>1 DEF ProcType, Dead
    <2> HIDE DEF q
    <2>5. /\ "ready" \in proc[p].ready => p \in everReady
          /\ proc[p].st = "running" => proc[p].ran
          /\ proc[p].ran /\ Instant(p) => p \in everReady
          /\ proc[p].ran /\ proc[p].inst \notin {"up", "stuck"} => proc[p].exit # "none"
        BY DEF IInv, Remembered, Recorded
    <2>6. proc' = [proc EXCEPT ![p] = q]
        BY <1>1, <1>5 DEF q
    <2>7. /\ proc' \in [Procs -> ProcType] /\ Registered' = Registered
          /\ proc'[p] = q /\ \A r \in Procs : r # p => proc'[r] = proc[r]
          /\ Booted' /\ Remembered' /\ Starting' /\ Recorded' /\ FailureIsReported'
        BY <1>1, <1>3, <2>2, <2>3, <2>4, <2>5, <2>6, SupervisorKeeps
    <2>8. Typed'
        BY <1>1, <1>2, <2>7 DEF IInv, Typed, TypeOK
    <2>9. Stopping'
        <3>1. \A r \in Procs \ (level \cup remaining) :
                   main \in {"levels", "exiting", "exited"} =>
                       r \in late' \/ (proc'[r].inst \notin {"up", "backoff"} /\ (proc'[r].inst = "stuck" => errs'))
            BY <1>1, <2>4, <2>7 DEF IInv, Stopping
        <3> QED BY <1>1, <2>7, <3>1, StoppingKeeps DEF IInv
    <2> QED BY <2>7, <2>8, <2>9 DEF IInv
<1> QED BY <1>4, <1>5

LEMMA ScanKeeps ==
    ASSUME IInv, main # "exited",
           ScanBegin \/ ScanEnd \/ Signal \/ \E p \in Procs : checkAllProcessesDead(p)
    PROVE  IInv'
<1>1. UNCHANGED <<cfg, main, order, waiting, proc, call, pending, notifying, level, remaining, errs, reason,
                  exitCode, calls, everReady, late>>
    BY DEF ScanBegin, ScanEnd, Signal, checkAllProcessesDead
<1>2. scan \in [on : BOOLEAN, left : SUBSET Procs] /\ deaths \in 0..QueueCap /\ allDead \in BOOLEAN /\ asked \in BOOLEAN
    BY DEF IInv, Typed, TypeOK
<1>3. scan' \in [on : BOOLEAN, left : SUBSET Procs]
    <2>1. CASE ScanBegin
        BY <2>1 DEF ScanBegin, Registered
    <2>2. CASE ScanEnd
        BY <1>2, <2>2 DEF ScanEnd
    <2>3. CASE Signal
        BY <1>2, <2>3 DEF Signal
    <2>4. CASE \E p \in Procs : checkAllProcessesDead(p)
        <3>1. PICK p \in Procs : checkAllProcessesDead(p)
            BY <2>4
        <3>2. [on |-> FALSE, left |-> {}] \in [on : BOOLEAN, left : SUBSET Procs]
            OBVIOUS
        <3>3. [scan EXCEPT !.left = @ \ {p}] \in [on : BOOLEAN, left : SUBSET Procs]
            BY <1>2
        <3> QED BY <3>1, <3>2, <3>3 DEF checkAllProcessesDead
    <2> QED BY <2>1, <2>2, <2>3, <2>4
<1>4. deaths' \in 0..QueueCap
    BY <1>2, ManagerAssumption DEF ScanBegin, ScanEnd, Signal, checkAllProcessesDead
<1>5. allDead' \in BOOLEAN /\ asked' \in BOOLEAN
    BY <1>2 DEF ScanBegin, ScanEnd, Signal, checkAllProcessesDead
<1>6. Typed'
    BY <1>1, <1>3, <1>4, <1>5 DEF IInv, Typed, TypeOK
<1>7. CallsGoOn
    BY <1>1 DEF IInv, Booted, Starting, CallsGoOn
<1> QED BY <1>1, <1>6, <1>7, QuietKeeps
-----------------------------------------------------------------------------
(* Manager.Start.                                                          *)
LEMMA ToSetFacts ==
    ASSUME NEW S, NEW s \in Seq(S)
    PROVE  s # <<>> => ToSet(s) = {Head(s)} \cup ToSet(Tail(s))
<1>1. ASSUME s # <<>> PROVE ToSet(s) = {Head(s)} \cup ToSet(Tail(s))
    <2>1. /\ Len(s) \in Nat /\ Len(s) > 0 /\ DOMAIN s = 1..Len(s) /\ Head(s) = s[1]
          /\ DOMAIN Tail(s) = 1..(Len(s) - 1) /\ \A i \in 1..(Len(s) - 1) : Tail(s)[i] = s[i + 1]
        BY <1>1
    <2>2. ASSUME NEW x \in ToSet(s) PROVE x \in {Head(s)} \cup ToSet(Tail(s))
        <3>1. PICK i \in 1..Len(s) : x = s[i]
            BY <2>1, <2>2 DEF ToSet
        <3>2. CASE i = 1
            BY <2>1, <3>1, <3>2
        <3>3. CASE i # 1
            <4>1. i - 1 \in 1..(Len(s) - 1) /\ (i - 1) + 1 = i
                BY <2>1, <3>3
            <4>2. x = Tail(s)[i - 1]
                BY <2>1, <3>1, <4>1
            <4> QED BY <2>1, <4>1, <4>2 DEF ToSet
        <3> QED BY <3>2, <3>3
    <2>3. ASSUME NEW x \in {Head(s)} \cup ToSet(Tail(s)) PROVE x \in ToSet(s)
        <3>1. CASE x = Head(s)
            <4>1. 1 \in 1..Len(s)
                BY <2>1
            <4> QED BY <2>1, <3>1, <4>1 DEF ToSet
        <3>2. CASE x \in ToSet(Tail(s))
            <4>1. PICK i \in 1..(Len(s) - 1) : x = Tail(s)[i]
                BY <2>1, <3>2 DEF ToSet
            <4>2. i + 1 \in 1..Len(s) /\ x = s[i + 1]
                BY <2>1, <4>1
            <4> QED BY <2>1, <4>2 DEF ToSet
        <3> QED BY <2>3, <3>1, <3>2
    <2> QED BY <2>2, <2>3
<1> QED BY <1>1

(* A dependency that is waited for no longer has been ready.               *)
LEMMA WaitedFor ==
    ASSUME IInv, main = "wait", NEW d \in Registered, ReadinessOK(d)
    PROVE  d \in everReady
<1>1. d \in Procs /\ (Instant(d) => d \in everReady) /\ ("ready" \in proc[d].ready => d \in everReady)
    BY DEF IInv, Starting, Remembered, Registered
<1> QED BY <1>1 DEF ReadinessOK, Instant

LEMMA StartStillKeeps ==
    ASSUME IInv, StartBegin \/ StartNext \/ waitForDependencies \/ registerScheduledProcess
                 \/ StartLaunched \/ StartEnd
    PROVE  IInv'
<1>1. Typed /\ Booted /\ Remembered /\ Starting /\ Recorded /\ Stopping
    BY DEF IInv
<1>2. /\ UNCHANGED <<cfg, proc, pending, everReady, late, level, remaining>>
      /\ main \in {"prestart", "next", "wait", "launch"}
      /\ main' \in {"next", "wait", "abort", "running"}
    BY DEF StartBegin, StartNext, waitForDependencies, registerScheduledProcess, StartLaunched, StartEnd,
        UNCHANGED_Background
<1>3. Typed'
    BY <1>1, TypeStart
<1>4. Registered' = Registered
    BY <1>2 DEF Registered
<1>5. Remembered' /\ Recorded' /\ FailureIsReported'
    BY <1>1, <1>2 DEF Remembered, Recorded, FailureIsReported, Instant
<1>6. Stopping'
    BY <1>1, <1>2, <1>4 DEF Stopping
<1>7. Booted'
    <2>1. main' \in {"next", "wait", "launch"} => Sortable(cfg)
        BY <1>1, <1>2 DEF Booted, Sortable, StartBegin, StartNext, waitForDependencies, registerScheduledProcess,
            StartLaunched, StartEnd
    <2>2. call \in [Callers -> Calls]
        BY <1>1 DEF Typed, TypeOK, Calls
    <2>3. \A c \in Callers : call'[c] = call[c] \/ call'[c] = NoCall
        BY <2>2 DEF StartBegin, StartNext, waitForDependencies, registerScheduledProcess, StartLaunched, StartEnd
    <2>4. \A c \in Callers : call'[c].step # "idle" => call'[c].p \in Registered
        BY <1>1, <2>3 DEF Booted, NoCall
    <2>5. \A a \in pending' : a[2] \in Registered
        BY <1>1, <1>2 DEF Booted
    <2> QED BY <1>1, <1>2, <1>4, <2>1, <2>4, <2>5, BootedKeeps
<1>8. \A r : Instant(r)' <=> Instant(r)
    BY <1>2 DEF Instant
<1>9. ASSUME main' \in {"abort", "running"} PROVE Starting'
    BY <1>9 DEF Starting
<1>10. ASSUME main' = "next", \A r \in Registered : Instant(r) => r \in everReady PROVE Starting'
    BY <1>2, <1>4, <1>8, <1>10 DEF Starting
<1>11. ASSUME StartBegin PROVE Starting'
    BY <1>1, <1>9, <1>10, <1>11 DEF StartBegin, Starting
<1>12. ASSUME StartNext PROVE Starting'
    <2>1. main = "next" /\ main' = "wait" /\ order # <<>> /\ order' = order /\ waiting' = cfg.depends[Head(order)]
        BY <1>12 DEF StartNext
    <2>2. Deps(Head(order))' \subseteq everReady' \cup ToSet(waiting')
        BY <1>2, <2>1 DEF Deps
    <2> QED BY <1>1, <1>2, <1>4, <1>8, <2>1, <2>2 DEF Starting
<1>13. ASSUME waitForDependencies PROVE Starting'
    <2>1. CASE proc[Head(waiting)].reg /\ ReadinessOK(Head(waiting)) /\ waiting' = Tail(waiting) /\ main' = main
        <3>1. main = "wait" /\ waiting # <<>> /\ order' = order /\ waiting \in Seq(Procs)
            BY <1>1, <1>13 DEF waitForDependencies, Typed, TypeOK
        <3>2. Head(waiting) \in Registered
            BY <2>1, <3>1 DEF Registered
        <3>3. Head(waiting) \in everReady
            BY <2>1, <3>1, <3>2, WaitedFor
        <3>4. ToSet(waiting) = {Head(waiting)} \cup ToSet(Tail(waiting))
            BY <3>1, ToSetFacts
        <3>5. Deps(Head(order))' = Deps(Head(order))
            BY <1>2, <3>1 DEF Deps
        <3>6. order' # <<>> /\ Deps(Head(order))' \subseteq everReady' \cup ToSet(waiting')
            BY <1>1, <1>2, <2>1, <3>1, <3>3, <3>4, <3>5 DEF Starting
        <3> QED BY <1>1, <1>2, <1>4, <1>8, <2>1, <3>1, <3>6 DEF Starting
    <2>2. CASE main' = "abort"
        BY <1>9, <2>2
    <2> QED BY <1>13, <2>1, <2>2 DEF waitForDependencies
<1>14. ASSUME registerScheduledProcess PROVE Starting'
    BY <1>1, <1>9, <1>10, <1>14 DEF registerScheduledProcess, Starting
<1>15. ASSUME StartLaunched PROVE Starting'
    <2>1. CASE call["main"].step = "started"
        <3>1. main = "launch" /\ main' = "next"
            BY <1>15, <2>1 DEF StartLaunched
        <3>2. \A r \in Registered : Instant(r) => r \in everReady
            BY <1>1, <2>1, <3>1 DEF Starting
        <3> QED BY <1>10, <3>1, <3>2
    <2>2. CASE call["main"].step # "started"
        BY <1>9, <1>15, <2>2 DEF StartLaunched
    <2> QED BY <2>1, <2>2
<1>16. ASSUME StartEnd PROVE Starting'
    BY <1>9, <1>16 DEF StartEnd
<1>17. Starting'
    BY <1>11, <1>12, <1>13, <1>14, <1>15, <1>16
<1> QED BY <1>3, <1>5, <1>6, <1>7, <1>17 DEF IInv
LEMMA StartRegularKeeps ==
    ASSUME IInv, startRegularProcess
    PROVE  IInv'
<1>1. Typed /\ Booted /\ Remembered /\ Starting /\ Recorded /\ Stopping
    BY DEF IInv
<1>2. PICK p : p = Head(order)
    OBVIOUS
<1>3. /\ main = "wait" /\ waiting = <<>> /\ order # <<>>
      /\ UNCHANGED <<cfg, late, level, remaining>>
      /\ main' \in {"next", "launch"}
    BY <1>1 DEF startRegularProcess, UNCHANGED_Background, Starting
<1>4. order \in Seq(cfg.enabled) /\ cfg \in Setups /\ proc \in [Procs -> ProcType]
      /\ call \in [Callers -> Calls] /\ cfg.enabled \subseteq Procs
    BY <1>1, SetupFacts DEF Typed, TypeOK, Calls
<1>5. p \in cfg.enabled /\ p \in Procs /\ proc[p] \in ProcType
    BY <1>2, <1>3, <1>4
<1>6. Deps(p) \subseteq everReady
    <2>1. ToSet(waiting) = {}
        BY <1>3 DEF ToSet
    <2> QED BY <1>1, <1>2, <1>3, <2>1 DEF Starting
<1>7. Typed'
    BY <1>1, TypeStart
<1>8. PICK q \in ProcType :
          /\ proc' = [proc EXCEPT ![p] = q] /\ q.reg /\ q.st = proc[p].st /\ q.inst = proc[p].inst
          /\ q.ran = proc[p].ran /\ q.exit = proc[p].exit
          /\ "ready" \in q.ready => "ready" \in proc[p].ready \/ p \in everReady'
    <2>1. CASE p \in cfg.idle
        <3> DEFINE q == [proc[p] EXCEPT !.reg = TRUE, !.ready = @ \cup {"ready"}]
        <3>1. proc' = [proc EXCEPT ![p] = q]
            BY <1>2, <1>4, <1>5, <2>1 DEF startRegularProcess
        <3>2. q \in ProcType /\ q.reg /\ q.st = proc[p].st /\ q.inst = proc[p].inst /\ q.ran = proc[p].ran
              /\ q.exit = proc[p].exit
            BY <1>5 DEF ProcType
        <3>3. p \in everReady'
            BY <1>2, <2>1 DEF startRegularProcess
        <3> QED BY <3>1, <3>2, <3>3
    <2>2. CASE p \notin cfg.idle
        <3> DEFINE q == [proc[p] EXCEPT !.reg = TRUE]
        <3>1. proc' = [proc EXCEPT ![p] = q]
            BY <1>2, <1>4, <1>5, <2>2 DEF startRegularProcess
        <3>2. q \in ProcType /\ q.reg /\ q.st = proc[p].st /\ q.inst = proc[p].inst /\ q.ran = proc[p].ran
              /\ q.exit = proc[p].exit /\ q.ready = proc[p].ready
            BY <1>5 DEF ProcType
        <3> QED BY <3>1, <3>2
    <2> QED BY <2>1, <2>2
<1>9. everReady \subseteq everReady'
    BY DEF startRegularProcess
<1>10. proc'[p] = q /\ \A r \in Procs : r # p => proc'[r] = proc[r]
    BY <1>4, <1>5, <1>8
<1>11. Registered' = Registered \cup {p}
    BY <1>5, <1>8, <1>10 DEF Registered
<1>12. \A r : (Instant(r)' <=> Instant(r)) /\ Deps(r)' = Deps(r)
    BY <1>3 DEF Instant, Deps
<1>13. Remembered' /\ Recorded' /\ FailureIsReported'
    <2>1. Remembered'
        BY <1>1, <1>5, <1>8, <1>9, <1>10, <1>12 DEF Remembered
    <2>2. Recorded'
        BY <1>1, <1>8, <1>10 DEF Recorded
    <2> QED BY <1>3, <2>1, <2>2 DEF FailureIsReported
<1>14. Stopping'
    BY <1>1, <1>3, <1>11 DEF Stopping
<1>15. Booted'
    <2>1. Sortable(cfg)'
        BY <1>1, <1>3 DEF Booted, Sortable
    <2>2. \A r \in Procs :
              /\ proc'[r].reg => r \in cfg'.enabled /\ Deps(r)' \subseteq everReady'
              /\ ~proc'[r].reg => proc'[r].inst = "none" /\ ~proc'[r].ran /\ proc'[r].busy = "free"
        <3> SUFFICES ASSUME NEW r \in Procs
                     PROVE  /\ proc'[r].reg => r \in cfg'.enabled /\ Deps(r)' \subseteq everReady'
                            /\ ~proc'[r].reg => proc'[r].inst = "none" /\ ~proc'[r].ran /\ proc'[r].busy = "free"
            OBVIOUS
        <3>1. CASE r = p
            BY <1>3, <1>5, <1>6, <1>8, <1>9, <1>10, <1>12, <3>1
        <3>2. CASE r # p
            BY <1>1, <1>3, <1>9, <1>10, <1>12, <3>2 DEF Booted
        <3> QED BY <3>1, <3>2
    <2>3. \A c \in Callers : call'[c].step # "idle" => call'[c].p \in Registered'
        <3>1. CASE call' = call
            BY <1>1, <1>11, <3>1 DEF Booted
        <3>2. CASE call' = [call EXCEPT !["main"] = [step |-> "launching", p |-> p]]
            BY <1>1, <1>4, <1>11, <3>2 DEF Booted
        <3> QED BY <1>2, <3>1, <3>2 DEF startRegularProcess
    <2>4. \A a \in pending' : a[2] \in Registered'
        <3>1. pending' = pending \/ pending' = pending \cup {<<"main", p>>}
            BY <1>2 DEF startRegularProcess
        <3> QED BY <1>1, <1>11, <3>1 DEF Booted
    <2> QED BY <2>1, <2>2, <2>3, <2>4 DEF Booted
<1>16. Starting'
    <2>1. CASE p \in cfg.idle
        <3>1. main' = "next" /\ p \in everReady'
            BY <1>2, <2>1 DEF startRegularProcess
        <3> QED BY <1>1, <1>3, <1>9, <1>11, <1>12, <3>1 DEF Starting
    <2>2. CASE p \notin cfg.idle
        <3>1. main' = "launch" /\ call' = [call EXCEPT !["main"] = [step |-> "launching", p |-> p]] /\ order' = order
            BY <1>2, <2>2 DEF startRegularProcess
        <3>2. call'["main"] = [step |-> "launching", p |-> p]
            BY <1>4, <3>1 DEF Callers
        <3>3. call'["main"].p = p /\ call'["main"].step = "launching"
            BY <3>2
        <3>4. \A r \in Registered' : Instant(r)' /\ r # Head(order') => r \in everReady'
            BY <1>1, <1>2, <1>3, <1>9, <1>11, <1>12, <3>1 DEF Starting
        <3> QED BY <1>2, <1>3, <3>1, <3>3, <3>4 DEF Starting
    <2> QED BY <2>1, <2>2
<1> QED BY <1>7, <1>13, <1>14, <1>15, <1>16 DEF IInv

-----------------------------------------------------------------------------
(* Manager.Shutdown.                                                       *)
LEMMA EnterShutdownKeeps ==
    ASSUME IInv, NEW why \in {"signal", "dead", "interrupted", "error"}, EnterShutdown(why),
           main \notin {"levels", "exiting", "exited"}
    PROVE  IInv'
<1>1. Typed /\ Booted /\ Remembered /\ Starting /\ Recorded /\ Stopping
    BY DEF IInv
<1>2. /\ main' = "levels" /\ remaining' = ShutdownOrder \cap Registered /\ reason' = why
      /\ UNCHANGED <<cfg, order, waiting, proc, call, pending, notifying, deaths, scan, allDead,
                     asked, level, errs, exitCode, calls, everReady, late>>
    BY DEF EnterShutdown
<1>3. Registered \subseteq cfg.enabled /\ Registered \subseteq Procs /\ cfg \in Setups
    BY <1>1 DEF Booted, Typed, TypeOK, Registered
<1>4. remaining' = Registered
    <2>1. CASE Registered = {}
        BY <1>2, <2>1
    <2>2. CASE Registered # {}
        <3>1. ShutdownOrder = cfg.enabled
            BY <1>1, <1>3, <2>2, SetupFacts DEF Booted, Sortable, ShutdownOrder
        <3> QED BY <1>2, <1>3, <3>1
    <2> QED BY <2>1, <2>2
<1>5. Registered' = Registered
    BY <1>2 DEF Registered
<1>6. level = {}
    BY <1>1 DEF Stopping
<1>7. Typed'
    BY <1>1, <1>2, <1>3, <1>4 DEF Typed, TypeOK, Mains
<1>8. Booted'
    <2>1. \A c \in Callers : call'[c].step # "idle" => call'[c].p \in Registered
        BY <1>1, <1>2 DEF Booted
    <2>2. \A a \in pending' : a[2] \in Registered
        BY <1>1, <1>2 DEF Booted
    <2> QED BY <1>1, <1>2, <1>5, <2>1, <2>2, BootedKeeps
<1>9. Remembered' /\ Recorded' /\ Starting' /\ FailureIsReported'
    BY <1>1, <1>2 DEF Remembered, Recorded, Starting, FailureIsReported, Instant
<1>10. Stopping'
    <2>1. \A p \in Procs \ remaining' : proc'[p].inst = "none"
        BY <1>1, <1>2, <1>4 DEF Booted, Registered
    <2> QED BY <1>2, <1>4, <1>5, <1>6, <2>1 DEF Stopping
<1> QED BY <1>7, <1>8, <1>9, <1>10 DEF IInv

LEMMA ShutdownLevelKeeps ==
    ASSUME IInv, ShutdownLevel
    PROVE  IInv'
<1>1. Typed /\ Booted /\ Remembered /\ Starting /\ Recorded /\ Stopping
    BY DEF IInv
<1> DEFINE free == {p \in remaining : ~Blocked(p)}
<1>2. /\ main = "levels" /\ level = {} /\ remaining # {}
      /\ level' = (IF free = {} THEN remaining ELSE free)
      /\ remaining' = remaining \ level'
      /\ UNCHANGED <<cfg, main, order, waiting, proc, call, pending, notifying, deaths, scan,
                     allDead, asked, errs, reason, exitCode, calls, everReady, late>>
    BY DEF ShutdownLevel
<1>3. /\ remaining \subseteq Registered /\ Registered \subseteq cfg.enabled /\ Registered \subseteq Procs
      /\ cfg \in Setups /\ Registered # {}
    BY <1>1, <1>2 DEF Booted, Typed, TypeOK, Registered, Stopping
<1>4. Sortable(cfg)
    BY <1>1, <1>3 DEF Booted
<1>5. \A p, q \in cfg.enabled : p \in Deps(q) => p \in NewGraph(cfg)[q]
    BY <1>3, SetupFacts DEF Deps
<1>6. free # {}
    <2>1. /\ IsFiniteSet(Nodes(NewGraph(cfg))) /\ Nodes(NewGraph(cfg)) \subseteq Nat
          /\ Nodes(NewGraph(cfg)) = cfg.enabled
        BY <1>3, SetupFacts
    <2>2. PICK p \in remaining : \A q \in remaining : p \notin NewGraph(cfg)[q]
        BY <1>2, <1>3, <1>4, <2>1, SomeIsFree DEF Sortable
    <2>3. ~Blocked(p)
        BY <1>3, <1>5, <2>2 DEF Blocked
    <2> QED BY <2>2, <2>3
<1>7. level' = free
    BY <1>2, <1>6
<1>8. level' \cup remaining' = remaining
    BY <1>2, <1>7
<1>9. \A p \in level', q \in remaining : p \notin Deps(q)
    <2> SUFFICES ASSUME NEW p \in level', NEW q \in remaining PROVE p \notin Deps(q)
        OBVIOUS
    <2>1. CASE p = q
        BY <1>3, <1>4, <2>1, NoSelfDependency DEF Deps
    <2>2. CASE p # q
        BY <1>7, <2>2 DEF Blocked
    <2> QED BY <2>1, <2>2
<1> HIDE DEF free
<1>10. Registered' = Registered
    BY <1>2 DEF Registered
<1>11. Typed'
    BY <1>1, <1>2, <1>3, <1>8 DEF Typed, TypeOK
<1>12. Booted'
    <2>1. \A c \in Callers : call'[c].step # "idle" => call'[c].p \in Registered
        BY <1>1, <1>2 DEF Booted
    <2>2. \A a \in pending' : a[2] \in Registered
        BY <1>1, <1>2 DEF Booted
    <2> QED BY <1>1, <1>2, <1>10, <2>1, <2>2, BootedKeeps
<1>13. Remembered' /\ Recorded' /\ Starting' /\ FailureIsReported'
    BY <1>1, <1>2 DEF Remembered, Recorded, Starting, FailureIsReported, Instant
<1>14. Stopping'
    <2>1. \A p \in Procs \ (level' \cup remaining') :
              p \in late' \/ (proc'[p].inst \notin {"up", "backoff"} /\ (proc'[p].inst = "stuck" => errs'))
        BY <1>1, <1>2, <1>8 DEF Stopping
    <2>2. \A p \in level', q \in level' \cup remaining' : p \notin Deps(q)'
        BY <1>2, <1>8, <1>9 DEF Deps
    <2> QED BY <1>2, <1>3, <1>8, <1>10, <2>1, <2>2 DEF Stopping
<1> QED BY <1>11, <1>12, <1>13, <1>14 DEF IInv

(* PID 1 does not exit with 0 over a failure it has seen.                  *)
LEMMA ExitKeeps ==
    ASSUME IInv, ShutdownEnd \/ Exit
    PROVE  IInv'
<1>1. Typed /\ Booted /\ Remembered /\ Starting /\ Recorded /\ Stopping
    BY DEF IInv
<1>2. /\ main \in {"levels", "exiting"} /\ main' \in {"exiting", "exited"}
      /\ UNCHANGED <<cfg, order, waiting, proc, call, pending, notifying, deaths, scan, allDead,
                     asked, level, remaining, errs, reason, calls, everReady, late>>
    BY DEF ShutdownEnd, Exit
<1>3. level = {} /\ remaining = {}
    BY <1>1 DEF ShutdownEnd, Exit, Stopping
<1>4. Exit => \/ exitCode' = 1
              \/ exitCode' = 0 /\ reason \in {"interrupted", "signal"}
              \/ exitCode' = TerminalExitCode /\ ~errs
    BY Zenon DEF Exit
<1>5. TerminalExitCode \in {0, 1}
    BY DEF TerminalExitCode
<1>6. exitCode' \in -1..1
    BY <1>1, <1>4, <1>5 DEF ShutdownEnd, Typed, TypeOK
<1>7. Typed'
    BY <1>1, <1>2, <1>6 DEF Typed, TypeOK, Mains
<1>8. Registered' = Registered
    BY <1>2 DEF Registered
<1>9. Booted'
    <2>1. \A c \in Callers : call'[c].step # "idle" => call'[c].p \in Registered
        BY <1>1, <1>2 DEF Booted
    <2>2. \A a \in pending' : a[2] \in Registered
        BY <1>1, <1>2 DEF Booted
    <2> QED BY <1>1, <1>2, <1>8, <2>1, <2>2, BootedKeeps
<1>10. Remembered' /\ Recorded' /\ Starting'
    BY <1>1, <1>2 DEF Remembered, Recorded, Starting, Instant
<1>11. Stopping'
    BY <1>1, <1>2, <1>3, <1>8 DEF Stopping
<1>12. FailureIsReported'
    <2> SUFFICES ASSUME main' = "exited", reason = "dead", exitCode' = 0,
                        NEW p \in Procs \ late, proc[p].ran
                 PROVE  cfg.kind[p] = "oneshot" /\ proc[p].exit # "bad"
        BY <1>2 DEF FailureIsReported
    <2>1. Exit
        BY DEF ShutdownEnd
    <2>2. TerminalExitCode = 0 /\ ~errs
        BY <1>4, <2>1
    <2>3. p \in Registered
        BY <1>1 DEF Booted, Registered
    <2>4. proc[p].inst \notin {"up", "backoff", "stuck"}
        BY <1>1, <1>2, <1>3, <2>2 DEF Stopping
    <2>5. proc[p].exit \in {"zero", "bad"}
        BY <1>1, <2>4 DEF Recorded, Typed, TypeOK, ProcType
    <2>6. ~(\E r \in Registered : proc[r].exit = "bad" \/ (proc[r].exit = "zero" /\ cfg.kind[r] # "oneshot"))
        BY <2>2 DEF TerminalExitCode
    <2> QED BY <2>3, <2>5, <2>6
<1> QED BY <1>7, <1>9, <1>10, <1>11, <1>12 DEF IInv
-----------------------------------------------------------------------------
(* IInv is an invariant.                                                   *)
LEMMA InitIInv == Init => IInv
<1> SUFFICES ASSUME Init PROVE IInv
    OBVIOUS
<1>1. cfg \in Setups /\ cfg.calls \in Nat
    BY SetupFacts DEF Init
<1>2. \A p \in Procs : proc[p] = Absent
    BY DEF Init
<1>3. Registered = {}
    BY <1>2 DEF Registered, Absent
<1>4. \A c \in Callers : call[c] = NoCall
    BY DEF Init
<1>5. Typed
    <2>1. Absent \in ProcType
        BY DEF Absent, ProcType, Callers
    <2>2. NoCall \in Calls
        BY DEF NoCall, Calls
    <2>3. proc \in [Procs -> ProcType] /\ call \in [Callers -> Calls]
        BY <2>1, <2>2 DEF Init
    <2>4. order = <<>> /\ waiting = <<>> /\ <<>> \in Seq(Procs) /\ <<>> \in Seq(cfg.enabled)
        BY DEF Init
    <2>5. 0 \in 0..QueueCap
        BY ManagerAssumption
    <2>6. scan \in [on : BOOLEAN, left : SUBSET Procs] /\ exitCode \in -1..1
        BY DEF Init
    <2>7. call \in [Callers -> [step : {"idle", "launching", "started", "refused", "undo", "stop", "restop"},
                                p : Procs \cup {0}]]
        BY <2>3 DEF Calls
    <2>8. /\ main \in Mains /\ pending \subseteq Callers \X Procs /\ notifying \subseteq Procs
          /\ level \subseteq Procs /\ remaining \subseteq Procs /\ everReady \subseteq Procs /\ late \subseteq Procs
          /\ reason \in {"none", "signal", "dead", "interrupted", "error"}
        BY DEF Init, Mains
    <2>9. allDead \in BOOLEAN /\ asked \in BOOLEAN /\ errs \in BOOLEAN /\ deaths \in 0..QueueCap /\ calls \in Nat
        BY <1>1, <2>5 DEF Init
    <2> QED BY <1>1, <2>3, <2>4, <2>6, <2>7, <2>8, <2>9 DEF Typed, TypeOK
<1>6. Booted
    BY <1>2, <1>3, <1>4 DEF Init, Booted, Absent, NoCall
<1>7. Remembered /\ Recorded
    BY <1>2 DEF Remembered, Recorded, Absent
<1>8. Starting /\ Stopping /\ FailureIsReported
    BY <1>3 DEF Init, Starting, Stopping, FailureIsReported
<1> QED BY <1>5, <1>6, <1>7, <1>8 DEF IInv

LEMMA MainKeeps ==
    ASSUME IInv, main # "exited", MainStep
    PROVE  IInv'
<1>1. CASE ShutdownOnSignal
    BY <1>1, EnterShutdownKeeps DEF ShutdownOnSignal
<1>2. CASE ShutdownOnDeath
    BY <1>2, EnterShutdownKeeps DEF ShutdownOnDeath
<1>3. CASE ShutdownStarted
    BY <1>3, EnterShutdownKeeps DEF ShutdownStarted
<1>4. CASE ShutdownOnError
    BY <1>4, EnterShutdownKeeps DEF ShutdownOnError
<1> QED BY <1>1, <1>2, <1>3, <1>4, StartStillKeeps, StartRegularKeeps, ShutdownLevelKeeps, ExitKeeps DEF MainStep

(* One case per group of actions; after the exit nothing happens.          *)
LEMMA Inductive == IInv /\ [Next]_vars => IInv'
<1> SUFFICES ASSUME IInv, [Next]_vars PROVE IInv'
    OBVIOUS
<1>1. CASE main # "exited" /\ MainStep
    BY <1>1, MainKeeps
<1>2. CASE main # "exited" /\ CallStep
    BY <1>2, CallKeeps
<1>3. CASE main # "exited" /\ DeathStep
    BY <1>3, ScanKeeps, NotifyKeeps DEF DeathStep
<1>4. CASE main # "exited" /\ (Signal \/ ApiStep \/ \E p \in Procs : ProcessStep(p))
    BY <1>4, ScanKeeps, ApiKeeps, ProcessKeeps
<1>5. CASE UNCHANGED vars
    BY <1>5 DEF IInv, vars, Typed, TypeOK, Booted, Remembered, Starting, Recorded, Stopping, FailureIsReported,
        Registered, Instant, Deps, Sortable
<1> QED BY <1>1, <1>2, <1>3, <1>4, <1>5 DEF Next

(* Whatever startup, the API, the processes and the death scan do, the     *)
(* manager's bookkeeping stays consistent: IInv is an invariant.           *)
THEOREM Invariance == Spec => []IInv
<1>1. Init => IInv
    BY InitIInv
<1>2. IInv /\ [Next]_vars => IInv'
    BY Inductive
<1> QED BY <1>1, <1>2, PTL DEF Spec

(* Manager.Start: a process is first started only after each process it    *)
(* depends on has been ready.                                              *)
THEOREM DependenciesReady == Spec => []StartsAfterDependencies
<1>1. IInv => StartsAfterDependencies
    BY DEF IInv, Booted, StartsAfterDependencies
<1> QED BY <1>1, Invariance, PTL

(* Manager.Shutdown: while it is stopping a process, nothing that depends  *)
(* on it runs, unless it refused to stop or was started behind its back.   *)
THEOREM DependentsFirst == Spec => []DependentsStopFirst
<1>1. IInv => DependentsStopFirst
    <2> SUFFICES ASSUME IInv, main = "levels", NEW p \in level, NEW q \in Registered, p \in Deps(q)
                 PROVE  proc[q].inst \notin {"up", "backoff"} \/ q \in late
        BY DEF DependentsStopFirst
    <2>1. q \in Procs \ (level \cup remaining)
        BY DEF IInv, Stopping, Registered
    <2> QED BY <2>1 DEF IInv, Stopping
<1> QED BY <1>1, Invariance, PTL

(* However PID 1 comes to exit, no process is left running behind it but   *)
(* one that refused to stop or was started too late, and exit code 0 does  *)
(* not hide a failure.                                                     *)
THEOREM ExitRight == Spec => []ExitIsRight
<1>1. IInv => ExitIsRight
    BY DEF IInv, Stopping, ExitIsRight, ShutdownComplete
<1> QED BY <1>1, Invariance, PTL
=============================================================================
