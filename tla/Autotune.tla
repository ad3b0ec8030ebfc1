------------------------------ MODULE Autotune ------------------------------
(***************************************************************************)
(* The sizing a boot does before anything is started: the limits of the    *)
(* container (internal/autotune/resources.go), the PHP-FPM pool for a      *)
(* profile (profiles.go, calculator.go), the settings of a database engine *)
(* (engine.go), and runAutoTuning and runEngineAutoTuning of serve.go.     *)
(*                                                                         *)
(* A container is started again and again; between two boots its limits    *)
(* may change, and the file of engine settings stays on its disk.  Ratios  *)
(* and thresholds are percentages.                                         *)
(***************************************************************************)
EXTENDS Integers, FiniteSetsExt

CONSTANTS
    Containers,  \* what /sys and /proc say: v2 and v1 (present, memory in KB,
                 \* quota, period), memory (of the host, KB), cpus (of the host);
                 \* a memory of 0 stands for "max" and for what is no number
    Asks,        \* what is asked for: profile, flag, env, global (thresholds),
                 \* strict, engine, wake
    Registered,  \* profiles of other consumers of the package
    Resized(_),  \* the containers explored after one
    MaxBoots     \* bound: boots

(* The integers are what the files, the flags and the environment hold.  A *)
(* profile wants at least one worker, and no share of more than the pool.  *)
Group         == [present : BOOLEAN, memory : Int, quota : Int, period : Int]
ContainerType == [v2 : Group, v1 : Group, memory : Nat, cpus : Nat]
ProfileConfig == [pm : {"static", "dynamic", "ondemand"}, worker : Int, opcache : Int, least : Nat \ {0},
                  most : Int, spareMin : 0..100, spareMax : 0..100, start : 0..100, usage : Int, reserved : Int]

ASSUME AutotuneAssumption ==
    /\ Containers \subseteq ContainerType
    /\ Asks \subseteq [profile : STRING, flag : Int, env : Int, global : Int, strict : BOOLEAN,
                      engine : STRING, wake : STRING]
    /\ \A name \in DOMAIN Registered : Registered[name] \in ProfileConfig
    /\ MaxBoots \in Nat

VARIABLES
    container, ask,
    stage,       \* "boot", "engine", "up", "unfit" (the pool was refused),
                 \* "refused" (the engine was), "unwritten" (the file was not)
    pool,        \* <<>> or the pool of this boot, and whether it is over-committed
    fragment,    \* <<>> or the settings on disk
    last,        \* history: <<>> or the memory, CPUs and pool of the boot before
    boots

vars == <<container, ask, stage, pool, fragment, last, boots>>

----------------------------------------------------------------------------
(* The product of an integer and a float64 that stands for a decimal       *)
(* fraction: when the exact product is an integer and the fraction is not  *)
(* a binary one, the machine's may fall on either side of it.              *)

Inexact(n, percent) == n > 0 /\ (n * percent) % 100 = 0 /\ percent % 25 # 0
Truncated(n, percent) ==
    LET q == (n * percent) \div 100 IN IF Inexact(n, percent) THEN {q - 1, q} ELSE {q}
Ceiled(n, percent) ==
    LET q == (n * percent + 99) \div 100 IN IF Inexact(n, percent) THEN {q, q + 1} ELSE {q}

----------------------------------------------------------------------------
(* DetectContainerResources.                                               *)

Unlimited == 2^30   \* 1 << 50 bytes, scaled to the integers of TLC

parseCgroupMemory(r, cg) ==
    IF cg.memory > 0 /\ cg.memory < Unlimited THEN [r EXCEPT !.kb = cg.memory] ELSE r
RoundedUp(cg) == (cg.quota + cg.period - 1) \div cg.period
parseCgroupV2CPU(r, cg) ==
    IF cg.period > 0 /\ RoundedUp(cg) > 0 THEN [r EXCEPT !.cpus = RoundedUp(cg)] ELSE r
parseCgroupV1CPU(r, cg) ==
    IF cg.quota > 0 /\ cg.period > 0 THEN [r EXCEPT !.cpus = RoundedUp(cg)] ELSE r

detectCgroupV2Resources(r, c) ==
    IF c.v2.present THEN parseCgroupV2CPU(parseCgroupMemory(r, c.v2), c.v2) ELSE r
detectCgroupV1Resources(r, c) ==
    IF c.v1.present THEN parseCgroupV1CPU(parseCgroupMemory(r, c.v1), c.v1) ELSE r
getHostMemory(c) == c.memory

(* Without a memory limit in one hierarchy the next is asked; what the     *)
(* first said of the CPUs is kept.                                         *)
DetectContainerResources(c) ==
    LET two == detectCgroupV2Resources([kb |-> 0, cpus |-> c.cpus], c)
        one == IF two.kb = 0 THEN detectCgroupV1Resources(two, c) ELSE two
    IN  [limit |-> (IF one.kb > 0 THEN one.kb ELSE getHostMemory(c)) \div 1024,
         cpus  |-> one.cpus,
         isContainerized |-> one.kb > 0]

----------------------------------------------------------------------------
(* PHP-FPM.                                                                *)

Profiles ==
    [dev    |-> [pm |-> "static",  worker |-> 32, opcache |-> 64,  least |-> 2, most |-> 2,
                 spareMin |-> 0,  spareMax |-> 0,  start |-> 100, usage |-> 50, reserved |-> 64],
     light  |-> [pm |-> "dynamic", worker |-> 36, opcache |-> 96,  least |-> 2, most |-> 0,
                 spareMin |-> 25, spareMax |-> 50, start |-> 25,  usage |-> 70, reserved |-> 128],
     medium |-> [pm |-> "dynamic", worker |-> 42, opcache |-> 128, least |-> 4, most |-> 0,
                 spareMin |-> 25, spareMax |-> 50, start |-> 33,  usage |-> 75, reserved |-> 192],
     heavy  |-> [pm |-> "dynamic", worker |-> 52, opcache |-> 256, least |-> 8, most |-> 0,
                 spareMin |-> 20, spareMax |-> 40, start |-> 50,  usage |-> 80, reserved |-> 384],
     bursty |-> [pm |-> "dynamic", worker |-> 44, opcache |-> 128, least |-> 4, most |-> 0,
                 spareMin |-> 40, spareMax |-> 75, start |-> 50,  usage |-> 75, reserved |-> 192]]

Config(name) == IF name \in DOMAIN Profiles THEN Profiles[name] ELSE Registered[name]

(* GetConfig: the sizing divides by the memory of a worker.                *)
GetConfig(name) ==
    /\ name \in DOMAIN Profiles \cup DOMAIN Registered
    /\ Config(name).worker > 0 /\ Config(name).usage > 0

overhead(p) == p.reserved + p.opcache

(* The flag, then the environment, then the global setting; what is not    *)
(* positive leaves the profile's own.                                      *)
Threshold(a, p) ==
    LET asked == IF a.flag # 0 THEN a.flag ELSE IF a.env # 0 THEN a.env ELSE a.global
    IN  IF asked > 0 THEN asked ELSE p.usage

smallestBootableLimit(p) == p.least * p.worker + overhead(p)

(* What the thresholded memory, the CPUs and the profile suggest ...       *)
Desired(cpus, soft, p) ==
    LET fits   == IF soft > overhead(p) THEN (soft - overhead(p)) \div p.worker ELSE 0
        cpuCap == (cpus * 5) \div 2
        capped == IF cpuCap > 1 /\ fits > cpuCap THEN cpuCap ELSE fits
    IN  Max({IF p.most > 0 /\ capped > p.most THEN p.most ELSE capped, p.least})

(* ... and what the real limit holds.                                      *)
hardMax(limit, p) == IF limit > overhead(p) THEN (limit - overhead(p)) \div p.worker ELSE 0

sizeWorkersSoft(limit, cpus, soft, p, strict) ==   \* a mutant: no hard ceiling
    [ok |-> TRUE, children |-> Max({1, Desired(cpus, soft, p)}), overcommitted |-> FALSE]
sizeWorkersStrict(limit, cpus, soft, p, strict) ==   \* a mutant: a misfit is always an error
    LET desired == Desired(cpus, soft, p)
    IN  [ok |-> desired <= hardMax(limit, p), children |-> Max({1, desired}), overcommitted |-> FALSE]
sizeWorkersGivesUp(limit, cpus, soft, p, strict) ==   \* a mutant: one worker on any misfit
    LET desired == Desired(cpus, soft, p)
    IN  [ok |-> desired <= hardMax(limit, p) \/ ~strict,
         children |-> IF desired <= hardMax(limit, p) THEN Max({1, desired}) ELSE 1,
         overcommitted |-> hardMax(limit, p) = 0]

sizeWorkers(limit, cpus, soft, p, strict) ==
    LET desired == Desired(cpus, soft, p)
    IN  [ok |-> desired <= hardMax(limit, p) \/ ~strict,
         children |-> Max({1, Min({desired, hardMax(limit, p)})}),
         overcommitted |-> desired > hardMax(limit, p) /\ hardMax(limit, p) = 0]

(* The spare servers of a dynamic pool; a static one starts all.           *)
Pool(pm, n, start, least, most) ==
    IF pm = "dynamic"
    THEN [pm |-> pm, children |-> n, min |-> Max({least, 1}), start |-> Max({start, least, 1}),
          max |-> Min({Max({most, start, least, 1}), n})]
    ELSE [pm |-> pm, children |-> n, min |-> 0, start |-> IF pm = "static" THEN n ELSE 0, max |-> 0]

validateConfig(q) ==
    q.pm = "dynamic" => /\ q.min <= q.children /\ q.max <= q.children
                        /\ q.start <= q.children /\ q.min <= q.max

----------------------------------------------------------------------------
(* Database engines.                                                       *)

clamp(v, lo, hi) == IF v < lo THEN lo ELSE IF v > hi THEN hi ELSE v

(* r is the fraction of the limit.                                         *)
reserved(limit, r, floor) == IF Max({r, floor}) >= limit THEN limit \div 2 ELSE Max({r, floor})

PoolBudget(limit, reserve, wake) ==
    IF wake = "warm" THEN Min({limit - reserve, 512}) ELSE limit - reserve

Percona(reserve, cpus, pool0, chunk, instances) ==
    LET granularity == instances * chunk
        size        == IF granularity > 0 THEN (pool0 \div granularity) * granularity ELSE pool0
        byMemory    == reserve \div 12
    IN  [engine |-> "percona", reserve |-> reserve, size |-> size, chunk |-> chunk,
         instances |-> instances, redo |-> clamp(size \div 4, 48, 2048),
         connections |-> clamp(Min({cpus * 75, byMemory}), 10, 1000),
         warned |-> byMemory < 10]

tunePerconaFixedChunk(limit, cpus, reserve, wake) ==   \* a mutant: chunks of 128 MB at least one
    LET pool0 == PoolBudget(limit, reserve, wake)
    IN  [Percona(reserve, cpus, pool0, 128, clamp(pool0 \div 1024, 1, 8)) EXCEPT !.size = Max({@, 128})]

(* The chunk is scaled down when one does not fit.                         *)
tunePercona(limit, cpus, reserve, wake) ==
    LET pool0     == PoolBudget(limit, reserve, wake)
        instances == clamp(pool0 \div 1024, 1, 8)
    IN  IF instances * 128 > pool0 THEN Percona(reserve, cpus, pool0, pool0, 1)
        ELSE Percona(reserve, cpus, pool0, 128, instances)

tuneValkey(limit, reserve) ==
    [engine |-> "valkey", reserve |-> reserve, maxmemory |-> Max({limit - reserve, 16})]

----------------------------------------------------------------------------
(* The boot.                                                               *)

Init ==
    /\ container \in Containers /\ ask \in Asks
    /\ stage = "boot" /\ pool = <<>> /\ fragment = <<>> /\ last = <<>> /\ boots = MaxBoots

Here == DetectContainerResources(container)

(* Calculate; a misfit is an error only when it is asked to be one.        *)
Calculate(p) ==
    \E soft \in Truncated(Here.limit, Threshold(ask, p)) :
       LET s == sizeWorkers(Here.limit, Here.cpus, soft, p, ask.strict)
       IN  \E start \in Ceiled(s.children, p.start), least \in Ceiled(s.children, p.spareMin),
              most \in Ceiled(s.children, p.spareMax) :
              LET q == Pool(p.pm, s.children, start, least, most)
              IN  IF s.ok /\ validateConfig(q)
                  THEN pool' = <<q, s.overcommitted>> /\ stage' = "engine"
                  ELSE pool' = <<>> /\ stage' = "unfit"

runAutoTuning ==
    /\ stage = "boot"
    /\ \/ ask.profile = "" /\ stage' = "engine" /\ UNCHANGED pool
       \/ ask.profile # "" /\ ~GetConfig(ask.profile) /\ stage' = "unfit" /\ UNCHANGED pool
       \/ ask.profile # "" /\ GetConfig(ask.profile) /\ Calculate(Config(ask.profile))
    /\ UNCHANGED <<container, ask, fragment, last, boots>>

Tuned(engine) == engine \in {"percona", "valkey"}
Untouched == \* an engine without a profile, or no limit to size against
    ~Tuned(ask.engine) \/ ~Here.isContainerized \/ Here.limit <= 0

Write(settings) ==
    \/ fragment' = <<settings>> /\ stage' = "up"
    \/ stage' = "unwritten" /\ UNCHANGED fragment

(* An unknown engine or wake mode is refused; the settings are written     *)
(* over those of the boot before.                                          *)
runEngineAutoTuning ==
    /\ stage = "engine"
    /\ \/ ask.engine = "" /\ stage' = "up" /\ UNCHANGED fragment
       \/ /\ ask.engine = "unknown" \/ (ask.engine # "" /\ ask.wake = "unknown")
          /\ stage' = "refused" /\ UNCHANGED fragment
       \/ /\ ask.engine \in {"percona", "valkey", "postgres"} /\ ask.wake # "unknown"
          /\ \/ Untouched /\ stage' = "up" /\ UNCHANGED fragment
             \/ /\ ~Untouched /\ ask.engine = "percona"
                /\ \E r \in Truncated(Here.limit, 25) :
                      LET s == tunePercona(Here.limit, Here.cpus, reserved(Here.limit, r, 256), ask.wake)
                      IN  IF s.size < 8 THEN stage' = "refused" /\ UNCHANGED fragment ELSE Write(s)
             \/ /\ ~Untouched /\ ask.engine = "valkey"
                /\ \E r \in Truncated(Here.limit, 20) :
                      Write(tuneValkey(Here.limit, reserved(Here.limit, r, 64)))
    /\ UNCHANGED <<container, ask, pool, last, boots>>

(* The operator changes the limits and starts the container again.         *)
Resize ==
    /\ stage \in {"up", "unfit", "refused", "unwritten"} /\ boots > 1 /\ boots' = boots - 1
    /\ container' \in Resized(container) \cap ContainerType
    /\ stage' = "boot" /\ pool' = <<>>
    /\ last' = IF pool = <<>> THEN <<>>
               ELSE <<[limit |-> Here.limit, cpus |-> Here.cpus, children |-> pool[1].children]>>
    /\ UNCHANGED <<ask, fragment>>

Next == runAutoTuning \/ runEngineAutoTuning \/ Resize

Spec == Init /\ [][Next]_vars

----------------------------------------------------------------------------
(* Properties.                                                             *)

(* A pool that is handed to PHP-FPM is one it can run and the container    *)
(* can hold: workers and overhead are within the real limit, whatever the  *)
(* threshold, except for a single worker of which the log says so, the     *)
(* spare servers are ordered as php-fpm demands, and in strict mode the    *)
(* profile has its minimum (calculator.go, Calculate and sizeWorkers).     *)
(* That holds for a threshold above one as well, of which the warning in   *)
(* Calculate says the opposite: see OversubscriptionIsGranted.             *)
PoolFits ==
    pool # <<>> =>
        LET p == Config(ask.profile)
            q == pool[1]
        IN  /\ \/ q.children >= 1 /\ q.children * p.worker + overhead(p) <= Here.limit
               \/ q.children = 1 /\ pool[2]
            /\ q.pm = "dynamic" =>
                  1 <= q.min /\ q.min <= q.start /\ q.start <= q.max /\ q.max <= q.children
            /\ ask.strict => q.children >= p.least

(* Not checked, violated: a threshold above one is granted, the pool has   *)
(* the workers that memory asks for.  Calculate warns that the threshold   *)
(* "allows OVERSUBSCRIPTION - risk of OOM kills!" (calculator.go) and the  *)
(* test of it says the same (calculator_test.go, "allows                   *)
(* oversubscription!"), but the hard ceiling of sizeWorkers clamps to the  *)
(* real limit, or in strict mode refuses.                                  *)
OversubscriptionIsGranted ==
    LET p     == Config(ask.profile)
        asked == {Desired(Here.cpus, soft, p) : soft \in Truncated(Here.limit, Threshold(ask, p))}
    IN  /\ pool # <<>> /\ Threshold(ask, p) > 100
        /\ \A n \in asked : n > p.least
        => pool[1].children \in asked

(* The sizing ends a boot only for a cause: a profile nobody knows, or, in *)
(* strict mode, a limit below the profile's smallest, or a threshold above *)
(* one; an engine or mode nobody knows, or a limit that leaves InnoDB less *)
(* than it starts with.  Half of a limit of 16 MB is enough for it, and so *)
(* only 257 to 263 MB are refused above that: there the reserve is its     *)
(* floor of 256 MB and not half (engine.go, reserved).                     *)
RefusedForCause ==
    /\ stage = "unfit" /\ GetConfig(ask.profile) =>
          LET p == Config(ask.profile)
          IN  ask.strict /\ (Here.limit < smallestBootableLimit(p) \/ Threshold(ask, p) > 100)
    /\ stage = "refused" /\ ask.engine # "unknown" /\ ask.wake # "unknown" =>
          ask.engine = "percona" /\ (Here.limit < 16 \/ Here.limit \in 257..263)

(* InnoDB rounds the size it is given up to a multiple of chunk times      *)
(* instances.                                                              *)
InnodbTakes(s) ==
    ((s.size + s.chunk * s.instances - 1) \div (s.chunk * s.instances)) * (s.chunk * s.instances)

(* An engine that comes up in a container with a limit finds settings made *)
(* for this limit, not for that of an earlier boot: what InnoDB will really *)
(* take and the reserve are within it, the connections are within the      *)
(* reserve unless the log says otherwise, and Valkey's dataset leaves the  *)
(* reserve alone above its floor (engine.go, tunePercona and tuneValkey).  *)
EngineFits ==
    stage = "up" /\ Tuned(ask.engine) /\ ~Untouched =>
        LET s == fragment[1]
        IN  /\ s.engine = ask.engine
            /\ s.engine = "percona" =>
                  /\ InnodbTakes(s) + s.reserve <= Here.limit
                  /\ ask.wake = "warm" => InnodbTakes(s) <= 512
                  /\ s.connections * 12 <= s.reserve \/ s.warned
            /\ s.engine = "valkey" => s.maxmemory = 16 \/ s.maxmemory + s.reserve <= Here.limit

(* More memory never makes for fewer workers: from one boot to the next    *)
(* with a higher limit and as many CPUs the pool does not shrink, across   *)
(* the clamp, the threshold and the CPU cap (calculator.go, sizeWorkers).  *)
WorkersGrow ==
    /\ pool # <<>> /\ last # <<>>
    /\ last[1].limit < Here.limit /\ last[1].cpus = Here.cpus
    => last[1].children <= pool[1].children

(* Not checked, violated: a strict-mode error names a limit that the       *)
(* container really is below.  A comment of smallestBootableLimit says the *)
(* two can never disagree; a threshold above one makes them.               *)
StrictErrorIsHonest ==
    stage = "unfit" /\ GetConfig(ask.profile) =>
        Here.limit < smallestBootableLimit(Config(ask.profile))

(* Not checked, violated at 257 MB: only a container below 128 MB is       *)
(* refused (memory_budget_test.go).                                        *)
OnlyTinyIsRefused ==
    stage = "refused" /\ ask.engine = "percona" /\ ask.wake # "unknown" => Here.limit < 128
=============================================================================
