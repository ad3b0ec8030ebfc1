---------------------------- MODULE ReloadProofs ----------------------------
(***************************************************************************)
(* TLAPS proofs about Reload, for any processes, configurations, edits and *)
(* numbers of operations and faults: no reload or rollback loses a live    *)
(* process, configuration, supervisors and jobs agree whenever m.mu is     *)
(* free, and dependents stop before what they depend on.                   *)
(***************************************************************************)
EXTENDS Reload, DependencyProofs

Stages == {"idle", "add", "remove", "update", "replace", "restore",
           "stop", "start", "rbstop", "rbstart"}

(* Stages of the operations on one name.                                   *)
Single == {"add", "remove", "update", "replace", "restore"}

OpType ==
    op \in [at : Stages, todo : SUBSET Names, old : Maps, new : Maps, touched : SUBSET Names,
            stuck : SUBSET Names, failed : SUBSET Names, name : Names \cup {None},
            def : Defs \cup {NoDef}]

CallType ==
    /\ call \in [at : {"idle", "found"}, kind : {"none", "stop", "restart", "start"},
                 sup : Sups \cup {None}]
    /\ call.kind # "none" => call.sup # None

(* A supervisor is registered under its own name.                          *)
Named == \A p \in Names : processes[p] # None => sup[processes[p]].name = p

(* Who lives, and where it is registered.                                  *)
World ==
    /\ processes \in [Names -> Sups \cup {None}]
    /\ sup \in [Sups -> [name : Names \cup {None}, def : Defs \cup {NoDef}, up : BOOLEAN]]
    /\ CallType /\ Named /\ OrphansExplained

(* The configuration an operation began with, or the one in force.         *)
Base == IF Held THEN op.old ELSE config

(* The names an operation works on.                                        *)
Touched == IF op.at \in Single THEN {op.name} ELSE op.touched

AgreesWith(c, p) ==
    /\ (p \in DOMAIN c /\ Runs(c[p])) <=> (processes[p] # None /\ sup[processes[p]].def = c[p])
    /\ processes[p] # None => p \in DOMAIN c /\ Runs(c[p])
    /\ jobs[p] = IF p \in DOMAIN c /\ Scheduled(c[p]) THEN c[p] ELSE NoDef

(* Even a name that is down has a supervisor only if its definition says   *)
(* so.                                                                     *)
Fine(c, p) ==
    /\ processes[p] # None => p \in DOMAIN c /\ Runs(c[p])
    /\ p \in down \/ AgreesWith(c, p)

(* Neither supervisor nor job.                                             *)
Bare(p) == processes[p] = None /\ jobs[p] = NoDef

(* What is down is something that ought to be up.                          *)
DownInv == down \subseteq {p \in DOMAIN Base : Base[p].enabled}

(* What no operation is working on.                                        *)
OthersInv == \A p \in Names \ (Touched \cup stray) : Fine(Base, p)

SingleInv ==
    op.at \in Single =>
        /\ op.name \in Names
        /\ op.at \in {"add", "update", "replace"} =>
              op.def \in Defs /\ config = With(op.old, op.name, op.def)
        /\ op.at \in {"remove", "restore"} => config = op.old
        /\ op.at # "add" => op.name \in DOMAIN op.old
        /\ op.at = "add" =>
              op.name \notin DOMAIN op.old /\ (op.name \in stray \/ Bare(op.name))
        /\ op.at \in {"replace", "restore"} =>
              processes[op.name] = None /\ (op.name \in stray \/ Runs(op.old[op.name]))
        /\ op.at = "restore" => jobs[op.name] = NoDef /\ op.old[op.name].enabled
        /\ op.at = "remove" \/ (op.at \in {"update", "replace"} /\ ~Scheduled(op.def)) =>
              jobs[op.name] = NoDef
        /\ op.at \in {"remove", "update"} /\ processes[op.name] # None =>
              \/ op.name \in stray
              \/ /\ Runs(op.old[op.name])
                 /\ \/ op.name \in down
                    \/ sup[processes[op.name]].def = op.old[op.name] /\ jobs[op.name] = NoDef

SameAt(c, d, p) == (p \in DOMAIN c <=> p \in DOMAIN d) /\ (p \in DOMAIN c => c[p] = d[p])

(* What a reload has not touched, it has not changed.                      *)
SameElsewhere == \A p \in Names \ op.touched : SameAt(op.old, op.new, p)

StopInv ==
    op.at = "stop" =>
        /\ config = op.old /\ op.new \in Configs /\ SameElsewhere
        /\ op.todo \cup op.failed \subseteq DOMAIN op.old
        /\ op.todo \subseteq op.touched \cap Ordered(op.old)
        /\ op.stuck = {}
        /\ \A p \in op.touched \ (op.todo \cup stray) :
              jobs[p] = NoDef /\ (processes[p] = None \/ p \in op.failed)

StartInv ==
    op.at = "start" =>
        /\ config = op.new /\ op.new \in Configs /\ SameElsewhere
        /\ op.todo \subseteq op.touched \cap Nodes(AsGraph(op.new))
        /\ op.stuck = {}
        /\ \A p \in op.touched \ stray :
              IF p \in op.todo THEN Bare(p) ELSE AgreesWith(op.new, p)

RbStopInv ==
    op.at = "rbstop" =>
        /\ op.todo \subseteq op.touched /\ op.stuck \subseteq stray
        /\ \A p \in op.touched \ (op.todo \cup stray) : Bare(p)

RbStartInv ==
    op.at = "rbstart" =>
        /\ config = op.old
        /\ op.todo \subseteq op.touched \cap Nodes(AsGraph(op.old))
        /\ \A p \in op.touched \ stray :
              IF p \in op.todo THEN Bare(p) ELSE Fine(op.old, p)

Books == DownInv /\ OthersInv /\ SingleInv /\ StopInv /\ StartInv /\ RbStopInv /\ RbStartInv

Bounds ==
    /\ config \in Maps /\ jobs \in [Names -> Defs \cup {NoDef}]
    /\ ops \in 0..MaxOps /\ faults \in 0..MaxFaults
    /\ down \subseteq Names /\ stray \subseteq Names
    /\ op.at = "idle" => op = Idle

IInv == Bounds /\ OpType /\ World /\ Books

-----------------------------------------------------------------------------
(* Definitions, maps and operations.                                       *)

(* The three kinds of definition: of a job, of a process, of neither.      *)
LEMMA DefKinds ==
    ASSUME NEW d \in Defs \cup {NoDef}
    PROVE  /\ d.enabled \in BOOLEAN
           /\ Runs(d) => d.enabled /\ ~Scheduled(d) /\ d # NoDef
           /\ Scheduled(d) => d.enabled /\ ~Runs(d) /\ d # NoDef
           /\ d.enabled => Runs(d) \/ Scheduled(d)
<1>1. d.enabled \in BOOLEAN
    <2>1. CASE d \in Defs
        <3>1. d \in [enabled : BOOLEAN, mode : {"running", "stopped", "schedule"},
                     version : Nat, depends : Seq(Names)]
            BY <2>1, ReloadAssumption
        <3> QED BY <3>1
    <2>2. CASE d = NoDef
        <3>1. d.enabled = FALSE
            BY <2>2 DEF NoDef
        <3> QED BY <3>1
    <2> QED BY <2>1, <2>2
<1>2. d.enabled => d # NoDef
    BY DEF NoDef
<1> QED BY <1>1, <1>2 DEF Runs, Scheduled

LEMMA MapValues ==
    ASSUME NEW c \in Maps
    PROVE  DOMAIN c \subseteq Names /\ \A p \in DOMAIN c : c[p] \in Defs
BY DEF Maps

LEMMA NoMapIsMap == NoMap \in Maps
<1>1. NoMap \in [{} -> Defs]
    BY DEF NoMap
<1> QED BY <1>1 DEF Maps

(* An edited map is a map that differs at the edited name alone.           *)
LEMMA WithIsMap ==
    ASSUME NEW c \in Maps, NEW p \in Names, NEW d \in Defs
    PROVE  /\ With(c, p, d) \in Maps
           /\ DOMAIN With(c, p, d) = DOMAIN c \cup {p} /\ With(c, p, d)[p] = d
           /\ \A q \in Names \ {p} : SameAt(c, With(c, p, d), q)
<1>1. PICK S \in SUBSET Names : c \in [S -> Defs]
    BY DEF Maps
<1>2. With(c, p, d) \in [S \cup {p} -> Defs]
    BY <1>1 DEF With
<1>3. S \cup {p} \in SUBSET Names
    BY <1>1
<1>4. With(c, p, d) \in Maps
    BY <1>2, <1>3 DEF Maps
<1> QED BY <1>1, <1>4 DEF With, SameAt

LEMMA WithoutIsMap ==
    ASSUME NEW c \in Maps, NEW p \in Names
    PROVE  /\ Without(c, p) \in Maps
           /\ DOMAIN Without(c, p) = DOMAIN c \ {p}
           /\ \A q \in Names \ {p} : SameAt(c, Without(c, p), q)
<1>1. PICK S \in SUBSET Names : c \in [S -> Defs]
    BY DEF Maps
<1>2. Without(c, p) \in [S \ {p} -> Defs]
    BY <1>1 DEF Without
<1>3. S \ {p} \in SUBSET Names
    BY <1>1
<1>4. Without(c, p) \in Maps
    BY <1>2, <1>3 DEF Maps
<1> QED BY <1>1, <1>4 DEF Without, SameAt

LEMMA IdleIsOp == Idle \in [at : Stages, todo : SUBSET Names, old : Maps, new : Maps,
    touched : SUBSET Names, stuck : SUBSET Names, failed : SUBSET Names, name : Names \cup {None},
    def : Defs \cup {NoDef}]
BY NoMapIsMap DEF Idle, Stages, None

-----------------------------------------------------------------------------
(* Who lives, and where it is registered.                                  *)

(* What a step does to other names than those it is about.                 *)
Kept(p) ==
    /\ processes'[p] = processes[p] /\ jobs'[p] = jobs[p]
    /\ processes[p] # None => sup'[processes[p]].def = sup[processes[p]].def

(* The new supervisor s for p is entered in m.processes, running or not.   *)
Enters(s, p, def, up) ==
    /\ Free(s)
    /\ sup' = [sup EXCEPT ![s] = [name |-> p, def |-> def, up |-> up]]
    /\ processes' = [processes EXCEPT ![p] = s]

(* A new supervisor is registered: the entry it takes is free, or of a     *)
(* process whose name is already known to be stray.                        *)
LEMMA WorldRegister ==
    ASSUME World, NEW s \in Sups, NEW p \in Names, NEW d \in Defs \cup {NoDef},
           NEW u \in BOOLEAN, Enters(s, p, d, u),
           call' = call, lost' = lost, stray' = stray, p \in stray \/ processes[p] = None
    PROVE  /\ World' /\ processes'[p] = s /\ processes'[p] # None /\ sup'[processes'[p]].def = d
           /\ \A q \in Names \ {p} : jobs'[q] = jobs[q] => Kept(q)
<1> None \notin Sups
    BY ReloadAssumption DEF None
<1>1. CallType'
    BY DEF World, CallType
<1>2. /\ processes' \in [Names -> Sups \cup {None}]
      /\ sup' \in [Sups -> [name : Names \cup {None}, def : Defs \cup {NoDef}, up : BOOLEAN]]
    BY DEF World, Enters
<1>3. processes'[p] = s /\ sup'[s].name = p /\ sup'[s].def = d
    BY DEF World, Enters
<1>4. \A q \in Names \ {p} : processes'[q] = processes[q]
    BY DEF World, Enters
<1>5. \A t \in Sups \ {s} : sup'[t] = sup[t]
    BY DEF World, Enters
<1>6. \A q \in Names : processes[q] # s
    BY DEF Free, Enters
<1>7. Named'
    BY <1>3, <1>4, <1>5, <1>6 DEF Named, World
<1>8. OrphansExplained'
    <2> SUFFICES ASSUME NEW t \in Sups, sup'[t].up, \A q \in Names : processes'[q] # t
                 PROVE  t \in lost' \/ sup'[t].name \in stray'
        BY DEF OrphansExplained, Orphan, Dropped
    <2>1. t # s
        BY <1>3
    <2>2. CASE processes[p] = t
        BY <2>1, <2>2, <1>5 DEF World, Named
    <2>3. CASE processes[p] # t
        BY <2>1, <2>3, <1>4, <1>5 DEF World, OrphansExplained, Orphan, Dropped
    <2> QED BY <2>2, <2>3
<1>9. \A q \in Names \ {p} : jobs'[q] = jobs[q] => Kept(q)
    BY <1>4, <1>5, <1>6, <1>2 DEF Kept, World
<1> QED BY <1>1, <1>2, <1>3, <1>7, <1>8, <1>9 DEF World

(* A supervisor is started and not registered: what it leaves is lost.     *)
LEMMA WorldStartInVain ==
    ASSUME World, NEW s \in Sups, Free(s), NEW p \in Names, NEW d \in Defs \cup {NoDef},
           NEW u \in BOOLEAN,
           sup' = [sup EXCEPT ![s] = [name |-> p, def |-> d, up |-> u]],
           processes' = processes, call' = call, lost' = (IF u THEN lost \cup {s} ELSE lost),
           stray' = stray
    PROVE  World' /\ \A q \in Names : jobs'[q] = jobs[q] => Kept(q)
<1> None \notin Sups
    BY ReloadAssumption DEF None
<1>1. CallType'
    BY DEF World, CallType
<1>2. /\ processes' \in [Names -> Sups \cup {None}]
      /\ sup' \in [Sups -> [name : Names \cup {None}, def : Defs \cup {NoDef}, up : BOOLEAN]]
    BY DEF World
<1>3. sup'[s].up = u /\ \A t \in Sups \ {s} : sup'[t] = sup[t]
    BY DEF World
<1>4. \A q \in Names : processes[q] # s
    BY DEF Free
<1>5. Named'
    BY <1>3, <1>4 DEF Named, World
<1>6. OrphansExplained'
    BY <1>3 DEF World, OrphansExplained, Orphan, Dropped
<1>7. \A q \in Names : jobs'[q] = jobs[q] => Kept(q)
    BY <1>3, <1>4, <1>2 DEF Kept, World
<1> QED BY <1>1, <1>2, <1>5, <1>6, <1>7 DEF World

(* Stop succeeded and the entry is dropped.                                *)
LEMMA WorldStop ==
    ASSUME World, NEW p \in Names, processes[p] # None,
           sup' = [sup EXCEPT ![processes[p]].up = FALSE],
           processes' = [processes EXCEPT ![p] = None], call' = call, lost' = lost, stray' = stray
    PROVE  /\ World' /\ processes'[p] = None
           /\ \A q \in Names \ {p} : jobs'[q] = jobs[q] => Kept(q)
<1> DEFINE s == processes[p]
<1> None \notin Sups
    BY ReloadAssumption DEF None
<1>1. CallType'
    BY DEF World, CallType
<1>0. s \in Sups
    BY DEF World
<1>3. sup'[s] = [sup[s] EXCEPT !.up = FALSE] /\ \A t \in Sups \ {s} : sup'[t] = sup[t]
    BY <1>0 DEF World
<1>4. sup[s] \in [name : Names \cup {None}, def : Defs \cup {NoDef}, up : BOOLEAN]
    BY <1>0 DEF World
<1>5. sup'[s].name = sup[s].name /\ sup'[s].def = sup[s].def /\ sup'[s].up = FALSE
    BY <1>3, <1>4
<1>2. /\ processes' \in [Names -> Sups \cup {None}]
      /\ sup' \in [Sups -> [name : Names \cup {None}, def : Defs \cup {NoDef}, up : BOOLEAN]]
    BY <1>0, <1>4 DEF World
<1>6. \A t \in Sups : sup'[t].name = sup[t].name /\ sup'[t].def = sup[t].def /\ (sup'[t].up => sup[t].up)
    BY <1>3, <1>5
<1>7. processes'[p] = None /\ \A q \in Names \ {p} : processes'[q] = processes[q]
    BY DEF World
<1> HIDE DEF s
<1>8. Named'
    BY <1>2, <1>6, <1>7 DEF Named, World
<1>9. OrphansExplained'
    <2> SUFFICES ASSUME NEW t \in Sups, sup'[t].up, \A q \in Names : processes'[q] # t
                 PROVE  t \in lost' \/ sup'[t].name \in stray'
        BY DEF OrphansExplained, Orphan, Dropped
    <2>1. t # s
        BY <1>5
    <2>2. \A q \in Names : processes[q] # t
        BY <2>1, <1>7 DEF s
    <2> QED BY <2>2, <1>6 DEF World, OrphansExplained, Orphan, Dropped
<1>10. \A q \in Names \ {p} : jobs'[q] = jobs[q] => Kept(q)
    BY <1>2, <1>6, <1>7 DEF Kept, World
<1> QED BY <1>1, <1>2, <1>7, <1>8, <1>9, <1>10 DEF World

(* Nothing lives or dies; names may become stray.                          *)
LEMMA WorldSame ==
    ASSUME World, processes' = processes, sup' = sup, CallType', lost \subseteq lost', stray \subseteq stray'
    PROVE  World' /\ \A q \in Names : jobs'[q] = jobs[q] => Kept(q)
<1>1. Named' /\ OrphansExplained'
    BY DEF World, Named, OrphansExplained, Orphan, Dropped
<1> QED BY <1>1 DEF World, Kept
-----------------------------------------------------------------------------
(* Configuration, supervisors and jobs.                                    *)

(* Agreement is about nothing but a name's own definition, entry and job.  *)
LEMMA FineKept ==
    ASSUME NEW p \in Names, NEW c, NEW d, SameAt(c, d, p), Fine(c, p), Kept(p),
           p \in down => p \in down'
    PROVE  Fine(d, p)'
BY DEF Fine, AgreesWith, SameAt, Kept

LEMMA AgreesKept ==
    ASSUME NEW p \in Names, NEW c, AgreesWith(c, p), Kept(p)
    PROVE  AgreesWith(c, p)'
BY DEF AgreesWith, Kept

LEMMA AgreesIsFine ==
    ASSUME NEW p, NEW c, AgreesWith(c, p)
    PROVE  Fine(c, p)
BY DEF AgreesWith, Fine

(* Without supervisor and job a name agrees with a map that has neither    *)
(* for it.                                                                 *)
LEMMA BareAgrees ==
    ASSUME NEW p, NEW c \in Maps, Bare(p), p \notin DOMAIN c \/ ~c[p].enabled
    PROVE  AgreesWith(c, p)
<1>1. p \in DOMAIN c => ~Runs(c[p]) /\ ~Scheduled(c[p])
    BY DEF Runs, Scheduled
<1> QED BY <1>1 DEF AgreesWith, Bare

LEMMA AgreesBare ==
    ASSUME NEW p, NEW c \in Maps, AgreesWith(c, p), p \notin DOMAIN c \/ ~c[p].enabled
    PROVE  Bare(p)
<1>1. p \in DOMAIN c => ~Runs(c[p]) /\ ~Scheduled(c[p])
    BY DEF Runs, Scheduled
<1> QED BY <1>1 DEF AgreesWith, Bare

(* With its supervisor, or with its job, a name agrees with its definition. *)
LEMMA RunsAgrees ==
    ASSUME NEW p, NEW c \in Maps, p \in DOMAIN c, Runs(c[p]), processes[p] # None,
           sup[processes[p]].def = c[p], jobs[p] = NoDef
    PROVE  AgreesWith(c, p)
BY DefKinds, MapValues DEF AgreesWith

LEMMA JobAgrees ==
    ASSUME NEW p, NEW c \in Maps, p \in DOMAIN c, Scheduled(c[p]), processes[p] = None, jobs[p] = c[p]
    PROVE  AgreesWith(c, p)
BY DefKinds, MapValues DEF AgreesWith

(* What a step leaves alone stays fine, and what it lets go must be fine.  *)
LEMMA OthersKept ==
    ASSUME OthersInv, stray \subseteq stray',
           \A p \in Names \ (Touched' \cup stray') :
              IF p \in Touched THEN Fine(Base, p)'
              ELSE SameAt(Base, Base', p) /\ Kept(p) /\ (p \in down => p \in down')
    PROVE  OthersInv'
<1> PICK c, d : c = Base /\ d = Base'
    OBVIOUS
<1> SUFFICES ASSUME NEW p \in Names \ (Touched' \cup stray')
             PROVE  Fine(Base, p)'
    BY DEF OthersInv
<1>1. CASE p \in Touched
    BY <1>1
<1>2. CASE p \notin Touched
    <2>1. Fine(c, p) /\ SameAt(c, d, p) /\ Kept(p) /\ (p \in down => p \in down')
        BY <1>2 DEF OthersInv
    <2>2. Fine(d, p)'
        BY <2>1, FineKept
    <2> QED BY <2>2 DEF Fine, AgreesWith
<1> QED BY <1>1, <1>2
-----------------------------------------------------------------------------
(* The steps, and what each does to the invariant.                         *)

(* Most steps leave these alone, or count them down.                       *)
LEMMA BoundsKept ==
    ASSUME Bounds, config' \in Maps, jobs' \in [Names -> Defs \cup {NoDef}],
           ops' = ops \/ (ops > 0 /\ ops' = ops - 1),
           faults' = faults \/ (faults > 0 /\ faults' = faults - 1),
           down' \subseteq Names, stray' \subseteq Names, op'.at = "idle" => op' = Idle
    PROVE  Bounds'
BY ReloadAssumption DEF Bounds

(* m.mu is given back: only what everybody relies on remains to be shown.  *)
LEMMA BooksClosed ==
    ASSUME op' = Idle, DownInv', OthersInv'
    PROVE  OpType' /\ Books' /\ Touched' = {} /\ Base' = config' /\ (op'.at = "idle" => op' = Idle)
<1>1. OpType'
    BY IdleIsOp DEF OpType
<1>2. op'.at = "idle" /\ op'.touched = {}
    BY DEF Idle
<1> QED BY <1>1, <1>2 DEF Books, SingleInv, StopInv, StartInv, RbStopInv, RbStartInv, Single,
        Touched, Base, Held

(* While m.mu is free, every name is fine.                                 *)
LEMMA AllFine ==
    ASSUME IInv, ~Held
    PROVE  op = Idle /\ Base = config /\ Touched = {} /\ \A p \in Names \ stray : Fine(config, p)
<1>1. op = Idle
    BY DEF IInv, Bounds, Held
<1>2. Touched = {} /\ Base = config
    BY <1>1 DEF Touched, Base, Idle, Single, Held
<1> QED BY <1>1, <1>2 DEF IInv, Books, OthersInv, Fine, AgreesWith

(* An operation on one name takes m.mu.                                    *)
LEMMA BeginKeeps ==
    ASSUME IInv, NEW at \in Single, NEW p \in Names, NEW def \in Defs \cup {NoDef},
           Begin(at, p, def), config' \in Maps, jobs' \in [Names -> Defs \cup {NoDef}],
           \A q \in Names \ {p} : jobs'[q] = jobs[q],
           UNCHANGED <<processes, sup, call, faults, lost, down, stray>>,
           SingleInv'
    PROVE  IInv'
<1>1. ~Held /\ op' = [Idle EXCEPT !.at = at, !.name = p, !.def = def, !.old = config]
    BY DEF Begin
<1>2. /\ op'.at = at /\ op'.name = p /\ op'.def = def /\ op'.old = config /\ OpType'
      /\ at \notin {"idle", "stop", "start", "rbstop", "rbstart"}
    <2>1. at \in Stages /\ at \notin {"idle", "stop", "start", "rbstop", "rbstart"}
        BY DEF Single, Stages
    <2>2. config \in Maps
        BY DEF IInv, Bounds
    <2>3. op' \in [at : Stages, todo : SUBSET Names, old : Maps, new : Maps, touched : SUBSET Names,
                   stuck : SUBSET Names, failed : SUBSET Names, name : Names \cup {None},
                   def : Defs \cup {NoDef}]
        BY <1>1, <2>1, <2>2, IdleIsOp
    <2>4. op'.at = at /\ op'.name = p /\ op'.def = def /\ op'.old = config
        BY <1>1, IdleIsOp
    <2> QED BY <2>1, <2>3, <2>4 DEF OpType
<1>3. World' /\ \A q \in Names \ {p} : Kept(q)
    BY WorldSame DEF IInv, World, CallType
<1>4. Bounds'
    BY <1>2, BoundsKept DEF IInv, Bounds, Begin
<1>5. Base = config /\ Touched = {}
    BY <1>1, AllFine
<1>6. Base' = config /\ Touched' = {p}
    BY <1>2 DEF Base, Touched, Held
<1>7. DownInv'
    BY <1>5, <1>6 DEF DownInv, IInv, Books
<1>8. OthersInv'
    BY <1>3, <1>5, <1>6, OthersKept DEF IInv, Books, SameAt
<1>9. StopInv' /\ StartInv' /\ RbStopInv' /\ RbStartInv'
    BY <1>2 DEF StopInv, StartInv, RbStopInv, RbStartInv
<1> QED BY <1>2, <1>3, <1>4, <1>7, <1>8, <1>9 DEF IInv, Books

LEMMA AddProcessKeeps ==
    ASSUME IInv, NEW p \in Names, NEW def \in Edits, AddProcess(p, def)
    PROVE  IInv'
<1>1. def \in Defs /\ config \in Maps
    BY ReloadAssumption DEF IInv, Bounds
<1>2. With(config, p, def) \in Maps
    BY <1>1, WithIsMap
<1>3. op'.at = "add" /\ op'.name = p /\ op'.def = def /\ op'.old = config /\ ~Held
    BY IdleIsOp DEF AddProcess, Begin, Idle
<1>4. p \in stray \/ Bare(p)
    <2> SUFFICES ASSUME p \notin stray PROVE Bare(p)
        OBVIOUS
    <2>1. Fine(config, p) /\ Base = config
        BY <1>3, AllFine
    <2>2. p \notin down
        BY <2>1 DEF AddProcess, IInv, Books, DownInv
    <2> QED BY <1>1, <2>1, <2>2, AgreesBare DEF AddProcess, Fine
<1>5. SingleInv'
    BY <1>1, <1>3, <1>4 DEF AddProcess, SingleInv, Single, Bare
<1> QED BY <1>1, <1>2, <1>5, BeginKeeps DEF AddProcess, Single, IInv, Bounds

LEMMA RemoveProcessKeeps ==
    ASSUME IInv, NEW p \in Names, RemoveProcess(p)
    PROVE  IInv'
<1>1. config \in Maps /\ jobs \in [Names -> Defs \cup {NoDef}]
    BY DEF IInv, Bounds
<1>2. op'.at = "remove" /\ op'.name = p /\ op'.old = config /\ ~Held
    BY IdleIsOp DEF RemoveProcess, Begin, Idle
<1>3. jobs' \in [Names -> Defs \cup {NoDef}] /\ jobs'[p] = NoDef
      /\ \A q \in Names \ {p} : jobs'[q] = jobs[q]
    BY <1>1 DEF RemoveProcess
<1>4. p \in stray \/ Fine(config, p)
    BY <1>2, AllFine
<1>5. SingleInv'
    BY <1>1, <1>2, <1>3, <1>4 DEF RemoveProcess, SingleInv, Single, Fine, AgreesWith
<1> QED BY <1>1, <1>3, <1>5, BeginKeeps DEF RemoveProcess, Single

LEMMA UpdateProcessKeeps ==
    ASSUME IInv, NEW p \in Names, NEW def \in Edits, UpdateProcess(p, def)
    PROVE  IInv'
<1>1. def \in Defs /\ config \in Maps /\ jobs \in [Names -> Defs \cup {NoDef}]
    BY ReloadAssumption DEF IInv, Bounds
<1>2. With(config, p, def) \in Maps
    BY <1>1, WithIsMap
<1>3. op'.at = "update" /\ op'.name = p /\ op'.def = def /\ op'.old = config /\ ~Held
    BY IdleIsOp DEF UpdateProcess, Begin, Idle
<1>4. /\ jobs' \in [Names -> Defs \cup {NoDef}] /\ (~Scheduled(def) => jobs'[p] = NoDef)
      /\ jobs'[p] = jobs[p] \/ jobs'[p] = NoDef
      /\ \A q \in Names \ {p} : jobs'[q] = jobs[q]
    BY <1>1 DEF UpdateProcess
<1>5. p \in stray \/ Fine(config, p)
    BY <1>3, AllFine
<1>6. p \in DOMAIN config /\ config[p] \in Defs
    BY <1>1, MapValues DEF UpdateProcess
<1>7. processes[p] # None =>
        p \in stray \/ (Runs(config[p]) /\ (p \in down \/ (sup[processes[p]].def = config[p] /\ jobs'[p] = NoDef)))
    BY <1>4, <1>5, <1>6, DefKinds DEF Fine, AgreesWith
<1>8. SingleInv'
    BY <1>1, <1>3, <1>4, <1>6, <1>7 DEF UpdateProcess, SingleInv, Single
<1> QED BY <1>1, <1>2, <1>4, <1>8, BeginKeeps DEF UpdateProcess, Single
(* An operation on one name gives m.mu back: what it says of that name     *)
(* must be right, or the name reported down, or stray.                     *)
LEMMA SingleCloses ==
    ASSUME IInv, op.at \in Single, op' = Idle, World', config' \in Maps,
           jobs' \in [Names -> Defs \cup {NoDef}], ops' = ops, stray' = stray,
           faults' = faults \/ (faults > 0 /\ faults' = faults - 1),
           NEW n, n = op.name,
           \A q \in Names \ {n} : Kept(q) /\ SameAt(op.old, config', q),
           down' \subseteq down \cup {n}, down \ {n} \subseteq down',
           n \in stray \/ Fine(config, n)',
           n \in down' => n \in DOMAIN config' /\ config'[n].enabled
    PROVE  IInv'
<1>1. op.name \in Names /\ Touched = {op.name} /\ Base = op.old
    BY DEF IInv, Books, SingleInv, Touched, Base, Held, Single
<1>2. op'.at = "idle" /\ Touched' = {} /\ Base' = config'
    BY DEF Touched, Base, Held, Idle, Single
<1>3. down' \subseteq Names /\ DownInv'
    <2>1. down \subseteq {q \in DOMAIN op.old : op.old[q].enabled} /\ down \subseteq Names
        BY <1>1 DEF IInv, Books, DownInv, Bounds
    <2>2. \A q \in down' : q \in Names /\ q \in DOMAIN config' /\ config'[q].enabled
        BY <1>1, <2>1 DEF SameAt
    <2> QED BY <1>2, <2>2 DEF DownInv
<1>4. OthersInv'
    <2>1. ASSUME NEW p \in Names \ (Touched' \cup stray')
          PROVE  IF p \in Touched THEN Fine(Base, p)'
                 ELSE SameAt(Base, Base', p) /\ Kept(p) /\ (p \in down => p \in down')
        <3>1. CASE p = n
            <4>1. Fine(config, p)'
                BY <3>1
            <4> QED BY <1>1, <1>2, <3>1, <4>1 DEF Fine, AgreesWith
        <3>2. CASE p # n
            BY <1>1, <1>2, <3>2
        <3> QED BY <3>1, <3>2
    <2> QED BY <2>1, OthersKept DEF IInv, Books
<1>5. Bounds'
    BY <1>3, BoundsKept DEF IInv, Bounds
<1> QED BY <1>3, <1>4, <1>5, BooksClosed DEF IInv

(* What is known of an operation on one name.                              *)
LEMMA SingleFacts ==
    ASSUME IInv, op.at \in Single
    PROVE  /\ op.name \in Names /\ op.old \in Maps /\ op.def \in Defs \cup {NoDef}
           /\ config \in Maps /\ jobs \in [Names -> Defs \cup {NoDef}]
           /\ op.name \in DOMAIN op.old => op.old[op.name] \in Defs
           /\ op.at \in {"add", "update", "replace"} =>
                 /\ op.def \in Defs /\ op.name \in DOMAIN config /\ config[op.name] = op.def
                 /\ DOMAIN config = DOMAIN op.old \cup {op.name}
           /\ op.at \in {"remove", "restore"} => config = op.old
           /\ \A q \in Names \ {op.name} : SameAt(op.old, config, q) /\ SameAt(op.old, op.old, q)
           /\ \A q \in Names \ {op.name} : SameAt(op.old, Without(config, op.name), q)
           /\ Without(config, op.name) \in Maps /\ op.name \notin DOMAIN Without(config, op.name)
<1>1. op.name \in Names /\ op.old \in Maps /\ op.def \in Defs \cup {NoDef}
    BY DEF IInv, Books, SingleInv, OpType
<1>2. config \in Maps /\ jobs \in [Names -> Defs \cup {NoDef}]
    BY DEF IInv, Bounds
<1>3. op.at \in {"add", "update", "replace"} => op.def \in Defs /\ config = With(op.old, op.name, op.def)
    BY DEF IInv, Books, SingleInv
<1>4. op.at \in {"remove", "restore"} => config = op.old
    BY DEF IInv, Books, SingleInv
<1>5. op.at \in {"add", "update", "replace", "remove", "restore"}
    BY DEF Single
<1>6. op.at \in {"add", "update", "replace"} =>
         /\ op.name \in DOMAIN config /\ config[op.name] = op.def
         /\ DOMAIN config = DOMAIN op.old \cup {op.name}
         /\ \A q \in Names \ {op.name} : SameAt(op.old, config, q)
    <2>1. PICK c \in Maps, p \in Names, d \in Defs \cup {NoDef} : c = op.old /\ p = op.name /\ d = op.def
        BY <1>1
    <2>2. d \in Defs => /\ DOMAIN With(c, p, d) = DOMAIN c \cup {p} /\ With(c, p, d)[p] = d
                       /\ \A q \in Names \ {p} : SameAt(c, With(c, p, d), q)
        BY WithIsMap
    <2> SUFFICES ASSUME op.at \in {"add", "update", "replace"}
                 PROVE  p \in DOMAIN config /\ config[p] = d /\ DOMAIN config = DOMAIN c \cup {p}
                        /\ \A q \in Names \ {p} : SameAt(c, config, q)
        BY <2>1
    <2>3. d \in Defs /\ config = With(c, p, d)
        BY <1>3, <2>1
    <2> QED BY <2>2, <2>3
<1>7. \A q \in Names \ {op.name} : SameAt(op.old, config, q)
    BY <1>4, <1>5, <1>6 DEF SameAt
<1>8. /\ Without(config, op.name) \in Maps /\ DOMAIN Without(config, op.name) = DOMAIN config \ {op.name}
      /\ \A q \in Names \ {op.name} : SameAt(config, Without(config, op.name), q)
    BY <1>1, <1>2, WithoutIsMap
<1> QED BY <1>1, <1>2, <1>3, <1>4, <1>6, <1>7, <1>8, MapValues DEF SameAt

LEMMA AddScheduledKeeps ==
    ASSUME IInv, AddScheduled
    PROVE  IInv'
<1>1. op.at = "add" /\ op.at \in Single /\ op' = Idle
    BY DEF AddScheduled, Unlock, Single
<1> PICK n : n = op.name
    OBVIOUS
<1>2. op.name \in stray \/ Bare(op.name)
    BY <1>1 DEF IInv, Books, SingleInv
<1>3. World' /\ \A q \in Names : jobs'[q] = jobs[q] => Kept(q)
    BY WorldSame DEF AddScheduled, IInv, World, CallType
<1>4. op.name \in Names /\ config \in Maps /\ jobs \in [Names -> Defs \cup {NoDef}]
      /\ op.def \in Defs /\ op.name \in DOMAIN config /\ config[op.name] = op.def
    BY <1>1, SingleFacts
<1>5. CASE jobs' = [jobs EXCEPT ![op.name] = op.def] /\ UNCHANGED <<config, faults>>
    <2>1. jobs' \in [Names -> Defs \cup {NoDef}] /\ jobs'[op.name] = op.def
          /\ \A q \in Names \ {op.name} : jobs'[q] = jobs[q]
        BY <1>4, <1>5
    <2>2. n \in stray \/ Fine(config, n)'
        BY <1>2, <1>4, <1>5, <2>1, DefKinds DEF AddScheduled, Fine, AgreesWith, Bare
    <2>3. \A q \in Names \ {op.name} : Kept(q) /\ SameAt(op.old, config', q)
        BY <1>1, <1>3, <1>5, <2>1, SingleFacts
    <2> QED BY <1>1, <1>3, <1>4, <1>5, <2>1, <2>2, <2>3, SingleCloses DEF AddScheduled
<1>6. CASE RegisterFails /\ config' = Without(config, op.name) /\ UNCHANGED jobs
    <2>1. config' \in Maps /\ op.name \notin DOMAIN config'
        BY <1>1, <1>6, SingleFacts
    <2>2. n \in stray \/ Fine(config, n)'
        BY <1>2, <1>6, <2>1 DEF AddScheduled, Fine, AgreesWith, Bare
    <2>3. \A q \in Names \ {op.name} : Kept(q) /\ SameAt(op.old, config', q)
        BY <1>1, <1>3, <1>6, SingleFacts
    <2> QED BY <1>1, <1>3, <1>4, <1>6, <2>1, <2>2, <2>3, SingleCloses DEF AddScheduled, RegisterFails
<1> QED BY <1>5, <1>6 DEF AddScheduled

(* A definition gets its supervisor, running or not.                       *)
LEMMA RegisteredCloses ==
    ASSUME IInv, op.at \in Single, op.name \in stray \/ (processes[op.name] = None /\ jobs[op.name] = NoDef),
           NEW s \in Sups, NEW u \in BOOLEAN, NEW d \in Defs, Runs(d),
           Enters(s, op.name, d, u), op.name \in DOMAIN config, config[op.name] = d, op' = Idle,
           down' = down \ {op.name} \/ down' = down,
           UNCHANGED <<config, jobs, call, ops, faults, lost, stray>>
    PROVE  IInv'
<1>1. op.name \in Names /\ config \in Maps /\ jobs \in [Names -> Defs \cup {NoDef}]
    BY SingleFacts
<1> PICK n : n = op.name
    OBVIOUS
<1>2. /\ World' /\ processes'[op.name] # None /\ sup'[processes'[op.name]].def = d
      /\ \A q \in Names \ {op.name} : Kept(q)
    <2>1. n \in Names
        BY <1>1
    <2>2. n \in stray \/ processes[n] = None
        OBVIOUS
    <2>3. d \in Defs \cup {NoDef} /\ World /\ jobs' = jobs /\ call' = call /\ lost' = lost /\ stray' = stray
        BY DEF IInv
    <2>5. /\ World' /\ processes'[n] # None /\ sup'[processes'[n]].def = d
          /\ \A q \in Names \ {n} : jobs'[q] = jobs[q] => Kept(q)
        BY <2>1, <2>2, <2>3, WorldRegister
    <2> QED BY <2>3, <2>5
<1>3. n \in stray \/ Fine(config, n)'
    BY <1>1, <1>2, DefKinds DEF Fine, AgreesWith
<1>4. \A q \in Names \ {op.name} : SameAt(op.old, config', q)
    BY SingleFacts
<1>5. op.name \in down' => op.name \in DOMAIN config' /\ config'[op.name].enabled
    BY DefKinds
<1> QED BY <1>1, <1>2, <1>3, <1>4, <1>5, SingleCloses

LEMMA AddStoppedKeeps ==
    ASSUME IInv, AddStopped \/ AddStarts
    PROVE  IInv'
<1>1. op.at = "add" /\ op.at \in Single /\ op' = Idle /\ Runs(op.def)
    BY DEF AddStopped, AddStarts, Unlock, Single
<1> PICK n : n = op.name
    OBVIOUS
<1>2. op.name \in stray \/ Bare(op.name)
    BY <1>1 DEF IInv, Books, SingleInv
<1>3. op.def \in Defs /\ op.name \in DOMAIN config /\ config[op.name] = op.def
    BY <1>1, SingleFacts
<1>4. PICK s \in Sups, u \in BOOLEAN : Enters(s, op.name, op.def, u)
    BY DEF AddStopped, AddStarts, Registers, StartsNew, Started, newConfiguredSupervisor, Enters
<1>5. down' = down \ {op.name} /\ UNCHANGED <<config, jobs, call, ops, faults, lost, stray>>
    BY DEF AddStopped, AddStarts, StartsNew, Started
<1> PICK d \in Defs : d = op.def
    BY <1>3
<1> QED BY <1>1, <1>2, <1>3, <1>4, <1>5, RegisteredCloses DEF Bare

LEMMA AddDisabledKeeps ==
    ASSUME IInv, AddDisabled
    PROVE  IInv'
<1>1. op.at = "add" /\ op.at \in Single /\ op' = Idle
    BY DEF AddDisabled, Unlock, Single
<1> PICK n : n = op.name
    OBVIOUS
<1>2. op.name \in stray \/ Bare(op.name)
    BY <1>1 DEF IInv, Books, SingleInv
<1>3. World' /\ \A q \in Names : Kept(q)
    BY WorldSame DEF AddDisabled, IInv, World, CallType
<1>4. op.name \in Names /\ config \in Maps /\ jobs \in [Names -> Defs \cup {NoDef}]
      /\ op.def \in Defs /\ op.name \in DOMAIN config /\ config[op.name] = op.def
      /\ \A q \in Names \ {op.name} : SameAt(op.old, config, q)
    BY <1>1, SingleFacts
<1>5. n \in stray \/ Fine(config, n)'
    BY <1>2, <1>4, DefKinds DEF AddDisabled, Fine, AgreesWith, Bare
<1> QED BY <1>1, <1>3, <1>4, <1>5, SingleCloses DEF AddDisabled

LEMMA AddFailsKeeps ==
    ASSUME IInv, NEW left \in BOOLEAN, AddFails(left)
    PROVE  IInv'
<1>1. op.at = "add" /\ op.at \in Single /\ op' = Idle
    BY DEF AddFails, Unlock, Single
<1> PICK n : n = op.name
    OBVIOUS
<1>2. op.name \in stray \/ Bare(op.name)
    BY <1>1 DEF IInv, Books, SingleInv
<1>3. /\ op.name \in Names /\ op.def \in Defs /\ jobs \in [Names -> Defs \cup {NoDef}]
      /\ config' \in Maps /\ op.name \notin DOMAIN config'
      /\ \A q \in Names \ {op.name} : SameAt(op.old, config', q)
    BY <1>1, SingleFacts DEF AddFails
<1>4. PICK s \in Sups, goesOn \in BOOLEAN :
          /\ Free(s) /\ StartFails(s, op.name, op.def, left, goesOn)
          /\ lost' = IF left THEN lost \cup {s} ELSE lost
    BY DEF AddFails, StartsNewInVain, newConfiguredSupervisor
<1>5. World' /\ \A q \in Names : Kept(q)
    <2> PICK p \in Names, d \in Defs \cup {NoDef} : p = op.name /\ d = op.def
        BY <1>3
    <2> QED BY <1>4, WorldStartInVain DEF IInv, StartFails, AddFails
<1>6. n \in stray \/ Fine(config, n)'
    BY <1>2, <1>3 DEF AddFails, Fine, AgreesWith, Bare
<1>7. op.name \notin down
    BY <1>1 DEF IInv, Books, DownInv, Base, Held, SingleInv
<1> QED BY <1>1, <1>3, <1>4, <1>5, <1>6, <1>7, SingleCloses DEF AddFails, StartFails
(* An entry is dropped, after a successful Stop if there was one.          *)
LEMMA WorldDrop ==
    ASSUME World, NEW p \in Names,
           \/ processes[p] # None /\ Stopped(processes[p])
           \/ processes[p] = None /\ sup' = sup,
           processes' = [processes EXCEPT ![p] = None], call' = call, lost' = lost, stray' = stray
    PROVE  /\ World' /\ processes'[p] = None
           /\ \A q \in Names \ {p} : jobs'[q] = jobs[q] => Kept(q)
<1>1. CASE processes[p] # None /\ Stopped(processes[p])
    BY <1>1, WorldStop DEF Stopped
<1>2. CASE processes[p] = None /\ sup' = sup
    <2>1. processes' = processes
        BY <1>2 DEF World
    <2>2. CallType'
        BY DEF World, CallType
    <2> QED BY <1>2, <2>1, <2>2, WorldSame
<1> QED BY <1>1, <1>2

LEMMA RemoveStopsKeeps ==
    ASSUME IInv, RemoveStops
    PROVE  IInv'
<1>1. op.at = "remove" /\ op.at \in Single /\ op' = Idle
    BY DEF RemoveStops, Unlock, Single
<1> PICK n : n = op.name
    OBVIOUS
<1>2. n \in Names /\ jobs \in [Names -> Defs \cup {NoDef}] /\ jobs[n] = NoDef
    BY <1>1, SingleFacts DEF IInv, Books, SingleInv
<1>3. /\ config' \in Maps /\ n \notin DOMAIN config'
      /\ \A q \in Names \ {n} : SameAt(op.old, config', q)
    BY <1>1, SingleFacts DEF RemoveStops
<1>4. World' /\ processes'[n] = None /\ \A q \in Names \ {n} : Kept(q)
    BY <1>2, WorldDrop DEF RemoveStops, IInv
<1>5. Fine(config, n)'
    BY <1>2, <1>3, <1>4 DEF RemoveStops, Fine, AgreesWith
<1>6. faults' = faults
    BY DEF RemoveStops, Stopped
<1> QED BY <1>1, <1>2, <1>3, <1>4, <1>5, <1>6, SingleCloses DEF RemoveStops

LEMMA RemoveFailsKeeps ==
    ASSUME IInv, RemoveFails
    PROVE  IInv'
<1>1. op.at = "remove" /\ op.at \in Single /\ op' = Idle
    BY DEF RemoveFails, Unlock, Single
<1> PICK n : n = op.name
    OBVIOUS
<1>2. n \in Names /\ config \in Maps /\ jobs \in [Names -> Defs \cup {NoDef}] /\ config = op.old
    BY <1>1, SingleFacts
<1>3. /\ jobs[n] = NoDef /\ n \in DOMAIN config
      /\ n \in stray \/ (Runs(config[n]) /\ (n \in down \/ sup[processes[n]].def = config[n]))
    BY <1>1, <1>2 DEF RemoveFails, IInv, Books, SingleInv
<1>4. World' /\ \A q \in Names : Kept(q)
    BY WorldSame DEF RemoveFails, Refuses, IInv, World, CallType
<1>5. n \in stray \/ Fine(config, n)'
    <2> SUFFICES ASSUME n \notin stray PROVE Fine(config, n)'
        OBVIOUS
    <2>1. n \in down \/ AgreesWith(config, n)
        BY <1>2, <1>3, RunsAgrees DEF RemoveFails
    <2> QED BY <1>3, <2>1 DEF RemoveFails, Refuses, Fine, AgreesWith
<1>6. n \in down => n \in DOMAIN config /\ config[n].enabled
    BY <1>1, <1>2 DEF IInv, Books, DownInv, Base, Held
<1>7. \A q \in Names \ {n} : SameAt(op.old, config, q)
    BY <1>2 DEF SameAt
<1> QED BY <1>1, <1>2, <1>4, <1>5, <1>6, <1>7, SingleCloses DEF RemoveFails, Refuses

LEMMA UpdateStopsKeeps ==
    ASSUME IInv, UpdateStops
    PROVE  IInv'
<1>1. op.at = "update" /\ op.at \in Single /\ op' = [op EXCEPT !.at = "replace"]
    BY DEF UpdateStops, Goto, Single
<1> PICK n : n = op.name
    OBVIOUS
<1>2. /\ OpType' /\ op'.at = "replace" /\ op'.name = n /\ op'.def = op.def /\ op'.old = op.old
    BY <1>1 DEF IInv, OpType, Stages
<1>3. n \in Names /\ World' /\ processes'[n] = None /\ \A q \in Names \ {n} : Kept(q)
    BY <1>1, SingleFacts, WorldDrop DEF UpdateStops, IInv
<1>4. Touched = {n} /\ Touched' = {n} /\ Base = op.old /\ Base' = op.old
    BY <1>1, <1>2 DEF Touched, Base, Held, Single
<1>5. DownInv'
    BY <1>4 DEF UpdateStops, IInv, Books, DownInv
<1>6. OthersInv'
    BY <1>3, <1>4, OthersKept DEF UpdateStops, IInv, Books, SameAt
<1>7. SingleInv'
    BY <1>1, <1>2, <1>3 DEF UpdateStops, IInv, Books, SingleInv, Single
<1>8. StopInv' /\ StartInv' /\ RbStopInv' /\ RbStartInv'
    BY <1>2 DEF StopInv, StartInv, RbStopInv, RbStartInv
<1>9. Bounds'
    BY <1>2, BoundsKept DEF UpdateStops, Stopped, IInv, Bounds
<1> QED BY <1>2, <1>3, <1>5, <1>6, <1>7, <1>8, <1>9 DEF IInv, Books

LEMMA UpdateStopFailsKeeps ==
    ASSUME IInv, UpdateStopFails
    PROVE  IInv'
<1>1. op.at = "update" /\ op.at \in Single /\ op' = Idle
    BY DEF UpdateStopFails, Unlock, Single
<1> PICK n, c : n = op.name /\ c = op.old
    OBVIOUS
<1>2. n \in Names /\ c \in Maps /\ jobs \in [Names -> Defs \cup {NoDef}]
    BY <1>1, SingleFacts
<1>3. /\ n \in DOMAIN c
      /\ n \in stray \/ (Runs(c[n]) /\ (n \in down \/ (sup[processes[n]].def = c[n] /\ jobs[n] = NoDef)))
    BY <1>1, <1>2 DEF UpdateStopFails, IInv, Books, SingleInv
<1>4. World' /\ \A q \in Names : Kept(q)
    BY WorldSame DEF UpdateStopFails, Refuses, IInv, World, CallType
<1>5. n \in stray \/ Fine(config, n)'
    <2> SUFFICES ASSUME n \notin stray PROVE Fine(config, n)'
        OBVIOUS
    <2>1. n \in down \/ AgreesWith(c, n)
        BY <1>2, <1>3, RunsAgrees DEF UpdateStopFails
    <2> QED BY <1>3, <2>1 DEF UpdateStopFails, Refuses, Fine, AgreesWith
<1>6. n \in down => n \in DOMAIN c /\ c[n].enabled
    BY <1>1, <1>2 DEF IInv, Books, DownInv, Base, Held
<1>7. \A q \in Names \ {n} : SameAt(c, c, q)
    BY DEF SameAt
<1> QED BY <1>1, <1>2, <1>4, <1>5, <1>6, <1>7, SingleCloses DEF UpdateStopFails, Refuses

(* A failed edit is over: the old definition is back, and whatever of it   *)
(* is missing has been reported.                                           *)
LEMMA UnrestoredCloses ==
    ASSUME IInv, op.at \in {"update", "replace"}, processes[op.name] = None,
           op' = Idle, World', \A q \in Names \ {op.name} : Kept(q),
           config' = op.old, processes' = processes, ops' = ops, stray' = stray,
           jobs' \in [Names -> Defs \cup {NoDef}], jobs'[op.name] = NoDef,
           faults' = faults \/ (faults > 0 /\ faults' = faults - 1),
           down' = Unrestored(op.name)
    PROVE  IInv'
<1>1. op.at \in Single
    BY DEF Single
<1> PICK n, c : n = op.name /\ c = op.old
    OBVIOUS
<1>2. n \in Names /\ c \in Maps /\ n \in DOMAIN c /\ c[n] \in Defs
    BY <1>1, SingleFacts DEF IInv, Books, SingleInv
<1>3. down \subseteq down' /\ down' \subseteq down \cup {n}
    BY DEF Unrestored
<1>4. n \in down => c[n].enabled
    BY DEF IInv, Books, DownInv, Base, Held
<1>5. n \notin down' => ~Runs(c[n]) /\ ~Scheduled(c[n])
    BY <1>2, DefKinds DEF Unrestored
<1>6. n \in down' => c[n].enabled
    BY <1>2, <1>4, DefKinds DEF Unrestored
<1>7. Fine(config, n)'
    BY <1>5 DEF Fine, AgreesWith
<1>8. \A q \in Names \ {n} : Kept(q) /\ SameAt(op.old, config', q)
    BY DEF SameAt
<1> QED BY <1>1, <1>2, <1>3, <1>6, <1>7, <1>8, SingleCloses

LEMMA UpdateToScheduleKeeps ==
    ASSUME IInv, UpdateToSchedule
    PROVE  IInv'
<1>1. op.at \in {"update", "replace"} /\ op.at \in Single /\ op' = Idle
    BY DEF UpdateToSchedule, Unlock, Single
<1> PICK n : n = op.name
    OBVIOUS
<1>2. processes[n] = None
    BY <1>1 DEF UpdateToSchedule, IInv, Books, SingleInv
<1>3. /\ n \in Names /\ config \in Maps /\ jobs \in [Names -> Defs \cup {NoDef}]
      /\ op.def \in Defs /\ n \in DOMAIN config /\ config[n] = op.def
      /\ \A q \in Names \ {n} : SameAt(op.old, config, q)
    BY <1>1, SingleFacts
<1>4. World' /\ \A q \in Names : jobs'[q] = jobs[q] => Kept(q)
    BY WorldSame DEF UpdateToSchedule, IInv, World, CallType
<1>5. CASE /\ jobs' = [jobs EXCEPT ![op.name] = op.def]
           /\ down' = down \ {op.name}
           /\ UNCHANGED <<config, faults>>
    <2>1. jobs' \in [Names -> Defs \cup {NoDef}] /\ jobs'[n] = op.def
          /\ \A q \in Names \ {n} : jobs'[q] = jobs[q]
        BY <1>3, <1>5
    <2>2. Fine(config, n)'
        BY <1>2, <1>3, <1>5, <2>1, DefKinds DEF UpdateToSchedule, Fine, AgreesWith
    <2>3. \A q \in Names \ {n} : Kept(q) /\ SameAt(op.old, config', q)
        BY <1>3, <1>4, <1>5, <2>1
    <2> QED BY <1>1, <1>3, <1>4, <1>5, <2>1, <2>2, <2>3, SingleCloses DEF UpdateToSchedule
<1>6. CASE /\ RegisterFails
           /\ jobs' = [jobs EXCEPT ![op.name] = NoDef]
           /\ config' = op.old
           /\ down' = Unrestored(op.name)
    <2>1. jobs' \in [Names -> Defs \cup {NoDef}] /\ jobs'[n] = NoDef
          /\ \A q \in Names \ {n} : jobs'[q] = jobs[q]
        BY <1>3, <1>6
    <2> QED BY <1>1, <1>2, <1>4, <1>6, <2>1, UnrestoredCloses DEF UpdateToSchedule, RegisterFails
<1> QED BY <1>5, <1>6 DEF UpdateToSchedule

LEMMA UpdateOnlyKeeps ==
    ASSUME IInv, UpdateOnly
    PROVE  IInv'
<1>1. op.at \in {"update", "replace"} /\ op.at \in Single /\ op' = Idle
    BY DEF UpdateOnly, Unlock, Single
<1> PICK n : n = op.name
    OBVIOUS
<1>2. processes[n] = None
    BY <1>1 DEF UpdateOnly, IInv, Books, SingleInv
<1>3. /\ n \in Names /\ config \in Maps /\ jobs \in [Names -> Defs \cup {NoDef}]
      /\ op.def \in Defs /\ n \in DOMAIN config /\ config[n] = op.def
      /\ \A q \in Names \ {n} : SameAt(op.old, config, q)
    BY <1>1, SingleFacts
<1>4. ~Scheduled(op.def) /\ (op.def.enabled => Runs(op.def))
    BY DEF UpdateOnly, Scheduled, Runs
<1>5. jobs[n] = NoDef
    BY <1>1, <1>4 DEF IInv, Books, SingleInv
<1>6. CASE op.def.enabled
    <2>1. PICK s \in Sups : Enters(s, op.name, op.def, FALSE)
        BY <1>6 DEF UpdateOnly, Registers, newConfiguredSupervisor, Enters
    <2> PICK d \in Defs : d = op.def
        BY <1>3
    <2>2. Runs(d) /\ FALSE \in BOOLEAN
        BY <1>4, <1>6
    <2>3. down' = down \ {op.name} /\ UNCHANGED <<config, jobs, call, ops, faults, lost, stray>>
        BY DEF UpdateOnly
    <2> QED BY <1>1, <1>2, <1>3, <1>5, <2>1, <2>2, <2>3, RegisteredCloses
<1>7. CASE ~op.def.enabled
    <2>1. World' /\ \A q \in Names : Kept(q)
        BY <1>7, WorldSame DEF UpdateOnly, IInv, World, CallType
    <2>2. Fine(config, n)'
        BY <1>2, <1>3, <1>4, <1>5, <1>7 DEF UpdateOnly, Fine, AgreesWith, Runs
    <2> QED BY <1>1, <1>3, <1>7, <2>1, <2>2, SingleCloses DEF UpdateOnly
<1> QED BY <1>6, <1>7

LEMMA UpdateStartsKeeps ==
    ASSUME IInv, UpdateStarts
    PROVE  IInv'
<1>1. op.at \in {"update", "replace"} /\ op.at \in Single /\ op' = Idle /\ Runs(op.def)
    BY DEF UpdateStarts, Starting, Unlock, Single
<1> PICK n : n = op.name
    OBVIOUS
<1>2. processes[n] = None
    BY <1>1 DEF UpdateStarts, Starting, IInv, Books, SingleInv
<1>3. op.def \in Defs /\ n \in DOMAIN config /\ config[n] = op.def
    BY <1>1, SingleFacts
<1>4. ~Scheduled(op.def)
    BY <1>1, <1>3, DefKinds
<1>5. jobs[n] = NoDef
    BY <1>1, <1>4 DEF IInv, Books, SingleInv
<1>6. PICK s \in Sups : Enters(s, op.name, op.def, TRUE)
    BY DEF UpdateStarts, StartsNew, Started, newConfiguredSupervisor, Enters
<1>7. down' = down \ {op.name} /\ UNCHANGED <<config, jobs, call, ops, faults, lost, stray>>
    BY DEF UpdateStarts, StartsNew, Started
<1> PICK d \in Defs, u \in BOOLEAN : d = op.def /\ u = TRUE
    BY <1>3
<1> QED BY <1>1, <1>2, <1>3, <1>5, <1>6, <1>7, RegisteredCloses

LEMMA UpdateRestoresKeeps ==
    ASSUME IInv, UpdateRestores
    PROVE  IInv'
<1>1. op.at = "restore" /\ op.at \in Single /\ op' = Idle
    BY DEF UpdateRestores, Unlock, Single
<1> PICK n : n = op.name
    OBVIOUS
<1>2. processes[n] = None /\ jobs[n] = NoDef /\ n \in DOMAIN op.old /\ config = op.old
      /\ (n \in stray \/ Runs(op.old[n]))
    BY <1>1 DEF IInv, Books, SingleInv
<1>3. n \in Names /\ config[n] \in Defs
    BY <1>1, <1>2, SingleFacts
<1> PICK d \in Defs : d = config[n]
    BY <1>3
<1>4. PICK s \in Sups : Enters(s, op.name, d, TRUE)
    BY <1>2 DEF UpdateRestores, StartsNew, Started, newConfiguredSupervisor, Enters
<1>5. down' = down /\ UNCHANGED <<config, jobs, call, ops, faults, lost, stray>>
    BY DEF UpdateRestores, StartsNew, Started
<1>6. CASE Runs(d)
    BY <1>1, <1>2, <1>3, <1>4, <1>5, <1>6, RegisteredCloses
<1>7. CASE n \in stray
    <2>1. World' /\ \A q \in Names \ {n} : jobs'[q] = jobs[q] => Kept(q)
        BY <1>3, <1>4, <1>5, <1>7, WorldRegister DEF IInv
    <2>2. \A q \in Names \ {n} : Kept(q) /\ SameAt(op.old, config', q)
        BY <1>2, <1>5, <2>1 DEF SameAt
    <2>3. config \in Maps /\ jobs \in [Names -> Defs \cup {NoDef}]
        BY DEF IInv, Bounds
    <2>4. n \in down => n \in DOMAIN config /\ config[n].enabled
        BY <1>1, <1>2 DEF IInv, Books, SingleInv
    <2> QED BY <1>1, <1>5, <1>7, <2>1, <2>2, <2>3, <2>4, SingleCloses
<1> QED BY <1>2, <1>6, <1>7

(* A start that failed in vain changes no entry.                           *)
LEMMA WorldInVain ==
    ASSUME World, NEW p \in Names, NEW d \in Defs, NEW left \in BOOLEAN, StartsNewInVain(p, d, left),
           processes' = processes, call' = call, stray' = stray, jobs' = jobs
    PROVE  World' /\ \A q \in Names : Kept(q)
<1>1. PICK s \in Sups, goesOn \in BOOLEAN :
          /\ Free(s) /\ StartFails(s, p, d, left, goesOn)
          /\ lost' = IF left THEN lost \cup {s} ELSE lost
    BY DEF StartsNewInVain, newConfiguredSupervisor
<1> PICK e \in Defs \cup {NoDef} : e = d
    OBVIOUS
<1> QED BY <1>1, WorldStartInVain DEF StartFails

LEMMA UpdateRestoreFailsKeeps ==
    ASSUME IInv, NEW left \in BOOLEAN, UpdateRestoreFails(left)
    PROVE  IInv'
<1>1. op.at = "restore" /\ op.at \in Single /\ op' = Idle
    BY DEF UpdateRestoreFails, Unlock, Single
<1> PICK n : n = op.name
    OBVIOUS
<1>2. processes[n] = None /\ jobs[n] = NoDef /\ n \in DOMAIN op.old /\ config = op.old /\ op.old[n].enabled
    BY <1>1 DEF IInv, Books, SingleInv
<1>3. n \in Names /\ op.old[n] \in Defs /\ config \in Maps /\ jobs \in [Names -> Defs \cup {NoDef}]
    BY <1>1, <1>2, SingleFacts
<1>4. World' /\ \A q \in Names : Kept(q)
    <2> PICK d \in Defs : d = op.old[n]
        BY <1>3
    <2> QED BY <1>3, WorldInVain DEF UpdateRestoreFails, IInv
<1>5. Fine(config, n)'
    BY <1>2 DEF UpdateRestoreFails, Fine
<1>6. \A q \in Names \ {n} : Kept(q) /\ SameAt(op.old, config', q)
    BY <1>2, <1>4 DEF UpdateRestoreFails, SameAt
<1>7. faults' = faults \/ (faults > 0 /\ faults' = faults - 1)
    BY DEF UpdateRestoreFails, StartsNewInVain, StartFails
<1> QED BY <1>1, <1>2, <1>3, <1>4, <1>5, <1>6, <1>7, SingleCloses DEF UpdateRestoreFails

LEMMA UpdateStartFailsKeeps ==
    ASSUME IInv, NEW left \in BOOLEAN, UpdateStartFails(left)
    PROVE  IInv'
<1>1. op.at \in {"update", "replace"} /\ op.at \in Single /\ Runs(op.def)
    BY DEF UpdateStartFails, Starting, Single
<1> PICK n : n = op.name
    OBVIOUS
<1>2. processes[n] = None
    BY <1>1 DEF UpdateStartFails, Starting, IInv, Books, SingleInv
<1>3. op.def \in Defs /\ n \in Names /\ jobs \in [Names -> Defs \cup {NoDef}] /\ op.old \in Maps
    BY <1>1, SingleFacts
<1>4. ~Scheduled(op.def)
    BY <1>1, <1>3, DefKinds
<1>5. jobs[n] = NoDef
    BY <1>1, <1>4 DEF IInv, Books, SingleInv
<1>6. World' /\ \A q \in Names : Kept(q)
    <2> PICK d \in Defs : d = op.def
        BY <1>3
    <2> QED BY <1>3, WorldInVain DEF UpdateStartFails, IInv
<1>7. faults' = faults \/ (faults > 0 /\ faults' = faults - 1)
    BY DEF UpdateStartFails, StartsNewInVain, StartFails
<1>8. CASE op.at = "replace" /\ op.old[op.name].enabled
    <2>1. /\ OpType' /\ op'.at = "restore" /\ op'.name = n /\ op'.old = op.old /\ down' = down
        BY <1>8 DEF UpdateStartFails, Goto, IInv, OpType, Stages
    <2>2. Touched = {n} /\ Touched' = {n} /\ Base = op.old /\ Base' = op.old
        BY <1>8, <2>1 DEF Touched, Base, Held, Single
    <2>3. DownInv'
        BY <2>1, <2>2 DEF IInv, Books, DownInv
    <2>4. OthersInv'
        BY <1>6, <2>1, <2>2, OthersKept DEF UpdateStartFails, IInv, Books, SameAt
    <2>5. SingleInv'
        BY <1>2, <1>3, <1>5, <1>8, <2>1 DEF UpdateStartFails, IInv, Books, SingleInv, Single
    <2>6. StopInv' /\ StartInv' /\ RbStopInv' /\ RbStartInv'
        BY <2>1 DEF StopInv, StartInv, RbStopInv, RbStartInv
    <2>7. Bounds'
        BY <1>3, <1>7, <2>1, BoundsKept DEF UpdateStartFails, IInv, Bounds
    <2> QED BY <1>6, <2>1, <2>3, <2>4, <2>5, <2>6, <2>7 DEF IInv, Books
<1>9. CASE ~(op.at = "replace" /\ op.old[op.name].enabled)
    <2>1. op' = Idle /\ down' = Unrestored(op.name)
        BY <1>9 DEF UpdateStartFails, Unlock
    <2> QED BY <1>1, <1>2, <1>3, <1>5, <1>6, <1>7, <2>1, UnrestoredCloses DEF UpdateStartFails
<1> QED BY <1>8, <1>9
-----------------------------------------------------------------------------
(* Reload and rollback.                                                    *)

Multi == {"stop", "start", "rbstop", "rbstart"}

(* The nodes of the graph are the enabled processes.                       *)
LEMMA GraphNodes ==
    ASSUME NEW c \in Maps
    PROVE  /\ Nodes(AsGraph(c)) = {p \in DOMAIN c : c[p].enabled}
           /\ Nodes(AsGraph(c)) \subseteq Names /\ Ordered(c) \subseteq DOMAIN c
<1>1. Nodes(AsGraph(c)) = {p \in DOMAIN c : c[p].enabled}
    BY DEF Nodes, AsGraph, NewGraph
<1> QED BY <1>1, MapValues DEF Ordered

(* A step of a reload or rollback leaves alone what it has not touched.    *)
LEMMA MultiStep ==
    ASSUME IInv, op.at \in Multi, op'.at \in Multi, OpType', World', config' \in Maps,
           jobs' \in [Names -> Defs \cup {NoDef}], ops' = ops,
           faults' = faults \/ (faults > 0 /\ faults' = faults - 1),
           NEW c, c = op.old, op'.old = c,
           stray \subseteq stray', stray' \subseteq Names, op'.touched \subseteq op.touched,
           \A p \in Names \ op.touched : Kept(p),
           \A p \in op.touched \ (op'.touched \cup stray') : Fine(c, p)',
           down \subseteq down', down' \subseteq {p \in DOMAIN c : c[p].enabled},
           StopInv', StartInv', RbStopInv', RbStartInv'
    PROVE  IInv'
<1>1. Touched = op.touched /\ Touched' = op'.touched /\ Base = c /\ Base' = c
    BY DEF Multi, Touched, Base, Held, Single
<1>2. c \in Maps /\ op.touched \subseteq Names
    BY DEF IInv, OpType
<1>3. DownInv'
    BY <1>1 DEF DownInv
<1>4. OthersInv'
    <2>1. ASSUME NEW p \in Names \ (Touched' \cup stray')
          PROVE  IF p \in Touched THEN Fine(Base, p)'
                 ELSE SameAt(Base, Base', p) /\ Kept(p) /\ (p \in down => p \in down')
        <3>1. CASE p \in op.touched
            <4>1. Fine(c, p)'
                BY <1>1, <3>1
            <4> QED BY <1>1, <3>1, <4>1 DEF Fine, AgreesWith
        <3>2. CASE p \notin op.touched
            BY <1>1, <3>2 DEF SameAt
        <3> QED BY <3>1, <3>2
    <2> QED BY <2>1, OthersKept DEF IInv, Books
<1>5. SingleInv'
    BY DEF SingleInv, Single, Multi
<1>6. Bounds'
    BY <1>2, BoundsKept, MapValues DEF IInv, Bounds, Multi
<1> QED BY <1>3, <1>4, <1>5, <1>6 DEF IInv, Books

LEMMA MultiFacts ==
    ASSUME IInv, op.at \in Multi
    PROVE  /\ op.old \in Maps /\ op.new \in Maps /\ op.todo \subseteq Names /\ op.touched \subseteq Names
           /\ config \in Maps /\ jobs \in [Names -> Defs \cup {NoDef}] /\ stray \subseteq Names
           /\ down \subseteq {p \in DOMAIN op.old : op.old[p].enabled}
BY DEF IInv, Bounds, OpType, Books, DownInv, Base, Held, Multi

LEMMA ReloadConfigKeeps ==
    ASSUME IInv, NEW new \in Configs, ReloadConfig(new)
    PROVE  IInv'
<1> DEFINE t == Removed(new) \cup Changed(new) \cup Added(new)
           td == (Removed(new) \cup Changed(new)) \cap Ordered(config)
<1>1. /\ ~Held /\ op = Idle /\ Base = config /\ Touched = {} /\ config \in Maps /\ new \in Maps
      /\ \A p \in Names \ stray : Fine(config, p)
    BY AllFine, ReloadAssumption DEF ReloadConfig, IInv, Bounds
<1>2. t \subseteq Names /\ td \subseteq Names /\ td \subseteq t /\ td \subseteq DOMAIN config
    BY <1>1, MapValues, GraphNodes DEF Removed, Changed, Added
<1>3. \A p \in Names \ t : SameAt(config, new, p)
    BY <1>1 DEF Removed, Changed, Added, SameAt
<1>4. op' = [Idle EXCEPT !.at = "stop", !.old = config, !.new = new, !.todo = td, !.touched = t]
    BY DEF ReloadConfig
<1>5. \A p \in t \ td : p \notin DOMAIN config \/ ~config[p].enabled
    BY <1>1, GraphNodes DEF Removed, Changed, Added, Ordered
<1> HIDE DEF t, td
<1>6. /\ OpType' /\ op'.at = "stop" /\ op'.old = config /\ op'.new = new /\ op'.todo = td
      /\ op'.touched = t /\ op'.failed = {} /\ op'.stuck = {}
    <2>1. op' \in [at : Stages, todo : SUBSET Names, old : Maps, new : Maps, touched : SUBSET Names,
                   stuck : SUBSET Names, failed : SUBSET Names, name : Names \cup {None},
                   def : Defs \cup {NoDef}]
        BY <1>1, <1>2, <1>4, IdleIsOp DEF Stages
    <2>2. /\ op'.at = "stop" /\ op'.old = config /\ op'.new = new /\ op'.todo = td
          /\ op'.touched = t /\ op'.failed = Idle.failed /\ op'.stuck = Idle.stuck
        BY <1>4, IdleIsOp
    <2> QED BY <2>1, <2>2 DEF OpType, Idle
<1>7. World' /\ \A q \in Names : Kept(q)
    BY WorldSame DEF ReloadConfig, IInv, World, CallType
<1>8. Base' = config /\ Touched' = t
    BY <1>6 DEF Base, Touched, Held, Single
<1>9. DownInv'
    BY <1>1, <1>8 DEF ReloadConfig, DownInv, IInv, Books
<1>10. OthersInv'
    BY <1>1, <1>7, <1>8, OthersKept DEF ReloadConfig, IInv, Books, SameAt
<1>11. \A p \in t \ (td \cup stray) : Bare(p)
    <2> SUFFICES ASSUME NEW p \in t \ (td \cup stray) PROVE Bare(p)
        OBVIOUS
    <2>1. p \notin DOMAIN config \/ ~config[p].enabled
        BY <1>5
    <2>2. p \notin down
        BY <1>1, <2>1 DEF IInv, Books, DownInv
    <2>3. AgreesWith(config, p)
        BY <1>1, <1>2, <2>2 DEF Fine
    <2> QED BY <1>1, <2>1, <2>3, AgreesBare
<1>12. SameElsewhere'
    BY <1>3, <1>6 DEF SameElsewhere
<1>13. td \subseteq Ordered(config)
    BY DEF td
<1>14. StopInv'
    BY <1>2, <1>6, <1>11, <1>12, <1>13 DEF ReloadConfig, StopInv, Bare
<1>15. SingleInv' /\ StartInv' /\ RbStopInv' /\ RbStartInv'
    BY <1>6 DEF SingleInv, StartInv, RbStopInv, RbStartInv, Single
<1>16. Bounds'
    BY <1>1, <1>6, BoundsKept DEF ReloadConfig, IInv, Bounds
<1> QED BY <1>6, <1>7, <1>9, <1>10, <1>14, <1>15, <1>16 DEF IInv, Books

LEMMA ReloadStopsKeeps ==
    ASSUME IInv, NEW p \in Names, ReloadStops(p)
    PROVE  IInv'
<1>1. op.at = "stop" /\ op.at \in Multi /\ p \in op.todo
    BY DEF ReloadStops, StopsNext, Multi
<1>2. jobs' \in [Names -> Defs \cup {NoDef}] /\ jobs'[p] = NoDef
      /\ \A q \in Names \ {p} : jobs'[q] = jobs[q]
    BY <1>1, MultiFacts DEF ReloadStops
<1>3. /\ OpType' /\ op'.at = "stop" /\ op'.old = op.old /\ op'.new = op.new /\ op'.todo = op.todo \ {p}
      /\ op'.touched = op.touched /\ op'.stuck = op.stuck
      /\ \/ op'.failed = op.failed
         \/ op'.failed = op.failed \cup {p}
    <2>1. \/ op' = [op EXCEPT !.todo = Rest(p)]
          \/ op' = [op EXCEPT !.todo = Rest(p), !.failed = @ \cup {p}]
        BY DEF ReloadStops
    <2>2. op.todo \ {p} \in SUBSET Names /\ op.failed \cup {p} \in SUBSET Names
        BY DEF IInv, OpType
    <2>3. CASE op' = [op EXCEPT !.todo = Rest(p)]
        BY <1>1, <2>2, <2>3 DEF IInv, OpType, Rest
    <2>4. CASE op' = [op EXCEPT !.todo = Rest(p), !.failed = @ \cup {p}]
        BY <1>1, <2>2, <2>4 DEF IInv, OpType, Rest
    <2> QED BY <2>1, <2>3, <2>4
<1>4. /\ World' /\ (processes'[p] = None \/ p \in op'.failed)
      /\ \A q \in Names \ {p} : Kept(q)
    <2>1. CASE processes[p] # None /\ Refuses(processes[p])
               /\ op' = [op EXCEPT !.todo = Rest(p), !.failed = @ \cup {p}] /\ UNCHANGED processes
        <3>1. p \in op'.failed
            BY <2>1 DEF IInv, OpType
        <3> QED BY <1>2, <2>1, <3>1, WorldSame DEF ReloadStops, Refuses, IInv, World, CallType
    <2>2. CASE processes[p] = None /\ UNCHANGED <<processes, sup, faults>>
        BY <1>2, <2>2, WorldSame DEF ReloadStops, IInv, World, CallType
    <2>3. CASE processes[p] # None /\ Stopped(processes[p]) /\ processes' = [processes EXCEPT ![p] = None]
        BY <1>2, <2>3, WorldDrop DEF ReloadStops, IInv
    <2> QED BY <2>1, <2>2, <2>3 DEF ReloadStops
<1>5. StopInv
    BY DEF IInv, Books
<1>6. StopInv'
    <2>1. SameElsewhere'
        BY <1>1, <1>3, <1>5 DEF StopInv, SameElsewhere
    <2>2. /\ config' = op.old /\ op.new \in Configs /\ op.stuck = {}
          /\ op.todo \cup op.failed \subseteq DOMAIN op.old
          /\ op.todo \subseteq op.touched \cap Ordered(op.old)
        BY <1>1, <1>5 DEF StopInv, ReloadStops
    <2>3. op'.failed \subseteq DOMAIN op.old
        BY <1>1, <1>3, <2>2
    <2>4. ASSUME NEW q \in op.touched, q \notin op.todo \ {p}, q \notin stray
          PROVE  jobs'[q] = NoDef /\ (processes'[q] = None \/ q \in op'.failed)
        <3>1. CASE q = p
            BY <1>2, <1>4, <3>1
        <3>2. CASE q # p
            <4>1. jobs[q] = NoDef /\ (processes[q] = None \/ q \in op.failed)
                BY <1>1, <1>5, <2>4, <3>2 DEF StopInv
            <4>2. q \in Names
                BY <1>1, MultiFacts
            <4> QED BY <1>3, <1>4, <3>2, <4>1, <4>2 DEF Kept
        <3> QED BY <3>1, <3>2
    <2>5. stray' = stray
        BY DEF ReloadStops
    <2> QED BY <1>3, <2>1, <2>2, <2>3, <2>4, <2>5 DEF StopInv
<1>7. StartInv' /\ RbStopInv' /\ RbStartInv'
    BY <1>3 DEF StartInv, RbStopInv, RbStartInv
<1>8. faults' = faults \/ (faults > 0 /\ faults' = faults - 1)
    BY DEF ReloadStops, Stopped, Refuses
<1>9. p \in op.touched
    BY <1>1, <1>5 DEF StopInv
<1> PICK c : c = op.old
    OBVIOUS
<1>10. config' \in Maps /\ op'.at \in Multi /\ down' = down /\ stray' = stray /\ ops' = ops
    BY <1>1, <1>3, MultiFacts DEF ReloadStops
<1>11. /\ op'.touched \subseteq op.touched /\ op'.old = c /\ OpType' /\ World'
       /\ \A q \in Names \ op.touched : Kept(q)
       /\ \A q \in op.touched \ (op'.touched \cup stray') : Fine(c, q)'
    BY <1>3, <1>4, <1>9
<1>12. stray \subseteq stray' /\ stray' \subseteq Names /\ down \subseteq down'
       /\ down' \subseteq {q \in DOMAIN c : c[q].enabled}
    BY <1>1, <1>10, MultiFacts
<1> QED BY <1>1, <1>2, <1>6, <1>7, <1>8, <1>10, <1>11, <1>12, MultiStep

LEMMA ReloadAbortsKeeps ==
    ASSUME IInv, ReloadAborts
    PROVE  IInv'
<1>1. op.at = "stop" /\ op.at \in Multi /\ op.todo = {}
    BY DEF ReloadAborts, Multi
<1> PICK c : c = op.old
    OBVIOUS
<1> DEFINE t == op.touched \cap DOMAIN c
<1>2. StopInv /\ config = c /\ c \in Maps /\ config \in Maps /\ jobs \in [Names -> Defs \cup {NoDef}]
    BY <1>1, MultiFacts DEF IInv, Books, StopInv
<1>3. op' = [op EXCEPT !.at = "rbstop", !.touched = t, !.todo = t]
    BY <1>2 DEF ReloadAborts, Rollback
<1>4. t \subseteq Names
    BY <1>1, MultiFacts
<1> HIDE DEF t
<1>5. /\ OpType' /\ op'.at = "rbstop" /\ op'.old = c /\ op'.todo = t /\ op'.touched = t /\ op'.stuck = op.stuck
    BY <1>3, <1>4 DEF IInv, OpType, Stages
<1>6. World' /\ \A q \in Names : Kept(q)
    BY WorldSame DEF ReloadAborts, IInv, World, CallType
<1>7. RbStopInv'
    BY <1>1, <1>2, <1>5 DEF RbStopInv, StopInv
<1>8. SingleInv' /\ StopInv' /\ StartInv' /\ RbStartInv'
    BY <1>5 DEF SingleInv, StopInv, StartInv, RbStartInv, Single
<1>9. ASSUME NEW p \in op.touched \ (t \cup stray)
      PROVE  Fine(c, p)'
    <2>1. Bare(p) /\ p \notin DOMAIN c
        BY <1>1, <1>2 DEF StopInv, t, Bare
    <2>2. AgreesWith(c, p)
        BY <1>2, <2>1, BareAgrees
    <2> QED BY <2>2 DEF ReloadAborts, Fine, AgreesWith
<1>10. /\ config' \in Maps /\ op'.at \in Multi /\ down' = down /\ stray' = stray /\ ops' = ops
       /\ faults' = faults /\ jobs' = jobs /\ t \subseteq op.touched
    BY <1>2, <1>5 DEF ReloadAborts, Multi, t
<1> QED BY <1>1, <1>2, <1>5, <1>6, <1>7, <1>8, <1>9, <1>10, MultiStep, MultiFacts

LEMMA ReloadSwapsKeeps ==
    ASSUME IInv, ReloadSwaps
    PROVE  IInv'
<1>1. op.at = "stop" /\ op.at \in Multi /\ op.todo = {} /\ op.failed = {}
    BY DEF ReloadSwaps, Multi
<1> PICK c, new, td : c = op.old /\ new = op.new /\ td = op.touched \cap Nodes(AsGraph(new))
    OBVIOUS
<1>2. /\ StopInv /\ config = c /\ c \in Maps /\ new \in Maps /\ jobs \in [Names -> Defs \cup {NoDef}]
      /\ op.touched \subseteq Names
    BY <1>1, MultiFacts DEF IInv, Books, StopInv
<1>3. op' = [op EXCEPT !.at = "start", !.todo = td]
    BY DEF ReloadSwaps
<1>4. td \subseteq Names /\ td \subseteq op.touched
    BY <1>2
<1>5. \A p \in op.touched \ td : p \notin DOMAIN new \/ ~new[p].enabled
    BY <1>2, GraphNodes
<1>6. /\ OpType' /\ op'.at = "start" /\ op'.old = c /\ op'.new = new /\ op'.todo = td
      /\ op'.touched = op.touched /\ op'.stuck = op.stuck
    BY <1>3, <1>4 DEF IInv, OpType, Stages
<1>7. World' /\ \A q \in Names : Kept(q)
    BY WorldSame DEF ReloadSwaps, IInv, World, CallType
<1>8. \A p \in op.touched \ stray : Bare(p)
    BY <1>1, <1>2 DEF StopInv, Bare
<1>9. StartInv'
    <2>1. SameElsewhere' /\ op.stuck = {} /\ new \in Configs
        BY <1>1, <1>2, <1>6 DEF StopInv, SameElsewhere
    <2>2. ASSUME NEW p \in op.touched \ stray
          PROVE  (IF p \in td THEN Bare(p) ELSE AgreesWith(new, p))'
        <3>1. CASE p \in td
            BY <1>8, <3>1 DEF ReloadSwaps, Bare
        <3>2. CASE p \notin td
            <4>1. AgreesWith(new, p)
                BY <1>2, <1>5, <1>8, <3>2, BareAgrees
            <4> QED BY <3>2, <4>1 DEF ReloadSwaps, AgreesWith
        <3> QED BY <3>1, <3>2
    <2>3. config' = new /\ stray' = stray
        BY DEF ReloadSwaps
    <2>4. \A p \in op.touched \ stray : IF p \in td THEN Bare(p)' ELSE AgreesWith(new, p)'
        BY <2>2
    <2>5. td \subseteq op.touched \cap Nodes(AsGraph(new))
        OBVIOUS
    <2> QED BY <1>6, <2>1, <2>3, <2>4, <2>5 DEF StartInv, AgreesWith, Bare
<1>10. SingleInv' /\ StopInv' /\ RbStopInv' /\ RbStartInv'
    BY <1>6 DEF SingleInv, StopInv, RbStopInv, RbStartInv, Single
<1>11. /\ config' \in Maps /\ op'.at \in Multi /\ down' = down /\ stray' = stray /\ ops' = ops
       /\ faults' = faults /\ jobs' = jobs
    BY <1>2, <1>6 DEF ReloadSwaps, Multi
<1> QED BY <1>1, <1>2, <1>6, <1>7, <1>9, <1>10, <1>11, MultiStep, MultiFacts
(* The job or the supervisor of a definition is there.                     *)
LEMMA BringsUpAgrees ==
    ASSUME World, jobs \in [Names -> Defs \cup {NoDef}], NEW p \in Names, NEW c \in Maps, p \in DOMAIN c,
           NEW waits, BringsUp(p, c[p], waits), p \in stray \/ Bare(p), UNCHANGED <<call, lost, stray>>
    PROVE  /\ World' /\ jobs' \in [Names -> Defs \cup {NoDef}] /\ faults' = faults
           /\ \A q \in Names \ {p} : Kept(q)
           /\ p \in stray \/ AgreesWith(c, p)'
<1>1. c[p] \in Defs
    BY MapValues
<1>2. CASE Scheduled(c[p]) /\ jobs' = [jobs EXCEPT ![p] = c[p]] /\ UNCHANGED <<processes, sup, faults>>
    <2>1. World' /\ \A q \in Names : jobs'[q] = jobs[q] => Kept(q)
        BY <1>2, WorldSame DEF World, CallType
    <2>2. jobs' \in [Names -> Defs \cup {NoDef}] /\ jobs'[p] = c[p] /\ \A q \in Names \ {p} : jobs'[q] = jobs[q]
        BY <1>1, <1>2
    <2>3. p \in stray \/ AgreesWith(c, p)'
        BY <1>1, <1>2, <2>2, DefKinds DEF Bare, AgreesWith
    <2> QED BY <1>2, <2>1, <2>2, <2>3
<1>3. ASSUME NEW s \in Sups, Runs(c[p]), newConfiguredSupervisor(s),
             processes' = [processes EXCEPT ![p] = s],
             sup' = [sup EXCEPT ![s] = [name |-> p, def |-> c[p], up |-> c[p].mode = "running"]],
             UNCHANGED <<jobs, faults>>
      PROVE  /\ World' /\ \A q \in Names \ {p} : Kept(q)
             /\ p \in stray \/ AgreesWith(c, p)'
    <2> DEFINE u == c[p].mode = "running"
    <2>1. u \in BOOLEAN /\ Enters(s, p, c[p], u)
        BY <1>3 DEF Enters, newConfiguredSupervisor
    <2> HIDE DEF u
    <2> PICK d \in Defs \cup {NoDef} : d = c[p]
        BY <1>1
    <2>2. p \in stray \/ processes[p] = None
        BY DEF Bare
    <2>3. /\ World' /\ processes'[p] # None /\ sup'[processes'[p]].def = d
          /\ \A q \in Names \ {p} : jobs'[q] = jobs[q] => Kept(q)
        BY <2>1, <2>2, WorldRegister
    <2>4. p \in stray \/ AgreesWith(c, p)'
        BY <1>1, <1>3, <2>3, DefKinds DEF Bare, AgreesWith
    <2> QED BY <1>3, <2>3, <2>4
<1> QED BY <1>2, <1>3 DEF BringsUp

(* It is not: but whatever has been started is registered.                 *)
LEMMA FailureIsRegistered ==
    ASSUME World, NEW p \in Names, NEW c \in Maps, p \in DOMAIN c,
           NEW waits, FailsToBringUp(p, c[p], waits), p \in stray \/ Bare(p), UNCHANGED <<call, lost, stray>>
    PROVE  /\ World' /\ jobs' = jobs /\ (faults' = faults \/ (faults > 0 /\ faults' = faults - 1))
           /\ \A q \in Names \ {p} : Kept(q)
           /\ p \in stray \/ processes'[p] = None \/ Runs(c[p])
<1>1. c[p] \in Defs
    BY MapValues
<1>2. jobs' = jobs
    BY DEF FailsToBringUp
<1>3. faults' = faults \/ (faults > 0 /\ faults' = faults - 1)
    BY DEF FailsToBringUp, WaitFails, RegisterFails, StartFails
<1>4. CASE UNCHANGED <<processes, sup>>
    <2>1. World' /\ \A q \in Names : Kept(q)
        BY <1>2, <1>4, WorldSame DEF World, CallType
    <2> QED BY <1>2, <1>3, <1>4, <2>1 DEF Bare
<1>5. ASSUME Runs(c[p]), NEW s \in Sups, NEW left \in BOOLEAN, NEW goesOn \in BOOLEAN,
             newConfiguredSupervisor(s), StartFails(s, p, c[p], left, goesOn),
             processes' = [processes EXCEPT ![p] = s]
      PROVE  World' /\ \A q \in Names \ {p} : Kept(q)
    <2>1. Enters(s, p, c[p], left)
        BY <1>5 DEF Enters, newConfiguredSupervisor, StartFails
    <2> PICK d \in Defs \cup {NoDef} : d = c[p]
        BY <1>1
    <2>2. p \in stray \/ processes[p] = None
        BY DEF Bare
    <2>3. World' /\ \A q \in Names \ {p} : jobs'[q] = jobs[q] => Kept(q)
        BY <2>1, <2>2, WorldRegister
    <2> QED BY <1>2, <2>3
<1> QED BY <1>2, <1>3, <1>4, <1>5 DEF FailsToBringUp

LEMMA ReloadStartsKeeps ==
    ASSUME IInv, NEW p \in Names, ReloadStarts(p)
    PROVE  IInv'
<1>1. op.at = "start" /\ op.at \in Multi /\ p \in op.todo
    BY DEF ReloadStarts, StartsNext, Multi
<1> PICK c, new, t : c = op.old /\ new = op.new /\ t = op.touched
    OBVIOUS
<1>2. /\ StartInv /\ config = new /\ new \in Maps /\ c \in Maps /\ config \in Maps
      /\ jobs \in [Names -> Defs \cup {NoDef}] /\ t \subseteq Names
    BY <1>1, MultiFacts DEF IInv, Books, StartInv
<1>3. p \in t /\ p \in DOMAIN new /\ (p \in stray \/ Bare(p))
    BY <1>1, <1>2, GraphNodes DEF StartInv
<1>4. /\ OpType' /\ op'.at = "start" /\ op'.old = c /\ op'.new = new /\ op'.todo = op.todo \ {p}
      /\ op'.touched = t /\ op'.stuck = op.stuck
    BY <1>1 DEF ReloadStarts, Rest, IInv, OpType
<1>5. UNCHANGED <<call, lost, stray, down, config, ops>>
    BY DEF ReloadStarts
<1>6. /\ World' /\ jobs' \in [Names -> Defs \cup {NoDef}] /\ faults' = faults
      /\ \A q \in Names \ {p} : Kept(q)
      /\ p \in stray \/ AgreesWith(new, p)'
    <2>1. BringsUp(p, new[p], TRUE)
        BY DEF ReloadStarts
    <2> QED BY <1>2, <1>3, <1>5, <2>1, BringsUpAgrees DEF IInv
<1>7. StartInv'
    <2>1. SameElsewhere' /\ op.stuck = {} /\ new \in Configs
          /\ op.todo \subseteq t \cap Nodes(AsGraph(new))
        BY <1>1, <1>2, <1>4 DEF StartInv, SameElsewhere
    <2>2. ASSUME NEW q \in t \ stray
          PROVE  IF q \in op'.todo THEN Bare(q)' ELSE AgreesWith(new, q)'
        <3>1. CASE q = p
            BY <1>4, <1>6, <3>1
        <3>2. CASE q # p
            <4>1. q \in Names /\ Kept(q)
                BY <1>2, <1>6, <3>2
            <4>2. IF q \in op.todo THEN Bare(q) ELSE AgreesWith(new, q)
                BY <1>1, <1>2 DEF StartInv
            <4>3. CASE q \in op.todo
                BY <1>4, <3>2, <4>1, <4>2, <4>3 DEF Bare, Kept
            <4>4. CASE q \notin op.todo
                BY <1>4, <4>1, <4>2, <4>4, AgreesKept
            <4> QED BY <4>3, <4>4
        <3> QED BY <3>1, <3>2
    <2> QED BY <1>2, <1>4, <1>5, <2>1, <2>2 DEF StartInv, AgreesWith, Bare
<1>8. StopInv' /\ RbStopInv' /\ RbStartInv'
    BY <1>4 DEF StopInv, RbStopInv, RbStartInv
<1>9. /\ op'.touched \subseteq op.touched /\ op'.old = c /\ op'.at \in Multi
      /\ \A q \in Names \ op.touched : Kept(q)
      /\ \A q \in op.touched \ (op'.touched \cup stray') : Fine(c, q)'
    BY <1>3, <1>4, <1>6 DEF Multi
<1>10. stray \subseteq stray' /\ stray' \subseteq Names /\ down \subseteq down'
       /\ down' \subseteq {q \in DOMAIN c : c[q].enabled} /\ config' \in Maps /\ ops' = ops
    BY <1>1, <1>2, <1>5, MultiFacts
<1> QED BY <1>1, <1>4, <1>6, <1>7, <1>8, <1>9, <1>10, MultiStep

LEMMA ReloadStartFailsKeeps ==
    ASSUME IInv, NEW p \in Names, ReloadStartFails(p)
    PROVE  IInv'
<1>1. op.at = "start" /\ op.at \in Multi /\ p \in op.todo
    BY DEF ReloadStartFails, StartsNext, Multi
<1> PICK c, new, t : c = op.old /\ new = op.new /\ t = op.touched
    OBVIOUS
<1>2. /\ StartInv /\ config = new /\ new \in Maps /\ c \in Maps /\ config \in Maps
      /\ jobs \in [Names -> Defs \cup {NoDef}] /\ t \subseteq Names
    BY <1>1, MultiFacts DEF IInv, Books, StartInv
<1>3. p \in t /\ p \in DOMAIN new /\ (p \in stray \/ Bare(p))
    BY <1>1, <1>2, GraphNodes DEF StartInv
<1>4. /\ OpType' /\ op'.at = "rbstop" /\ op'.old = c /\ op'.todo = t /\ op'.touched = t
      /\ op'.stuck = op.stuck
    BY <1>1, <1>2 DEF ReloadStartFails, Rollback, IInv, OpType, Stages
<1>5. UNCHANGED <<call, lost, stray, down, config, ops>>
    BY DEF ReloadStartFails
<1>6. /\ World' /\ jobs' = jobs /\ (faults' = faults \/ (faults > 0 /\ faults' = faults - 1))
      /\ \A q \in Names \ {p} : Kept(q)
    <2>1. FailsToBringUp(p, new[p], TRUE)
        BY DEF ReloadStartFails
    <2> QED BY <1>2, <1>3, <1>5, <2>1, FailureIsRegistered DEF IInv
<1>7. RbStopInv'
    BY <1>1, <1>2, <1>4 DEF RbStopInv, StartInv
<1>8. StopInv' /\ StartInv' /\ RbStartInv'
    BY <1>4 DEF StopInv, StartInv, RbStartInv
<1>9. /\ op'.touched \subseteq op.touched /\ op'.old = c /\ op'.at \in Multi
      /\ \A q \in Names \ op.touched : Kept(q)
      /\ \A q \in op.touched \ (op'.touched \cup stray') : Fine(c, q)'
    BY <1>3, <1>4, <1>6 DEF Multi
<1>10. stray \subseteq stray' /\ stray' \subseteq Names /\ down \subseteq down'
       /\ down' \subseteq {q \in DOMAIN c : c[q].enabled} /\ config' \in Maps /\ ops' = ops
       /\ jobs' \in [Names -> Defs \cup {NoDef}]
    BY <1>1, <1>2, <1>5, <1>6, MultiFacts
<1> QED BY <1>1, <1>4, <1>6, <1>7, <1>8, <1>9, <1>10, MultiStep

(* The last step of a reload or rollback.                                  *)
LEMMA MultiCloses ==
    ASSUME IInv, op.at \in Multi, op' = Idle, World', config' \in Maps, \A p \in Names : Kept(p),
           UNCHANGED <<jobs, ops, faults, stray>>,
           \A p \in Names \ op.touched : SameAt(op.old, config', p) /\ (p \in down => p \in down'),
           \A p \in op.touched \ stray : Fine(config, p)',
           down' \subseteq {p \in DOMAIN config' : config'[p].enabled}
    PROVE  IInv'
<1>1. Touched = op.touched /\ Base = op.old /\ jobs' \in [Names -> Defs \cup {NoDef}]
    BY MultiFacts DEF Multi, Touched, Base, Held, Single
<1>2. op'.at = "idle" /\ Touched' = {} /\ Base' = config'
    BY DEF Touched, Base, Held, Idle, Single
<1>3. DownInv' /\ down' \subseteq Names
    BY <1>2, MapValues DEF DownInv
<1>4. OthersInv'
    <2>1. ASSUME NEW p \in Names \ (Touched' \cup stray')
          PROVE  IF p \in Touched THEN Fine(Base, p)'
                 ELSE SameAt(Base, Base', p) /\ Kept(p) /\ (p \in down => p \in down')
        <3>1. CASE p \in op.touched
            <4>1. Fine(config, p)'
                BY <3>1
            <4> QED BY <1>1, <1>2, <3>1, <4>1 DEF Fine, AgreesWith
        <3>2. CASE p \notin op.touched
            BY <1>1, <1>2, <3>2
        <3> QED BY <3>1, <3>2
    <2> QED BY <2>1, OthersKept DEF IInv, Books
<1>5. Bounds'
    BY <1>1, <1>3, BoundsKept DEF IInv, Bounds
<1> QED BY <1>3, <1>4, <1>5, BooksClosed DEF IInv

LEMMA ReloadDoneKeeps ==
    ASSUME IInv, ReloadDone
    PROVE  IInv'
<1>1. op.at = "start" /\ op.at \in Multi /\ op.todo = {} /\ op' = Idle
    BY DEF ReloadDone, Unlock, Multi
<1> PICK c, new, t : c = op.old /\ new = op.new /\ t = op.touched
    OBVIOUS
<1>2. /\ StartInv /\ config = new /\ new \in Maps /\ config \in Maps /\ t \subseteq Names
      /\ down \subseteq {p \in DOMAIN c : c[p].enabled} /\ down \subseteq Names
    BY <1>1, MultiFacts DEF IInv, Books, StartInv, Bounds
<1>3. World' /\ \A q \in Names : Kept(q)
    BY WorldSame DEF ReloadDone, IInv, World, CallType
<1>4. \A p \in Names \ t : SameAt(c, new, p)
    BY <1>1, <1>2 DEF StartInv, SameElsewhere
<1>5. ASSUME NEW p \in t \ stray
      PROVE  Fine(config, p)'
    <2>1. AgreesWith(new, p)
        BY <1>1, <1>2 DEF StartInv
    <2> QED BY <1>2, <2>1 DEF ReloadDone, Fine, AgreesWith
<1>6. config' = new /\ down' = down \ t /\ UNCHANGED <<jobs, ops, faults, stray>>
    BY <1>2 DEF ReloadDone
<1>7. down' \subseteq {p \in DOMAIN new : new[p].enabled}
    BY <1>2, <1>4, <1>6 DEF SameAt
<1> QED BY <1>1, <1>2, <1>3, <1>4, <1>5, <1>6, <1>7, MultiCloses

LEMMA RollbackDoneKeeps ==
    ASSUME IInv, RollbackDone
    PROVE  IInv'
<1>1. op.at = "rbstart" /\ op.at \in Multi /\ op.todo = {} /\ op' = Idle
    BY DEF RollbackDone, Unlock, Multi
<1> PICK c, t : c = op.old /\ t = op.touched
    OBVIOUS
<1>2. /\ RbStartInv /\ config = c /\ config \in Maps /\ t \subseteq Names
      /\ down \subseteq {p \in DOMAIN c : c[p].enabled}
    BY <1>1, MultiFacts DEF IInv, Books, RbStartInv
<1>3. World' /\ \A q \in Names : Kept(q)
    BY WorldSame DEF RollbackDone, IInv, World, CallType
<1>4. ASSUME NEW p \in t \ stray
      PROVE  Fine(config, p)'
    <2>1. Fine(c, p)
        BY <1>1, <1>2 DEF RbStartInv
    <2> QED BY <1>2, <2>1 DEF RollbackDone, Fine, AgreesWith
<1>5. config' = c /\ down' = down /\ UNCHANGED <<jobs, ops, faults, stray>>
    BY <1>2 DEF RollbackDone
<1>6. \A p \in Names : SameAt(c, c, p)
    BY DEF SameAt
<1> QED BY <1>1, <1>2, <1>3, <1>4, <1>5, <1>6, MultiCloses
LEMMA RollbackStopsKeeps ==
    ASSUME IInv, NEW p \in Names, RollbackStops(p)
    PROVE  IInv'
<1>1. op.at = "rbstop" /\ op.at \in Multi /\ p \in op.todo
    BY DEF RollbackStops, StopsNext, Multi
<1> PICK c, t : c = op.old /\ t = op.touched
    OBVIOUS
<1>2. RbStopInv /\ t \subseteq Names /\ config \in Maps /\ stray \subseteq Names
      /\ jobs \in [Names -> Defs \cup {NoDef}] /\ down \subseteq {q \in DOMAIN c : c[q].enabled}
    BY <1>1, MultiFacts DEF IInv, Books
<1>3. jobs' \in [Names -> Defs \cup {NoDef}] /\ jobs'[p] = NoDef
      /\ \A q \in Names \ {p} : jobs'[q] = jobs[q]
    BY <1>2 DEF RollbackStops
<1>4. op.todo \ {p} \in SUBSET Names /\ op.stuck \cup {p} \in SUBSET Names
      /\ op.todo \subseteq t /\ op.stuck \subseteq stray
    BY <1>1, <1>2 DEF IInv, OpType, RbStopInv
<1>5. /\ OpType' /\ op'.at = "rbstop" /\ op'.old = c /\ op'.todo = op.todo \ {p} /\ op'.touched = t
      /\ World' /\ \A q \in Names \ {p} : Kept(q)
      /\ stray \subseteq stray' /\ stray' \subseteq Names /\ op'.stuck \subseteq stray'
      /\ p \in stray' \/ processes'[p] = None
    <2>1. CASE /\ processes[p] = None
               /\ op' = [op EXCEPT !.todo = Rest(p)]
               /\ UNCHANGED <<processes, sup, faults, stray>>
        <3>1. World' /\ \A q \in Names \ {p} : Kept(q)
            BY <1>3, <2>1, WorldSame DEF RollbackStops, IInv, World, CallType
        <3>2. /\ OpType' /\ op'.at = "rbstop" /\ op'.old = c /\ op'.todo = op.todo \ {p}
              /\ op'.touched = t /\ op'.stuck = op.stuck
            BY <1>1, <1>4, <2>1 DEF IInv, OpType, Rest
        <3> QED BY <1>2, <1>4, <2>1, <3>1, <3>2
    <2>2. CASE /\ processes[p] # None /\ Stopped(processes[p])
               /\ processes' = [processes EXCEPT ![p] = None]
               /\ op' = [op EXCEPT !.todo = Rest(p)]
               /\ UNCHANGED stray
        <3>1. World' /\ processes'[p] = None /\ \A q \in Names \ {p} : Kept(q)
            BY <1>3, <2>2, WorldDrop DEF RollbackStops, IInv
        <3>2. /\ OpType' /\ op'.at = "rbstop" /\ op'.old = c /\ op'.todo = op.todo \ {p}
              /\ op'.touched = t /\ op'.stuck = op.stuck
            BY <1>1, <1>4, <2>2 DEF IInv, OpType, Rest
        <3> QED BY <1>2, <1>4, <2>2, <3>1, <3>2
    <2>3. CASE /\ processes[p] # None /\ Refuses(processes[p])
               /\ op' = [op EXCEPT !.todo = Rest(p), !.stuck = @ \cup {p}]
               /\ stray' = stray \cup {p}
               /\ UNCHANGED processes
        <3>1. World' /\ \A q \in Names \ {p} : Kept(q)
            BY <1>3, <2>3, WorldSame DEF RollbackStops, Refuses, IInv, World, CallType
        <3>2. /\ OpType' /\ op'.at = "rbstop" /\ op'.old = c /\ op'.todo = op.todo \ {p}
              /\ op'.touched = t /\ op'.stuck = op.stuck \cup {p}
            BY <1>1, <1>4, <2>3 DEF IInv, OpType, Rest
        <3> QED BY <1>2, <1>4, <2>3, <3>1, <3>2
    <2> QED BY <2>1, <2>2, <2>3 DEF RollbackStops
<1>6. RbStopInv'
    <2>1. ASSUME NEW q \in t \ ((op.todo \ {p}) \cup stray') PROVE processes'[q] = None /\ jobs'[q] = NoDef
        <3>1. CASE q = p
            BY <1>3, <1>5, <3>1
        <3>2. CASE q # p
            <4>1. Bare(q)
                BY <1>1, <1>2, <1>5, <3>2 DEF RbStopInv
            <4> QED BY <1>2, <1>5, <3>2, <4>1 DEF Bare, Kept
        <3> QED BY <3>1, <3>2
    <2> QED BY <1>4, <1>5, <2>1 DEF RbStopInv, Bare
<1>7. StopInv' /\ StartInv' /\ RbStartInv'
    BY <1>5 DEF StopInv, StartInv, RbStartInv
<1>8. faults' = faults \/ (faults > 0 /\ faults' = faults - 1)
    BY DEF RollbackStops, Stopped, Refuses
<1>9. /\ op'.touched \subseteq op.touched /\ op'.at \in Multi
      /\ \A q \in Names \ op.touched : Kept(q)
      /\ \A q \in op.touched \ (op'.touched \cup stray') : Fine(c, q)'
    BY <1>1, <1>4, <1>5 DEF Multi
<1>10. down \subseteq down' /\ down' \subseteq {q \in DOMAIN c : c[q].enabled}
       /\ config' \in Maps /\ ops' = ops
    BY <1>2 DEF RollbackStops
<1> QED BY <1>1, <1>3, <1>5, <1>6, <1>7, <1>8, <1>9, <1>10, MultiStep

LEMMA RollbackRestoresKeeps ==
    ASSUME IInv, RollbackRestores
    PROVE  IInv'
<1>1. op.at = "rbstop" /\ op.at \in Multi /\ op.todo = {}
    BY DEF RollbackRestores, Multi
<1> PICK c, t, td : c = op.old /\ t = op.touched /\ td = (t \ op.stuck) \cap Nodes(AsGraph(c))
    OBVIOUS
<1>2. RbStopInv /\ t \subseteq Names /\ c \in Maps /\ stray \subseteq Names
      /\ jobs \in [Names -> Defs \cup {NoDef}] /\ down \subseteq {q \in DOMAIN c : c[q].enabled}
    BY <1>1, MultiFacts DEF IInv, Books
<1>3. World' /\ \A q \in Names : Kept(q)
    BY WorldSame DEF RollbackRestores, IInv, World, CallType
<1>4. \A p \in t \ stray : Bare(p)
    BY <1>1, <1>2 DEF RbStopInv
<1>5. config' = c /\ UNCHANGED <<processes, jobs, sup, call, ops, faults, lost, stray>>
    BY DEF RollbackRestores
<1>6. CASE Sortable(op.old)
    <2>1. op' = [op EXCEPT !.at = "rbstart", !.todo = td] /\ down' = down
        BY <1>6 DEF RollbackRestores
    <2>2. td \in SUBSET Names
        BY <1>2
    <2>3. OpType' /\ op'.at = "rbstart" /\ op'.old = c /\ op'.todo = td /\ op'.touched = t
        BY <2>1, <2>2 DEF IInv, OpType, Stages
    <2>4. ASSUME NEW p \in t \ stray
          PROVE  IF p \in td THEN Bare(p)' ELSE Fine(c, p)'
        <3>1. CASE p \in td
            BY <1>4, <1>5, <3>1 DEF Bare
        <3>2. CASE p \notin td
            <4>1. p \notin op.stuck
                BY <1>1, <1>2 DEF RbStopInv
            <4>2. p \notin DOMAIN c \/ ~c[p].enabled
                BY <1>2, <3>2, <4>1, GraphNodes
            <4>3. AgreesWith(c, p)
                BY <1>2, <1>4, <4>2, BareAgrees
            <4> QED BY <1>5, <3>2, <4>3 DEF Fine, AgreesWith
        <3> QED BY <3>1, <3>2
    <2>5. RbStartInv'
        BY <1>5, <2>3, <2>4 DEF RbStartInv, Fine, AgreesWith, Bare
    <2>6. StopInv' /\ StartInv' /\ RbStopInv'
        BY <2>3 DEF StopInv, StartInv, RbStopInv
    <2>7. op'.touched \subseteq op.touched /\ op'.at \in Multi
        BY <2>3 DEF Multi
    <2> QED BY <1>1, <1>2, <1>3, <1>5, <2>1, <2>3, <2>5, <2>6, <2>7, MultiStep
<1>7. CASE ~Sortable(op.old)
    <2>1. op' = Idle /\ down' = down \cup {p \in t \cap DOMAIN c : c[p].enabled}
        BY <1>7 DEF RollbackRestores, Unlock
    <2>2. ASSUME NEW p \in t \ stray
          PROVE  Fine(config, p)'
        <3>1. CASE p \in down'
            BY <1>4, <1>5, <3>1 DEF Fine, Bare
        <3>2. CASE p \notin down'
            <4>1. AgreesWith(c, p)
                BY <1>2, <1>4, <2>1, <3>2, BareAgrees
            <4> QED BY <1>5, <4>1 DEF Fine, AgreesWith
        <3> QED BY <3>1, <3>2
    <2>3. \A p \in Names : SameAt(c, c, p)
        BY DEF SameAt
    <2>4. down' \subseteq {p \in DOMAIN config' : config'[p].enabled}
        BY <1>2, <1>5, <2>1
    <2> QED BY <1>1, <1>2, <1>3, <1>5, <2>1, <2>2, <2>3, <2>4, MultiCloses
<1> QED BY <1>6, <1>7

(* A name the rollback brings back, or reports.                            *)
LEMMA RollbackStarted ==
    ASSUME IInv, op.at = "rbstart", NEW p \in op.todo, op' = [op EXCEPT !.todo = Rest(p)], World',
           jobs' \in [Names -> Defs \cup {NoDef}],
           \A q \in Names \ {p} : Kept(q), NEW c, c = op.old, p \in stray \/ Fine(c, p)',
           faults' = faults \/ (faults > 0 /\ faults' = faults - 1),
           down' = down \/ down' = down \cup {p}, UNCHANGED <<config, ops, stray>>
    PROVE  IInv'
<1>1. op.at \in Multi
    BY DEF Multi
<1> PICK t : t = op.touched
    OBVIOUS
<1>2. /\ RbStartInv /\ config = c /\ c \in Maps /\ config \in Maps /\ t \subseteq Names
      /\ op.todo \subseteq t \cap Nodes(AsGraph(c))
      /\ down \subseteq {q \in DOMAIN c : c[q].enabled} /\ stray \subseteq Names
    BY <1>1, MultiFacts DEF IInv, Books, RbStartInv
<1>3. p \in Names /\ p \in t /\ p \in DOMAIN c /\ c[p].enabled
    BY <1>2, GraphNodes
<1>4. OpType' /\ op'.at = "rbstart" /\ op'.old = c /\ op'.todo = op.todo \ {p} /\ op'.touched = t
    BY DEF Rest, IInv, OpType
<1>5. RbStartInv'
    <2>1. ASSUME NEW q \in t \ stray
          PROVE  IF q \in op'.todo THEN Bare(q)' ELSE Fine(c, q)'
        <3>1. CASE q = p
            BY <1>4, <3>1
        <3>2. CASE q # p
            <4>1. q \in Names /\ Kept(q)
                BY <1>2, <3>2
            <4>2. IF q \in op.todo THEN Bare(q) ELSE Fine(c, q)
                BY <1>2 DEF RbStartInv
            <4>3. CASE q \in op.todo
                BY <1>4, <3>2, <4>1, <4>2, <4>3 DEF Bare, Kept
            <4>4. CASE q \notin op.todo
                <5>1. SameAt(c, c, q) /\ (q \in down => q \in down')
                    BY DEF SameAt
                <5>2. Fine(c, q)'
                    BY <4>1, <4>2, <4>4, <5>1, FineKept
                <5> QED BY <1>4, <4>4, <5>2
            <4> QED BY <4>3, <4>4
        <3> QED BY <3>1, <3>2
    <2> QED BY <1>2, <1>4, <2>1 DEF RbStartInv, Fine, AgreesWith, Bare
<1>6. StopInv' /\ StartInv' /\ RbStopInv'
    BY <1>4 DEF StopInv, StartInv, RbStopInv
<1>7. /\ op'.touched \subseteq op.touched /\ op'.at \in Multi
      /\ \A q \in Names \ op.touched : Kept(q)
      /\ \A q \in op.touched \ (op'.touched \cup stray') : Fine(c, q)'
    BY <1>3, <1>4 DEF Multi
<1>8. down \subseteq down' /\ down' \subseteq {q \in DOMAIN c : c[q].enabled}
    BY <1>2, <1>3
<1> QED BY <1>1, <1>2, <1>4, <1>5, <1>6, <1>7, <1>8, MultiStep

LEMMA RollbackStartsKeeps ==
    ASSUME IInv, NEW p \in Names, RollbackStarts(p) \/ RollbackStartFails(p)
    PROVE  IInv'
<1>1. op.at = "rbstart" /\ p \in op.todo /\ op' = [op EXCEPT !.todo = Rest(p)] /\ op.at \in Multi
    BY DEF RollbackStarts, RollbackStartFails, StartsNext, Multi
<1> PICK c, w : c = op.old /\ w = Runs(op.old[p])
    OBVIOUS
<1>2. /\ RbStartInv /\ c \in Maps /\ jobs \in [Names -> Defs \cup {NoDef}]
      /\ op.todo \subseteq op.touched \cap Nodes(AsGraph(c))
    BY <1>1, MultiFacts DEF IInv, Books, RbStartInv
<1>3. p \in DOMAIN c /\ (p \in stray \/ Bare(p))
    BY <1>1, <1>2, GraphNodes DEF RbStartInv
<1>4. UNCHANGED <<config, call, ops, lost, stray>>
    BY DEF RollbackStarts, RollbackStartFails
<1>5. CASE RollbackStarts(p)
    <2>1. /\ World' /\ jobs' \in [Names -> Defs \cup {NoDef}] /\ faults' = faults
          /\ \A q \in Names \ {p} : Kept(q)
          /\ p \in stray \/ AgreesWith(c, p)'
        <3>1. BringsUp(p, c[p], w)
            BY <1>5 DEF RollbackStarts
        <3> QED BY <1>2, <1>3, <1>4, <3>1, BringsUpAgrees DEF IInv
    <2>2. p \in stray \/ Fine(c, p)'
        BY <2>1 DEF Fine, AgreesWith
    <2>3. down' = down
        BY <1>5 DEF RollbackStarts
    <2> QED BY <1>1, <1>4, <2>1, <2>2, <2>3, RollbackStarted
<1>6. CASE RollbackStartFails(p)
    <2>1. /\ World' /\ jobs' = jobs /\ (faults' = faults \/ (faults > 0 /\ faults' = faults - 1))
          /\ \A q \in Names \ {p} : Kept(q)
          /\ p \in stray \/ processes'[p] = None \/ Runs(c[p])
        <3>1. FailsToBringUp(p, c[p], w)
            BY <1>6 DEF RollbackStartFails
        <3> QED BY <1>2, <1>3, <1>4, <3>1, FailureIsRegistered DEF IInv
    <2>2. down' = down \cup {p}
        BY <1>6 DEF RollbackStartFails
    <2>3. p \in stray \/ Fine(c, p)'
        BY <1>3, <2>1, <2>2 DEF Fine
    <2> QED BY <1>1, <1>2, <1>4, <2>1, <2>2, <2>3, RollbackStarted
<1> QED BY <1>5, <1>6
-----------------------------------------------------------------------------
(* Control calls.                                                          *)

(* They change neither configuration nor entries nor jobs.                 *)
LEMMA CallKeepsBooks ==
    ASSUME IInv, World', \A p \in Names : Kept(p), UNCHANGED <<config, processes, jobs, op, down, stray>>,
           ops' = ops \/ (ops > 0 /\ ops' = ops - 1),
           faults' = faults \/ (faults > 0 /\ faults' = faults - 1)
    PROVE  IInv'
<1>1. Bounds' /\ OpType'
    BY BoundsKept DEF IInv, Bounds, OpType
<1>2. Base' = Base /\ Touched' = Touched
    BY DEF Base, Touched, Held
<1>3. DownInv'
    BY <1>2 DEF IInv, Books, DownInv
<1>4. OthersInv'
    BY <1>2, OthersKept DEF IInv, Books, SameAt
<1>5. SingleInv'
    BY DEF IInv, Books, SingleInv, Bare, Kept
<1>6. op.touched \subseteq Names
    BY DEF IInv, OpType
<1>7. StopInv' /\ RbStopInv'
    BY DEF IInv, Books, StopInv, RbStopInv, SameElsewhere, Bare
<1>8. StartInv'
    <2> SUFFICES ASSUME op.at = "start" PROVE StartInv'
        BY DEF StartInv
    <2> PICK new : new = op.new
        OBVIOUS
    <2>1. StartInv /\ SameElsewhere'
        BY DEF IInv, Books, StartInv, SameElsewhere
    <2>2. ASSUME NEW p \in op.touched \ stray
          PROVE  IF p \in op.todo THEN Bare(p)' ELSE AgreesWith(new, p)'
        <3>1. CASE p \in op.todo
            BY <2>1, <3>1 DEF StartInv, Bare
        <3>2. CASE p \notin op.todo
            <4>1. AgreesWith(new, p) /\ p \in Names
                BY <1>6, <2>1, <3>2 DEF StartInv
            <4> QED BY <3>2, <4>1, AgreesKept
        <3> QED BY <3>1, <3>2
    <2> QED BY <2>1, <2>2 DEF StartInv, AgreesWith, Bare
<1>9. RbStartInv'
    <2> SUFFICES ASSUME op.at = "rbstart" PROVE RbStartInv'
        BY DEF RbStartInv
    <2> PICK c : c = op.old
        OBVIOUS
    <2>1. RbStartInv
        BY DEF IInv, Books
    <2>2. ASSUME NEW p \in op.touched \ stray
          PROVE  IF p \in op.todo THEN Bare(p)' ELSE Fine(c, p)'
        <3>1. CASE p \in op.todo
            BY <2>1, <3>1 DEF RbStartInv, Bare
        <3>2. CASE p \notin op.todo
            <4>1. Fine(c, p) /\ p \in Names /\ SameAt(c, c, p)
                BY <1>6, <2>1, <3>2 DEF RbStartInv, SameAt
            <4> QED BY <3>2, <4>1, FineKept
        <3> QED BY <3>1, <3>2
    <2> QED BY <2>1, <2>2 DEF RbStartInv, Fine, AgreesWith, Bare
<1> QED BY <1>1, <1>3, <1>4, <1>5, <1>7, <1>8, <1>9 DEF IInv, Books

LEMMA CallKeeps ==
    ASSUME IInv, NEW p \in Names, StartProcess(p) \/ StopProcess(p) \/ RestartProcess(p)
    PROVE  IInv'
<1>1. PICK kind \in {"start", "stop", "restart"} : Call(kind, p)
    BY DEF StartProcess, StopProcess, RestartProcess
<1>2. CallType'
    BY <1>1 DEF Call, CallType, IInv, World
<1>3. World' /\ \A q \in Names : Kept(q)
    BY <1>1, <1>2, WorldSame DEF Call, IInv
<1> QED BY <1>1, <1>3, CallKeepsBooks DEF Call

(* A call acts on the object it found: its name and definition stay, and a *)
(* process it starts behind a dropped entry is lost.                       *)
LEMMA CallActs ==
    ASSUME World, NEW s \in Sups, processes' = processes, jobs' = jobs,
           sup' \in [Sups -> [name : Names \cup {None}, def : Defs \cup {NoDef}, up : BOOLEAN]],
           \A t \in Sups : sup'[t].name = sup[t].name /\ sup'[t].def = sup[t].def,
           \A t \in Sups \ {s} : sup'[t] = sup[t],
           sup'[s].up => s \in lost' \/ ~Dropped(s),
           CallType', stray' = stray, lost \subseteq lost'
    PROVE  World' /\ \A q \in Names : Kept(q)
<1>1. processes' \in [Names -> Sups \cup {None}]
    BY DEF World
<1>2. Named'
    BY DEF World, Named
<1>3. OrphansExplained'
    <2> SUFFICES ASSUME NEW t \in Sups, sup'[t].up, Dropped(t)
                 PROVE  t \in lost' \/ sup[t].name \in stray
        BY DEF OrphansExplained, Orphan, Dropped
    <2>1. CASE t # s
        BY <2>1 DEF World, OrphansExplained, Orphan
    <2>2. CASE t = s
        BY <2>2
    <2> QED BY <2>1, <2>2
<1>4. \A q \in Names : Kept(q)
    BY <1>1 DEF World, Kept
<1> QED BY <1>1, <1>2, <1>3, <1>4 DEF World

LEMMA CallStopsKeeps ==
    ASSUME IInv, CallStops
    PROVE  IInv'
<1>1. call.kind # "none" /\ CallType /\ World
    BY DEF CallStops, IInv, World
<1>2. CallType'
    <2>1. call' = NoCall \/ call' = [call EXCEPT !.kind = "start"]
        BY DEF CallStops
    <2> QED BY <1>1, <2>1 DEF CallType, NoCall, None
<1>3. CASE Stopped(call.sup)
    <2> PICK s : s = call.sup
        OBVIOUS
    <2>1. s \in Sups /\ sup[s] \in [name : Names \cup {None}, def : Defs \cup {NoDef}, up : BOOLEAN]
        BY <1>1 DEF World, CallType
    <2>2. sup'[s] = [sup[s] EXCEPT !.up = FALSE] /\ \A t \in Sups \ {s} : sup'[t] = sup[t]
        BY <1>1, <1>3, <2>1 DEF Stopped, World
    <2>3. sup'[s].name = sup[s].name /\ sup'[s].def = sup[s].def /\ sup'[s].up = FALSE
        BY <2>1, <2>2
    <2>4. sup' \in [Sups -> [name : Names \cup {None}, def : Defs \cup {NoDef}, up : BOOLEAN]]
        BY <1>1, <1>3, <2>1 DEF Stopped, World
    <2>5. \A t \in Sups : sup'[t].name = sup[t].name /\ sup'[t].def = sup[t].def
        BY <2>2, <2>3
    <2>6. ~sup'[s].up /\ processes' = processes /\ jobs' = jobs /\ stray' = stray /\ lost' = lost
        BY <2>3 DEF CallStops
    <2>7. World' /\ \A q \in Names : Kept(q)
        BY <1>1, <1>2, <2>1, <2>2, <2>4, <2>5, <2>6, CallActs
    <2> QED BY <1>3, <2>7, CallKeepsBooks DEF CallStops, Stopped
<1>4. CASE Refuses(call.sup)
    <2>1. World' /\ \A q \in Names : Kept(q)
        BY <1>1, <1>2, <1>4, WorldSame DEF CallStops, Refuses
    <2> QED BY <1>4, <2>1, CallKeepsBooks DEF CallStops, Refuses
<1> QED BY <1>3, <1>4 DEF CallStops

LEMMA CallStartsKeeps ==
    ASSUME IInv, CallStarts
    PROVE  IInv'
<1>1. call.kind # "none" /\ CallType /\ World
    BY DEF CallStarts, IInv, World
<1>2. CallType'
    BY DEF CallStarts, CallType, NoCall, None
<1>3. PICK u \in BOOLEAN :
        sup' = [sup EXCEPT ![call.sup] = [name |-> sup[call.sup].name, def |-> sup[call.sup].def, up |-> u]]
    BY DEF CallStarts, Started, StartFails
<1>4. faults' = faults \/ (faults > 0 /\ faults' = faults - 1)
    BY DEF CallStarts, Started, StartFails
<1> PICK s : s = call.sup
    OBVIOUS
<1>5. s \in Sups /\ sup[s] \in [name : Names \cup {None}, def : Defs \cup {NoDef}, up : BOOLEAN]
    BY <1>1 DEF World, CallType
<1>6. /\ sup'[s].up = u /\ \A t \in Sups \ {s} : sup'[t] = sup[t]
      /\ \A t \in Sups : sup'[t].name = sup[t].name /\ sup'[t].def = sup[t].def
      /\ sup' \in [Sups -> [name : Names \cup {None}, def : Defs \cup {NoDef}, up : BOOLEAN]]
    BY <1>1, <1>3, <1>5 DEF World
<1>7. lost \subseteq lost' /\ (sup'[s].up => s \in lost' \/ ~Dropped(s))
    BY DEF CallStarts
<1>8. World' /\ \A q \in Names : Kept(q)
    BY <1>1, <1>2, <1>5, <1>6, <1>7, CallActs DEF CallStarts
<1> QED BY <1>4, <1>8, CallKeepsBooks DEF CallStarts

(* A start that goes on after its deadline acts on its object as a call    *)
(* does.                                                                   *)
LEMMA LateStartKeeps ==
    ASSUME IInv, NEW s \in Sups, LateStart(s)
    PROVE  IInv'
<1>1. CallType /\ World /\ CallType'
    BY DEF LateStart, IInv, World, CallType
<1>2. PICK u \in BOOLEAN : (sup[s].up => u) /\ sup' = [sup EXCEPT ![s].up = u]
    BY DEF LateStart
<1>3. sup[s] \in [name : Names \cup {None}, def : Defs \cup {NoDef}, up : BOOLEAN]
    BY <1>1 DEF World
<1>4. World' /\ \A q \in Names : Kept(q)
    <2>1. CASE sup[s].up
        <3>1. sup' = sup
            <4>1. [sup[s] EXCEPT !.up = u] = sup[s]
                BY <1>2, <1>3, <2>1
            <4> QED BY <1>1, <1>2, <4>1 DEF World
        <3> QED BY <1>1, <2>1, <3>1, WorldSame DEF LateStart
    <2>2. CASE ~sup[s].up
        <3>1. sup'[s] = [sup[s] EXCEPT !.up = u] /\ \A t \in Sups \ {s} : sup'[t] = sup[t]
            BY <1>1, <1>2 DEF World
        <3>2. sup'[s].name = sup[s].name /\ sup'[s].def = sup[s].def /\ sup'[s].up = u
            BY <1>3, <3>1
        <3>3. sup' \in [Sups -> [name : Names \cup {None}, def : Defs \cup {NoDef}, up : BOOLEAN]]
            BY <1>1, <1>2, <1>3 DEF World
        <3>4. \A t \in Sups : sup'[t].name = sup[t].name /\ sup'[t].def = sup[t].def
            BY <3>1, <3>2
        <3>5. lost \subseteq lost' /\ (sup'[s].up => s \in lost' \/ ~Dropped(s))
            BY <2>2 DEF LateStart
        <3> QED BY <1>1, <3>1, <3>3, <3>4, <3>5, CallActs DEF LateStart
    <2> QED BY <2>1, <2>2
<1> QED BY <1>4, CallKeepsBooks DEF LateStart

-----------------------------------------------------------------------------
(* The theorems.                                                           *)

LEMMA InitInv == Init => IInv
<1> SUFFICES ASSUME Init PROVE IInv
    OBVIOUS
<1> DEFINE runs == {p \in DOMAIN config : Runs(config[p])}
<1>1. config \in Maps /\ Names \subseteq Sups /\ None \notin Sups
    BY ReloadAssumption DEF Init, None
<1>2. runs \subseteq Names /\ \A p \in DOMAIN config : config[p] \in Defs
    BY <1>1, MapValues
<1>3. /\ processes = [p \in Names |-> IF p \in runs THEN p ELSE None]
      /\ sup = [s \in Sups |->
              IF s \in runs THEN [name |-> s, def |-> config[s], up |-> config[s].mode = "running"]
              ELSE NoSup]
      /\ jobs = [p \in Names |->
              IF p \in DOMAIN config /\ Scheduled(config[p]) THEN config[p] ELSE NoDef]
    BY DEF Init
<1>4. op = Idle /\ call = NoCall /\ ops = MaxOps /\ faults = MaxFaults /\ lost = {} /\ down = {} /\ stray = {}
    BY DEF Init
<1>5. \A p \in runs : Runs(config[p]) /\ p \in DOMAIN config /\ config[p] \in Defs
    BY <1>2
<1>6. \A p \in DOMAIN config : Runs(config[p]) => p \in runs
    OBVIOUS
<1> HIDE DEF runs
<1>7. Bounds
    BY <1>1, <1>2, <1>3, <1>4, ReloadAssumption DEF Bounds
<1>8. OpType
    BY <1>4, IdleIsOp DEF OpType
<1>9. \A s \in Sups : sup[s] \in [name : Names \cup {None}, def : Defs \cup {NoDef}, up : BOOLEAN]
    <2> SUFFICES ASSUME NEW s \in Sups
                 PROVE  sup[s] \in [name : Names \cup {None}, def : Defs \cup {NoDef}, up : BOOLEAN]
        OBVIOUS
    <2>1. CASE s \in runs
        <3> DEFINE u == config[s].mode = "running"
        <3>1. u \in BOOLEAN /\ sup[s] = [name |-> s, def |-> config[s], up |-> u]
            BY <1>3, <2>1
        <3> HIDE DEF u
        <3> QED BY <1>2, <1>5, <2>1, <3>1
    <2>2. CASE s \notin runs
        BY <1>3, <2>2 DEF NoSup
    <2> QED BY <2>1, <2>2
<1>10. World
    <2>1. /\ processes \in [Names -> Sups \cup {None}]
          /\ sup \in [Sups -> [name : Names \cup {None}, def : Defs \cup {NoDef}, up : BOOLEAN]]
        BY <1>1, <1>3, <1>9
    <2>2. CallType
        BY <1>4 DEF CallType, NoCall
    <2>3. Named
        BY <1>1, <1>2, <1>3 DEF Named
    <2>4. OrphansExplained
        <3> SUFFICES ASSUME NEW s \in Sups, sup[s].up PROVE ~Dropped(s)
            BY DEF OrphansExplained, Orphan
        <3>1. s \in runs
            BY <1>3 DEF NoSup
        <3> QED BY <1>2, <1>3, <3>1 DEF Dropped
    <2> QED BY <2>1, <2>2, <2>3, <2>4 DEF World
<1>11. Base = config /\ Touched = {} /\ op.at = "idle"
    BY <1>4 DEF Base, Held, Touched, Single, Idle
<1>12. ASSUME NEW p \in Names PROVE Fine(config, p)
    <2>1. CASE p \in runs
        <3>1. processes[p] = p /\ sup[p].def = config[p] /\ p \in Sups /\ p # None
            BY <1>1, <1>3, <2>1
        <3>2. ~Scheduled(config[p])
            BY <1>5, <2>1, DefKinds
        <3> QED BY <1>3, <1>5, <2>1, <3>1, <3>2 DEF Fine, AgreesWith
    <2>2. CASE p \notin runs
        BY <1>3, <1>6, <2>2 DEF Fine, AgreesWith
    <2> QED BY <2>1, <2>2
<1>13. Books
    BY <1>4, <1>11, <1>12 DEF Books, DownInv, OthersInv, SingleInv, StopInv, StartInv, RbStopInv,
       RbStartInv, Single, Fine, AgreesWith
<1> QED BY <1>7, <1>8, <1>10, <1>13 DEF IInv

(* One case per action.                                                    *)
LEMMA NextInv == IInv /\ [Next]_vars => IInv'
<1> SUFFICES ASSUME IInv, [Next]_vars PROVE IInv'
    OBVIOUS
<1>1. ASSUME NEW p \in Names, NEW def \in Edits, AddProcess(p, def) \/ UpdateProcess(p, def) PROVE IInv'
    BY <1>1, AddProcessKeeps, UpdateProcessKeeps
<1>2. CASE AddScheduled \/ AddStopped \/ AddDisabled \/ AddStarts
    BY <1>2, AddScheduledKeeps, AddStoppedKeeps, AddDisabledKeeps
<1>3. ASSUME NEW left \in BOOLEAN, AddFails(left) \/ UpdateStartFails(left) \/ UpdateRestoreFails(left) PROVE IInv'
    BY <1>3, AddFailsKeeps, UpdateStartFailsKeeps, UpdateRestoreFailsKeeps
<1>4. ASSUME NEW p \in Names, RemoveProcess(p) PROVE IInv'
    BY <1>4, RemoveProcessKeeps
<1>5. CASE RemoveStops \/ RemoveFails
    BY <1>5, RemoveStopsKeeps, RemoveFailsKeeps
<1>6. CASE UpdateStops \/ UpdateStopFails \/ UpdateToSchedule \/ UpdateOnly \/ UpdateStarts \/ UpdateRestores
    BY <1>6, UpdateStopsKeeps, UpdateStopFailsKeeps, UpdateToScheduleKeeps, UpdateOnlyKeeps,
       UpdateStartsKeeps, UpdateRestoresKeeps
<1>7. ASSUME NEW new \in Configs, ReloadConfig(new) PROVE IInv'
    BY <1>7, ReloadConfigKeeps
<1>8. CASE ReloadAborts \/ ReloadSwaps \/ ReloadDone \/ RollbackRestores \/ RollbackDone
    BY <1>8, ReloadAbortsKeeps, ReloadSwapsKeeps, ReloadDoneKeeps, RollbackRestoresKeeps, RollbackDoneKeeps
<1>9. ASSUME NEW p \in Names,
             \/ ReloadStops(p) \/ ReloadStarts(p) \/ ReloadStartFails(p)
             \/ RollbackStops(p) \/ RollbackStarts(p) \/ RollbackStartFails(p)
             \/ StartProcess(p) \/ StopProcess(p) \/ RestartProcess(p)
      PROVE  IInv'
    BY <1>9, ReloadStopsKeeps, ReloadStartsKeeps, ReloadStartFailsKeeps, RollbackStopsKeeps,
       RollbackStartsKeeps, CallKeeps
<1>10. CASE CallStops \/ CallStarts
    BY <1>10, CallStopsKeeps, CallStartsKeeps
<1>12. ASSUME NEW s \in Sups, LateStart(s) PROVE IInv'
    BY <1>12, LateStartKeeps
<1>11. CASE UNCHANGED vars
    <2>1. World' /\ \A q \in Names : Kept(q)
        BY <1>11, WorldSame DEF vars, IInv, World, CallType
    <2> QED BY <1>11, <2>1, CallKeepsBooks DEF vars
<1> QED BY <1>1, <1>2, <1>3, <1>4, <1>5, <1>6, <1>7, <1>8, <1>9, <1>10, <1>11, <1>12 DEF Next

LEMMA AlwaysIInv == Spec => []IInv
<1> QED BY InitInv, NextInv, PTL DEF Spec

(* The starts under way are counted per object.                            *)
LateType == late \in [Sups -> Nat]

LEMMA AlwaysLate == Spec => []LateType
<1>1. Init => LateType
    BY DEF Init, LateType
<1>2. LateType /\ [Next]_vars => LateType'
    <2> SUFFICES ASSUME LateType, [Next]_vars PROVE LateType'
        OBVIOUS
    <2>1. ASSUME UNCHANGED late PROVE LateType'
        BY <2>1 DEF LateType
    <2>2. ASSUME NEW s, NEW p, NEW d, NEW left, NEW goesOn, StartFails(s, p, d, left, goesOn)
          PROVE  LateType'
        <3> DEFINE n == IF goesOn THEN 1 ELSE 0
        <3>1. n \in Nat /\ late' = [late EXCEPT ![s] = late[s] + n]
            BY <2>2 DEF StartFails
        <3> HIDE DEF n
        <3>2. \A t \in Sups : late[t] + n \in Nat
            BY <3>1 DEF LateType
        <3> QED BY <3>1, <3>2 DEF LateType
    <2>3. ASSUME NEW p, NEW d, NEW left, StartsNewInVain(p, d, left) PROVE LateType'
        BY <2>2, <2>3 DEF StartsNewInVain
    <2>4. ASSUME NEW p, NEW d, NEW waits, FailsToBringUp(p, d, waits) PROVE LateType'
        BY <2>1, <2>2, <2>4 DEF FailsToBringUp
    <2>5. ASSUME NEW s \in Sups, LateStart(s) PROVE LateType'
        BY <2>5 DEF LateStart, LateType
    <2>6. CASE CallStarts
        BY <2>1, <2>2, <2>6 DEF CallStarts
    <2>7. ASSUME NEW left, AddFails(left) \/ UpdateStartFails(left) \/ UpdateRestoreFails(left)
          PROVE  LateType'
        BY <2>3, <2>7 DEF AddFails, UpdateStartFails, UpdateRestoreFails
    <2>8. ASSUME NEW p \in Names, ReloadStartFails(p) \/ RollbackStartFails(p) PROVE LateType'
        BY <2>4, <2>8 DEF ReloadStartFails, RollbackStartFails
    <2>9. ASSUME NEW p \in Names,
                 \/ ReloadStops(p) \/ ReloadStarts(p) \/ RollbackStops(p) \/ RollbackStarts(p)
                 \/ StartProcess(p) \/ StopProcess(p) \/ RestartProcess(p) \/ RemoveProcess(p)
          PROVE  UNCHANGED late
        BY <2>9 DEF ReloadStops, ReloadStarts, RollbackStops, RollbackStarts, StartProcess,
                    StopProcess, RestartProcess, RemoveProcess, Call
    <2>10. ASSUME NEW p \in Names, NEW def \in Edits, AddProcess(p, def) \/ UpdateProcess(p, def)
           PROVE  UNCHANGED late
        BY <2>10 DEF AddProcess, UpdateProcess
    <2>11. CASE UNCHANGED vars \/ AddScheduled \/ AddStopped \/ AddDisabled \/ AddStarts
                \/ RemoveStops \/ RemoveFails \/ UpdateStops \/ UpdateStopFails
                \/ UpdateToSchedule \/ UpdateOnly \/ UpdateStarts \/ UpdateRestores
                \/ ReloadAborts \/ ReloadSwaps \/ ReloadDone \/ RollbackRestores
                \/ RollbackDone \/ CallStops \/ \E new \in Configs : ReloadConfig(new)
        <3>1. UNCHANGED late
            BY <2>11 DEF vars, AddScheduled, AddStopped, AddDisabled, AddStarts, RemoveStops,
               RemoveFails, UpdateStops, UpdateStopFails, UpdateToSchedule, UpdateOnly,
               UpdateStarts, UpdateRestores, ReloadAborts, ReloadSwaps, ReloadDone,
               RollbackRestores, RollbackDone, CallStops, ReloadConfig
        <3> QED BY <2>1, <3>1
    <2> QED BY <2>1, <2>5, <2>6, <2>7, <2>8, <2>9, <2>10, <2>11 DEF Next
<1> QED BY <1>1, <1>2, PTL DEF Spec

(* Configuration, entries, jobs, objects and the control call stay what    *)
(* manager_config.go takes them for, through every edit, reload, rollback  *)
(* and failure.                                                            *)
THEOREM TypeCorrect == Spec => []TypeOK
<1>1. IInv /\ LateType => TypeOK
    BY DEF IInv, Bounds, World, CallType, TypeOK, LateType
<1> QED BY <1>1, AlwaysIInv, AlwaysLate, PTL

(* ReloadConfig and rollbackReload: whatever fails, whatever control calls *)
(* come between and whichever starts go on after their deadline, a live    *)
(* process without an entry in m.processes is one that AddProcess or       *)
(* UpdateProcess left, or that came to life behind a dropped entry, or has *)
(* a name that a rollback could not stop.                                  *)
THEOREM OrphansAreExplained == Spec => []OrphansExplained
<1>1. IInv => OrphansExplained
    BY DEF IInv, World
<1> QED BY <1>1, AlwaysIInv, PTL

(* manager_config.go: whenever m.mu is free, every name not reported down  *)
(* or stray has the supervisor of its definition and no job, or its job    *)
(* and no supervisor, or neither, just as the configuration says.          *)
THEOREM ManagerAgrees == Spec => []Agreement
<1>1. IInv => Agreement
    <2> SUFFICES ASSUME IInv, ~Held, NEW p \in Names \ (down \cup stray) PROVE Agrees(p)
        BY DEF Agreement
    <2>1. Fine(config, p)
        BY AllFine
    <2> QED BY <2>1 DEF Fine, AgreesWith, Agrees
<1> QED BY <1>1, AlwaysIInv, PTL

-----------------------------------------------------------------------------
(* The order of the stop loops.                                            *)

(* The graph of a map: its enabled processes, and their dependencies among *)
(* these.                                                                  *)
LEMMA GraphOfMap ==
    ASSUME NEW c \in Maps
    PROVE  /\ Nodes(AsGraph(c)) = {p \in DOMAIN c : c[p].enabled}
           /\ IsFiniteSet(Nodes(AsGraph(c))) /\ Nodes(AsGraph(c)) \subseteq Nat
           /\ \A p, q \in Nodes(AsGraph(c)) :
                 p \in ToSet(c[q].depends) => p \in AsGraph(c)[q]
<1>1. Nodes(AsGraph(c)) = {p \in DOMAIN c : c[p].enabled}
    BY DEF Nodes, AsGraph, NewGraph
<1>2. Nodes(AsGraph(c)) \subseteq Names
    BY <1>1, MapValues
<1>3. IsFiniteSet(Nodes(AsGraph(c)))
    BY <1>2, ReloadAssumption, FS_Subset
<1>4. ASSUME NEW p \in Nodes(AsGraph(c)), NEW q \in Nodes(AsGraph(c)), p \in ToSet(c[q].depends)
      PROVE  p \in AsGraph(c)[q]
    BY <1>1, <1>4 DEF AsGraph, NewGraph, KeepsEdge
<1> QED BY <1>1, <1>2, <1>3, <1>4, ReloadAssumption

(* Reversed, what preceded follows, and nothing is left out.               *)
LEMMA ReverseOrder ==
    ASSUME NEW S, NEW n \in Nat, NEW s \in [1..n -> S]
    PROVE  /\ ToSet(Reverse(s)) = {s[i] : i \in 1..n}
           /\ \A i, j \in 1..n : i < j => Precedes(Reverse(s), s[j], s[i])
<1>1. s \in Seq(S) /\ Len(s) = n
    OBVIOUS
<1> DEFINE r == [i \in 1..n |-> s[(n - i) + 1]]
<1>2. Reverse(s) = r
    BY <1>1 DEF Reverse
<1>3. \A i \in 1..n :
          (n - i) + 1 \in 1..n /\ r[(n - i) + 1] = s[i] /\ r[i] = s[(n - i) + 1]
    OBVIOUS
<1>4. DOMAIN r = 1..n
    OBVIOUS
<1> HIDE DEF r
<1>5. ToSet(r) = {s[i] : i \in 1..n}
    BY <1>3, <1>4 DEF ToSet
<1>6. ASSUME NEW i \in 1..n, NEW j \in 1..n, i < j PROVE Precedes(r, s[j], s[i])
    <2>1. (n - j) + 1 < (n - i) + 1
        BY <1>6
    <2> QED BY <1>3, <1>4, <2>1 DEF Precedes
<1> QED BY <1>2, <1>5, <1>6

(* getShutdownOrder: it holds every enabled process, and each before what  *)
(* it depends on.                                                          *)
LEMMA ShutdownOrder ==
    ASSUME NEW c \in Maps, Sortable(c)
    PROVE  /\ ToSet(getShutdownOrder(c)) = Nodes(AsGraph(c))
           /\ \A p, q \in Nodes(AsGraph(c)) :
                 p \in ToSet(c[q].depends) => Precedes(getShutdownOrder(c), q, p)
<1> DEFINE g == AsGraph(c)
           n == Cardinality(Nodes(g))
           s == TopologicalSort(g)
<1>1. IsFiniteSet(Nodes(g)) /\ Nodes(g) \subseteq Nat /\ Validate(g) /\ ~HasCycle(g)
    BY GraphOfMap DEF Sortable
<1>2. n \in Nat
    BY <1>1, FS_CardinalityType
<1>3. /\ s \in Bijection(1..n, Nodes(g))
      /\ \A i \in 1..n : g[s[i]] \subseteq {s[j] : j \in 1..i-1}
    BY <1>1, SortOrdersDependencies
<1>4. getShutdownOrder(c) = Reverse(s)
    BY DEF getShutdownOrder, getStartupOrder
<1>5. \A p, q \in Nodes(g) : p \in ToSet(c[q].depends) => p \in g[q]
    BY GraphOfMap
<1> HIDE DEF g, n, s
<1>6. s \in [1..n -> Nodes(g)] /\ \A p \in Nodes(g) : \E i \in 1..n : s[i] = p
    BY <1>3 DEF Bijection, Injection, Surjection
<1>7. /\ ToSet(Reverse(s)) = {s[i] : i \in 1..n}
      /\ \A i, j \in 1..n : i < j => Precedes(Reverse(s), s[j], s[i])
    BY <1>2, <1>6, ReverseOrder
<1>8. ToSet(Reverse(s)) = Nodes(g)
    BY <1>6, <1>7
<1>9. ASSUME NEW p \in Nodes(g), NEW q \in Nodes(g), p \in ToSet(c[q].depends)
      PROVE  Precedes(Reverse(s), q, p)
    <2>1. PICK i \in 1..n : s[i] = q
        BY <1>6
    <2>2. PICK j \in 1..i-1 : s[j] = p
        BY <1>3, <1>5, <1>9, <2>1
    <2>3. j \in 1..n /\ j < i
        BY <1>2, <2>2
    <2> QED BY <1>7, <2>1, <2>2, <2>3
<1> QED BY <1>4, <1>8, <1>9 DEF g

(* In a stop loop only the loop itself drops an entry, that of the name    *)
(* whose turn it is.                                                       *)
LEMMA StopLoopDrops ==
    ASSUME IInv, [Next]_vars, op.at \in {"stop", "rbstop"},
           NEW p \in Names, processes[p] # None, processes'[p] = None
    PROVE  StopsNext(p)
<1>1. processes' # processes
    OBVIOUS
<1>2. PICK r \in Names : ReloadStops(r) \/ RollbackStops(r)
    BY <1>1 DEF Next, vars, AddProcess, UpdateProcess, Begin, Held, AddScheduled, AddStopped,
       AddDisabled, AddStarts, AddFails, UpdateStartFails, Starting, UpdateRestoreFails,
       RemoveProcess, RemoveStops, RemoveFails, UpdateStops, UpdateStopFails, UpdateToSchedule,
       UpdateOnly, UpdateStarts, UpdateRestores, ReloadConfig, ReloadAborts, ReloadSwaps,
       ReloadDone, RollbackRestores, RollbackDone, ReloadStarts, ReloadStartFails,
       RollbackStarts, RollbackStartFails, StartProcess, StopProcess, RestartProcess, Call,
       CallStops, CallStarts, LateStart
<1>3. StopsNext(r) /\ (processes' = processes \/ processes' = [processes EXCEPT ![r] = None])
    BY <1>2 DEF ReloadStops, RollbackStops
<1>4. p = r
    BY <1>1, <1>3 DEF IInv, World
<1> QED BY <1>3, <1>4

(* stopReloadProcesses and rollbackReload: for any finite set of processes *)
(* and any configurations, a process is stopped only when everything the   *)
(* same loop is to stop and that depends on it is down, or would not stop. *)
THEOREM ReloadStopsDependentsFirst == Spec => DependentsStopFirst
<1> DEFINE Drops(p) ==
        op.at \in {"stop", "rbstop"} /\ Up(processes[p]) /\ processes'[p] = None /\ Sortable(config)
    Excused == op.failed \cup op.stuck \cup stray
<1>1. ASSUME IInv, [Next]_vars, NEW p \in Names, Drops(p),
             NEW q \in (op.touched \cap DOMAIN config) \ Excused,
             config[q].enabled, p \in ToSet(config[q].depends)
      PROVE  ~Up(processes[q])
    <2>1. StopsNext(p)
        BY <1>1, StopLoopDrops DEF Up
    <2>2. config \in Maps /\ q \in Names
        BY <1>1, MapValues DEF IInv, Bounds
    <2>3. q \in Nodes(AsGraph(config)) /\ q \in ToSet(getShutdownOrder(config))
        BY <1>1, <2>2, GraphOfMap, ShutdownOrder
    <2>4. q \notin op.todo
        <3> SUFFICES ASSUME q \in op.todo PROVE FALSE
            OBVIOUS
        <3>1. p \in ToSet(getShutdownOrder(config)) /\ ~Precedes(getShutdownOrder(config), q, p)
            BY <1>1, <2>1, <2>3 DEF StopsNext
        <3>2. p \in Nodes(AsGraph(config))
            BY <1>1, <2>2, <3>1, ShutdownOrder
        <3> QED BY <1>1, <2>2, <2>3, <3>1, <3>2, ShutdownOrder
    <2>5. processes[q] = None
        BY <1>1, <2>2, <2>4 DEF IInv, Books, StopInv, RbStopInv, Bare
    <2> QED BY <2>5 DEF Up
<1>2. IInv /\ [Next]_vars =>
        [\A p \in Names : Drops(p) => \A q \in (op.touched \cap DOMAIN config) \ Excused :
            config[q].enabled /\ p \in ToSet(config[q].depends) => ~Up(processes[q])]_vars
    BY <1>1
<1> QED BY <1>2, AlwaysIInv, PTL DEF Spec, DependentsStopFirst
=============================================================================
