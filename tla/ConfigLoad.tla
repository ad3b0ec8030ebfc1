----------------------------- MODULE ConfigLoad -----------------------------
(***************************************************************************)
(* From a file and the environment to the configuration that runs, and     *)
(* back to a file: internal/config (LoadWithEnvExpansion, SetDefaults,     *)
(* Validate, ValidateComprehensive, Save, Equal), Manager.SaveConfig and   *)
(* the check AddProcess makes of a definition sent over the API.           *)
(*                                                                         *)
(* A raw body is what yaml leaves in map[string]any: a function from the   *)
(* keys that are written to values tagged with the yaml type.  A nested    *)
(* key is one field ("hc.period") whose section has a key of its own; a    *)
(* key without a value is Null.  A definition is the decoded struct: every *)
(* field has a value, the zero value when nothing was written.  A process  *)
(* name, and the segment of an override after CBOX_INIT_PROCESS_, are      *)
(* sequences of the words between "-" or "_".  References to one variable  *)
(* are modelled, ${VAR} as the whole text of a field: they stand for the   *)
(* references that the text of a file may hold anywhere.                   *)
(***************************************************************************)
EXTENDS DependencyGraph, FiniteSetsExt

CONSTANTS
    Files,      \* contents of the file: keys (TRUE: all known), global and
                \* processes (raw, with their references), hooks
    Envs,       \* environments: process (a set of overrides: to, field,
                \* text), global (a raw body), hooks (index -> hook), var
                \* (what yaml reads for the text of VAR)
    Added,      \* definitions sent over the API: name, def
    Chars,      \* number of characters of a word
    Alphabet,   \* the words in the order of their bytes
    Root,       \* TRUE: running as root
    MaxLoads,   \* bound: loads of the file
    MaxChanges  \* bound: edits of the file, additions and saves

VARIABLES
    file, env,  \* what a load reads
    raw,        \* rawConfig: global, hooks, processes
    pending,    \* the process overrides still to be applied
    new,        \* the Config a load is building
    cfg,        \* the configuration in force: <<>> before the first load
    loading,    \* "idle", a stage of a load, "refused" (by this load),
                \* "crashed" (PID 1 is gone)
    loads, changes,
    saved       \* history: the file is what SaveConfig wrote, and was not
                \* loaded since

loadVars == <<file, env, raw, pending, new, cfg, loading, loads, changes, saved>>

----------------------------------------------------------------------------
(* The fields.                                                             *)

(* The keys of both maps, the first one's values first, and a map of one   *)
(* key: @@ and :> of module TLC, which TLAPS does not know.                *)
Over(top, base) ==
    [x \in DOMAIN top \cup DOMAIN base |-> IF x \in DOMAIN top THEN top[x] ELSE base[x]]
Key(x, v) == [y \in {x} |-> v]

Null    == <<"null">>
Hollow  == [nil |-> Null]    \* the body of a process name without a body
Empty   == <<>>              \* a body without keys

(* The Process struct: the yaml type of each field.  hc_address stands for *)
(* the address or the url, stdout and lg_stdout also for stderr.           *)
Kind ==
    [enabled |-> "bool", type |-> "str", initial_state |-> "str", command |-> "list",
     user |-> "str", stdout |-> "ptr", restart |-> "str", scale |-> "int",
     max_scale |-> "int", depends_on |-> "list", env |-> "map", schedule |-> "str",
     health_check |-> "section", hc_type |-> "str", hc_address |-> "str",
     hc_command |-> "list", hc_user |-> "str", hc_period |-> "int", hc_mode |-> "str",
     shutdown |-> "section", sd_signal |-> "str", sd_timeout |-> "int",
     sd_kill_signal |-> "str", sd_kill_timeout |-> "int",
     logging |-> "section", lg_stdout |-> "bool", lg_labels |-> "map", lg_files |-> "map"]

Fields == DOMAIN Kind

Section(f) ==
    CASE f \in {"hc_type", "hc_address", "hc_command", "hc_user", "hc_period", "hc_mode"}
             -> "health_check"
      [] f \in {"sd_signal", "sd_timeout", "sd_kill_signal", "sd_kill_timeout"} -> "shutdown"
      [] f \in {"lg_stdout", "lg_labels", "lg_files"} -> "logging"
      [] OTHER -> ""

(* The words an override spells a field with.                              *)
Path ==
    [enabled |-> <<"enabled">>, command |-> <<"command">>, user |-> <<"user">>,
     type |-> <<"type">>, scale |-> <<"scale">>, stdout |-> <<"stdout">>,
     env |-> <<"env", "x">>, lg_stdout |-> <<"logging", "stdout">>,
     hc_type |-> <<"health", "check", "type">>, hc_user |-> <<"health", "check", "user">>,
     hc_command |-> <<"health", "check", "command">>,
     sd_timeout |-> <<"shutdown", "timeout">>]

Zero(kind) ==
    CASE kind = "int"  -> 0
      [] kind = "bool" -> FALSE
      [] kind = "section" -> FALSE
      [] kind = "map"  -> "nil"
      [] kind = "str"  -> ""
      [] OTHER -> <<>>

(* The GlobalConfig struct.  acl, readiness and fpm_tune are the mode of   *)
(* their section, "" when there is none; a federated source is its name    *)
(* and whether its URL is a loopback one.                                  *)
GlobalKind ==
    [shutdown_timeout |-> "int", restart_policy |-> "str", max_restart_attempts |-> "int",
     restart_backoff |-> "int", log_level |-> "str", zombie_reap_interval |-> "int",
     api_enabled |-> "bool", api_host |-> "str", api_port |-> "int", api_auth |-> "str",
     acl |-> "str", tracing_enabled |-> "bool", tracing_exporter |-> "str",
     readiness |-> "str", fpm_tune |-> "str",
     metrics_federate |-> "list", resource_metrics_enabled |-> "bool",
     resource_metrics_interval |-> "int", schedule_history_size |-> "int"]

(* What yaml writes into a map and what a struct holds: numbers and        *)
(* sections are what their tags say, and a field of a section is only      *)
(* where its section is.                                                   *)
RawBody(body) ==
    \A f \in DOMAIN body :
        /\ body[f][1] = "int" => body[f][2] \in Int
        /\ body[f][1] = "section" => body[f][2] = TRUE
        /\ body[f][1] = "null" => body[f] = Null
        /\ Section(f) # "" => Section(f) \in DOMAIN body /\ body[Section(f)] # Null

(* The file before it is expanded: what has fields is a section, and not a *)
(* reference.                                                              *)
FileBody(body) ==
    /\ RawBody(body)
    /\ \A f \in DOMAIN body : Section(f) # "" => body[Section(f)] = <<"section", TRUE>>

Struct(def, kinds) ==
    /\ DOMAIN def = DOMAIN kinds
    /\ \A f \in DOMAIN kinds :
          /\ kinds[f] = "int" => def[f] \in Int
          /\ kinds[f] = "section" => def[f] \in BOOLEAN
          /\ kinds[f] = "ptr" => def[f] = <<>> \/ def[f] = <<def[f][1]>>
          /\ Section(f) # "" => def[Section(f)] \/ def[f] = Zero(kinds[f])

Hook == [command : BOOLEAN, timeout : Int]

ASSUME LoadAssumption ==
    /\ \A f \in Files : /\ f.hooks \in Seq(Hook) /\ FileBody(f.global)
                        /\ IsFiniteSet(DOMAIN f.processes)
                        /\ \A p \in DOMAIN f.processes : FileBody(f.processes[p])
    /\ \A e \in Envs : /\ RawBody(e.global) /\ \A f \in DOMAIN e.global : e.global[f] # Null
                       /\ IsFiniteSet(DOMAIN e.hooks)
                       /\ e.var = Null \/ e.var[1] = "str"
    /\ \A a \in Added : Struct(a.def, Kind)

----------------------------------------------------------------------------
(* References.                                                             *)

(* The text ${VAR}.                                                        *)
EnvReference == <<"str", "reference">>

(* The text of the variable in the place of the reference, before yaml     *)
(* reads the file: a variable that is not set, or empty, leaves a key      *)
(* without a value.                                                        *)
ExpandEnv(body) == [f \in DOMAIN body |-> IF body[f] = EnvReference THEN env.var ELSE body[f]]

HasEnvReferences(content) ==
    LET In(body) == \E f \in DOMAIN body : body[f] = EnvReference
    IN  In(content.global) \/ \E p \in DOMAIN content.processes : In(content.processes[p])

----------------------------------------------------------------------------
(* Decoding, and the text of the environment.                              *)

(* yaml into the struct: a number or a boolean does not take text, a list  *)
(* does not take a scalar; a key without a value leaves the zero value.    *)
Accepts(kind, v) ==
    CASE kind = "ptr" -> v[1] \in {"bool", "null"}
      [] kind = "str" -> TRUE
      [] OTHER -> v[1] \in {kind, "null"}

WellTyped(body, kinds) == \A f \in DOMAIN body : Accepts(kinds[f], body[f])

Decoded(body, kinds) ==
    [f \in DOMAIN kinds |->
        IF f \notin DOMAIN body \/ body[f] = Null THEN Zero(kinds[f])
        ELSE IF kinds[f] = "ptr" THEN <<body[f][2]>> ELSE body[f][2]]

(* The top-level command takes a list that is not JSON.                    *)
parseCommandValue(text) == <<"list", IF text = "" THEN <<>> ELSE <<text>>>>

(* The text as the kind of the field it sets; what does not parse stays    *)
(* text, for the decoder to refuse.                                        *)
parseEnvValueFor(f, text) ==
    CASE f = "command" -> parseCommandValue(text)
      [] f # "command" /\ Kind[f] = "list" /\ text = "[cmd]" -> <<"list", <<"cmd">>>>
      [] Kind[f] = "int" /\ text \in {"0", "1", "40"} ->
            <<"int", CASE text = "0" -> 0 [] text = "1" -> 1 [] OTHER -> 40>>
      [] Kind[f] \in {"bool", "ptr"} /\ text \in {"1", "true"}  -> <<"bool", TRUE>>
      [] Kind[f] \in {"bool", "ptr"} /\ text \in {"0", "false"} -> <<"bool", FALSE>>
      [] Kind[f] = "map" -> <<"map", "body">>
      [] OTHER -> <<"str", text>>

(* ensureMap, then setNestedValue: a section or a name without a body      *)
(* becomes a map.                                                          *)
ensureMap(processes, name) ==
    IF name \in DOMAIN processes /\ processes[name] # Hollow THEN processes[name] ELSE Empty

setNestedValue(body, f, v) ==
    LET section == IF Section(f) = "" THEN Empty ELSE Key(Section(f), <<"section", TRUE>>)
    IN  Over(Key(f, v), Over(section, body))

setProcessField(processes, name, f, text) ==
    Over(Key(name, setNestedValue(ensureMap(processes, name), f, parseEnvValueFor(f, text))),
         processes)

----------------------------------------------------------------------------
(* Which process and which field a variable means.                         *)

Segment(o) == o.to \o Path[o.field]

Length(seg) == FoldLeft(LAMBDA n, word : n + Chars[word], Len(seg) - 1, seg)

Earlier(word, other) ==
    \E i, j \in DOMAIN Alphabet : i < j /\ Alphabet[i] = word /\ Alphabet[j] = other

(* The order of sort.Slice: shortest first, then by name.                  *)
Before(a, b) ==
    \/ Length(a) < Length(b)
    \/ /\ Length(a) = Length(b)
       /\ \E i \in DOMAIN a : /\ i \in DOMAIN b /\ Earlier(a[i], b[i])
                              /\ \A j \in 1..(i - 1) : a[j] = b[j]

(* The override to be applied next.                                        *)
Foremost(overrides) == {o \in overrides : \A p \in overrides : ~Before(Segment(p), Segment(o))}

(* matchFieldPath: the fields the words of a tail spell.                   *)
matchFieldPath(tail) == {f \in DOMAIN Path : Path[f] = tail}

NameAt(seg, k) == SubSeq(seg, 1, k)
FieldAt(seg, k) == SubSeq(seg, k + 1, Len(seg))

(* The places where the name may end.                                      *)
Splits(seg) == {k \in 1..(Len(seg) - 1) : matchFieldPath(FieldAt(seg, k)) # {}}

(* _ENV_ is looked for first.  Otherwise the longest name a process has,   *)
(* and without one the longest name: a new process.                        *)
applyProcessEnvOverride(processes, seg, text) ==
    LET envs     == {i \in 2..(Len(seg) - 1) : seg[i] = "env"}
        existing == {k \in Splits(seg) : NameAt(seg, k) \in DOMAIN processes}
        k        == Max(IF existing # {} THEN existing ELSE Splits(seg))
    IN  CASE envs # {} -> setProcessField(processes, NameAt(seg, Min(envs) - 1), "env", text)
          [] envs = {} /\ Splits(seg) = {} -> processes
          [] OTHER -> setProcessField(processes, NameAt(seg, k),
                                      CHOOSE f \in matchFieldPath(FieldAt(seg, k)) : TRUE, text)

----------------------------------------------------------------------------
(* Defaults.                                                               *)

(* Mutant of defaultProcessEnabled: an explicit logging.stdout is not      *)
(* recorded.                                                               *)
defaultProcessEnabledOnly(body) ==
    IF body = Hollow \/ "enabled" \in DOMAIN body THEN body
    ELSE Over(Key("enabled", <<"bool", TRUE>>), body)

(* On the raw map, where an absent key can still be told from false.       *)
defaultProcessEnabled(body) ==
    IF body = Hollow THEN body
    ELSE LET lit == "lg_stdout" \in DOMAIN body /\ body["lg_stdout"] = <<"bool", FALSE>>
             on  == IF "enabled" \in DOMAIN body THEN Empty ELSE Key("enabled", <<"bool", TRUE>>)
             off == IF lit /\ "stdout" \notin DOMAIN body
                    THEN Key("stdout", <<"bool", FALSE>>) ELSE Empty
         IN  Over(on, Over(off, body))

GlobalDefaults ==
    [shutdown_timeout |-> 30, restart_policy |-> "always", max_restart_attempts |-> 3,
     restart_backoff |-> 5, log_level |-> "info", zombie_reap_interval |-> 1000,
     api_host |-> "127.0.0.1", api_port |-> 9180, tracing_exporter |-> "stdout",
     resource_metrics_interval |-> 5, schedule_history_size |-> 100]

ProcessDefaults == [type |-> "longrun", initial_state |-> "running", scale |-> 1]
SectionDefaults ==
    [hc_period |-> 10, hc_mode |-> "both", sd_signal |-> "SIGTERM", sd_timeout |-> 30,
     sd_kill_signal |-> "SIGKILL", sd_kill_timeout |-> 5]

(* A field that holds its zero value takes its default.                    *)
Filled(def, kinds, defaults) ==
    [f \in DOMAIN def |->
        IF f \in DOMAIN defaults /\ def[f] = Zero(kinds[f]) THEN defaults[f] ELSE def[f]]

setGlobalDefaults(g) == Filled(g, GlobalKind, GlobalDefaults)

(* The defaults of a section apply only when the section is there.         *)
InSections(def) ==
    [f \in {s \in DOMAIN SectionDefaults : def[Section(s)]} |-> SectionDefaults[f]]

setProcessRestart(g, def) ==
    IF def.restart # "" THEN def
    ELSE [def EXCEPT !.restart = IF def.type = "oneshot" THEN "never" ELSE g.restart_policy]

(* Without a logging section both streams and a label; with one, the       *)
(* legacy pointer decides, and without it the stream is on.                *)
setProcessLoggingDefaults(def) ==
    LET on == IF def.stdout = <<>> THEN TRUE ELSE def.stdout[1]
    IN  IF def.logging THEN [def EXCEPT !.lg_stdout = on]
        ELSE [def EXCEPT !.logging = TRUE, !.lg_stdout = on, !.lg_labels = "body"]

setProcessDefaults(g, def) ==
    LET filled == Filled(def, Kind, ProcessDefaults)
    IN  setProcessLoggingDefaults(Filled(setProcessRestart(g, filled), Kind, InSections(def)))

----------------------------------------------------------------------------
(* What a load refuses.                                                    *)

MaxShutdownTimeout   == 3600
MaxKillTimeout       == 600
MaxProcessScaleLimit == 1000

isLoopbackHost(host) == host \in {"", "127.0.0.1", "localhost"}

validateAPIExposure(g) ==
    g.api_enabled /\ ~isLoopbackHost(g.api_host) => g.api_auth # "" \/ g.acl = "allow"

validateACL(g)     == g.acl \in {"", "allow", "allow_empty", "deny"}
validateTracing(g) == g.tracing_enabled => g.tracing_exporter \in {"", "otlp-grpc", "stdout"}
validateFPMTune(g) == g.fpm_tune \in {"", "apply", "advisory"}

validateGlobal(g) ==
    /\ g.shutdown_timeout >= 0
    /\ g.log_level \in {"debug", "info", "warn", "error"}
    /\ validateAPIExposure(g) /\ validateACL(g) /\ validateTracing(g) /\ validateFPMTune(g)

validateHooks(hooks) == \A h \in ToSet(hooks) : h.command /\ h.timeout >= 0

validateProcessBasics(def) ==
    /\ def.command # <<>>
    /\ def.type \in {"oneshot", "longrun"}
    /\ def.initial_state \in {"running", "stopped"}
    /\ def.restart \in {"always", "on-failure", "never"}
    /\ def.scale >= 1
    /\ def.max_scale > 0 => def.scale <= def.max_scale

validateOneshotProcess(def) ==
    def.type = "oneshot" => def.restart = "never" /\ def.scale = 1

(* Mutant of validateProcessHealthCheck: any period.                       *)
validateProcessHealthCheckAnyPeriod(def) ==
    def.health_check =>
        /\ def.hc_type \in {"tcp", "http", "exec"}
        /\ def.hc_type \in {"tcp", "http"} => def.hc_address # ""
        /\ def.hc_type = "exec" => def.hc_command # <<>>

validateProcessHealthCheck(def) ==
    def.health_check =>
        /\ def.hc_type \in {"tcp", "http", "exec"}
        /\ def.hc_type \in {"tcp", "http"} => def.hc_address # ""
        /\ def.hc_type = "exec" => def.hc_command # <<>>
        /\ def.hc_type # "exec" => def.hc_user = ""
        /\ def.hc_period >= 0
        /\ def.hc_mode \in {"liveness", "readiness", "both"}

validateProcessSchedule(def) == def.schedule \in {"", "cron"}

(* With or without SIG, in either case.                                    *)
KnownSignalNames == {"SIGTERM", "SIGQUIT", "SIGKILL", "kill"}

validateProcessShutdown(def) ==
    def.shutdown => /\ def.sd_signal \in KnownSignalNames
                    /\ def.sd_kill_signal \in KnownSignalNames
                    /\ def.sd_kill_timeout \in 0..MaxKillTimeout

validateProcess(def) ==
    /\ validateProcessBasics(def)
    /\ validateOneshotProcess(def)
    /\ validateProcessHealthCheck(def)
    /\ validateProcessSchedule(def)
    /\ validateProcessShutdown(def)

(* Every process is in the graph here, the disabled ones too.              *)
Dependencies(processes) == [p \in DOMAIN processes |-> processes[p].depends_on]

validateDependencies(processes) ==
    LET g == [p \in DOMAIN processes |-> ToSet(Dependencies(processes)[p])]
    IN  ~HasCycle(g) /\ \A p \in DOMAIN g : g[p] \subseteq DOMAIN g

(* ValidateComprehensive: only an error stops a load, so that warnings and *)
(* suggestions are left out, and so are errors Validate has reported.      *)
validateGlobalBasicSettings(g) ==
    g.shutdown_timeout <= MaxShutdownTimeout /\ g.max_restart_attempts <= 100

validateGlobalResourceSettings(g) ==
    g.resource_metrics_enabled => g.resource_metrics_interval <= 3600

(* A negative zombie interval passes; ReapZombies takes it for a second.   *)
validateGlobalLimits(g) ==
    /\ g.schedule_history_size <= 10000
    /\ g.zombie_reap_interval > 0 => g.zombie_reap_interval \in 100..60000

validateGlobalAPISettings(g) == g.api_enabled => g.api_port >= 1024 \/ Root

validateGlobalMetricsFederate(g) ==
    \A i, j \in DOMAIN g.metrics_federate :
        /\ g.metrics_federate[i].loopback
        /\ i # j => g.metrics_federate[i].name # g.metrics_federate[j].name

validateGlobalReadinessSettings(g) == g.readiness \in {"", "all_healthy", "all_running"}

validateSingleProcess(def) ==
    def.scale <= MaxProcessScaleLimit /\ def.max_scale <= MaxProcessScaleLimit

ValidateComprehensive(c) ==
    /\ validateGlobalBasicSettings(c.global) /\ validateGlobalResourceSettings(c.global)
    /\ validateGlobalLimits(c.global) /\ validateGlobalAPISettings(c.global)
    /\ validateGlobalMetricsFederate(c.global) /\ validateGlobalReadinessSettings(c.global)
    /\ \A p \in DOMAIN c.processes : validateSingleProcess(c.processes[p])
    /\ validateDependencies(c.processes)

ValidateConfig(c) ==
    /\ validateGlobal(c.global)
    /\ validateHooks(c.hooks)
    /\ DOMAIN c.processes # {}
    /\ \A p \in DOMAIN c.processes : validateProcess(c.processes[p])

(* How long a shutdown may take: the global value, or the longest stop an  *)
(* enabled process asks for, within an hour.                               *)
StopTime(def) ==
    def.sd_timeout + (IF def.sd_kill_signal = "SIGKILL" THEN 0 ELSE def.sd_kill_timeout)

ShutdownDeadline(c) ==
    LET asked == {StopTime(c.processes[p]) :
                     p \in {q \in DOMAIN c.processes : /\ c.processes[q].enabled
                                                       /\ c.processes[q].shutdown}}
        longest == Max(asked \cup {c.global.shutdown_timeout})
    IN  CASE longest > MaxShutdownTimeout -> MaxShutdownTimeout
          [] longest <= 0 -> 30
          [] OTHER -> longest

----------------------------------------------------------------------------
(* Writing the configuration back.                                         *)

(* A nil pointer is written as null, a nil map or list as an empty one.    *)
MarshalledValue(kind, v) ==
    CASE kind = "ptr" -> IF v = <<>> THEN Null ELSE <<"bool", v[1]>>
      [] kind = "map" -> <<"map", IF v = "nil" THEN "empty" ELSE v>>
      [] kind = "section" -> IF v THEN <<"section", TRUE>> ELSE Null
      [] OTHER -> <<kind, v>>

(* Mutant of Marshalled: fields with their zero value are left out.        *)
MarshalledOmitEmpty(def, kinds) ==
    [f \in {g \in DOMAIN def : def[g] # Zero(kinds[g])} |-> MarshalledValue(kinds[f], def[f])]

(* Every field is written, those of an absent section excepted.            *)
Marshalled(def, kinds) ==
    [f \in {g \in DOMAIN def : Section(g) = "" \/ def[Section(g)]} |->
        MarshalledValue(kinds[f], def[f])]

(* Text is written as it is, and so is a reference that came in over the   *)
(* API.                                                                    *)
Saved(c) ==
    [keys |-> TRUE, global |-> Marshalled(c.global, GlobalKind), hooks |-> c.hooks,
     processes |-> [p \in DOMAIN c.processes |-> Marshalled(c.processes[p], Kind)]]

----------------------------------------------------------------------------

NoConfig == [global |-> Empty, hooks |-> <<>>, processes |-> Empty, hollow |-> {}]

LoadInit ==
    /\ file \in Files /\ env \in Envs
    /\ raw = NoConfig /\ pending = {} /\ new = NoConfig
    /\ cfg = <<>> /\ loading = "idle"
    /\ loads = MaxLoads /\ changes = MaxChanges /\ saved = FALSE

Refuse == loading' = "refused" /\ UNCHANGED <<raw, pending, new, cfg>>

(* LoadWithEnvExpansion, at boot or in ReloadConfig: the file with its     *)
(* references expanded, read strictly; the global overrides; the process   *)
(* overrides in order.                                                     *)
Load ==
    /\ loading = "idle" \/ (loading = "refused" /\ cfg # <<>>)
    /\ loads > 0 /\ loads' = loads - 1
    /\ IF ~file.keys THEN Refuse
       ELSE /\ raw' = [global |-> Over(env.global, ExpandEnv(file.global)),
                       hooks |-> file.hooks,
                       processes |-> [p \in DOMAIN file.processes |-> ExpandEnv(file.processes[p])],
                       hollow |-> {}]
            /\ pending' = env.process
            /\ loading' = "override"
            /\ UNCHANGED <<new, cfg>>
    /\ UNCHANGED <<file, env, changes, saved>>

Override ==
    /\ loading = "override"
    /\ \E o \in Foremost(pending) :
          /\ raw' = [raw EXCEPT !.processes = applyProcessEnvOverride(@, Segment(o), o.text)]
          /\ pending' = pending \ {o}
    /\ UNCHANGED <<file, env, new, cfg, loading, loads, changes, saved>>

(* The hooks of the environment in the order of their indexes.             *)
ByIndex(hooks) ==
    [i \in 1..Cardinality(DOMAIN hooks) |->
        hooks[CHOOSE k \in DOMAIN hooks : Cardinality({j \in DOMAIN hooks : j < k}) = i - 1]]

(* They come after those of the file.                                      *)
applyHookEnvOverrides ==
    /\ loading = "override" /\ pending = {}
    /\ raw' = [raw EXCEPT
          !.hooks = @ \o ByIndex(env.hooks),
          !.processes = [p \in DOMAIN @ |-> defaultProcessEnabled(@[p])]]
    /\ loading' = "decode"
    /\ UNCHANGED <<file, env, pending, new, cfg, loads, changes, saved>>

(* A name without a body decodes to a nil *Process.                        *)
Decode ==
    /\ loading = "decode"
    /\ LET hollow == {p \in DOMAIN raw.processes : raw.processes[p] = Hollow}
           bodies == DOMAIN raw.processes \ hollow
       IN  IF /\ WellTyped(raw.global, GlobalKind)
              /\ \A p \in bodies : WellTyped(raw.processes[p], Kind)
           THEN /\ new' = [global |-> Decoded(raw.global, GlobalKind), hooks |-> raw.hooks,
                           processes |-> [p \in bodies |-> Decoded(raw.processes[p], Kind)],
                           hollow |-> hollow]
                /\ loading' = "default"
                /\ UNCHANGED <<raw, pending, cfg>>
           ELSE Refuse
    /\ UNCHANGED <<file, env, loads, changes, saved>>

(* A nil *Process is skipped; a nil *LogFileConfig is dereferenced.        *)
SetDefaults ==
    /\ loading = "default"
    /\ IF \E p \in DOMAIN new.processes : new.processes[p].lg_files = "hollow"
       THEN loading' = "crashed" /\ UNCHANGED new
       ELSE LET g == setGlobalDefaults(new.global)
            IN  /\ new' = [new EXCEPT !.global = g,
                      !.processes = [p \in DOMAIN @ |-> setProcessDefaults(g, @[p])]]
                /\ loading' = "validate"
    /\ UNCHANGED <<file, env, raw, pending, cfg, loads, changes, saved>>

(* Validate, then ValidateComprehensive.                                   *)
Validation ==
    /\ loading = "validate"
    /\ IF new.hollow = {} /\ ValidateConfig(new) /\ ValidateComprehensive(new)
       THEN /\ cfg' = <<new>> /\ loading' = "idle" /\ saved' = FALSE
            /\ UNCHANGED <<raw, pending, new>>
       ELSE Refuse /\ UNCHANGED saved
    /\ UNCHANGED <<file, env, loads, changes>>

Running == loading \in {"idle", "refused"} /\ cfg # <<>>
Change  == changes > 0 /\ changes' = changes - 1

(* The operator edits the file.                                            *)
EditFile ==
    /\ Running /\ Change
    /\ file' \in Files \ {file} /\ saved' = FALSE
    /\ UNCHANGED <<env, raw, pending, new, cfg, loading, loads>>

(* AddProcess: defaults, and the checks of one definition only.            *)
AddProcess ==
    /\ Running /\ Change
    /\ \E a \in Added :
          LET def == setProcessDefaults(cfg[1].global, a.def)
          IN  /\ a.name \notin DOMAIN cfg[1].processes
              /\ validateProcess(def)
              /\ cfg' = <<[cfg[1] EXCEPT !.processes = Over(Key(a.name, def), @)]>>
    /\ saved' = FALSE
    /\ UNCHANGED <<file, env, raw, pending, new, loading, loads>>

(* Refused while an override is set or the file on disk has references;    *)
(* those of the configuration in memory are not looked for.                *)
SaveConfig ==
    /\ Running /\ Change
    /\ env.process = {} /\ env.global = Empty /\ env.hooks = Empty
    /\ ~HasEnvReferences(file)
    /\ file' = Saved(cfg[1]) /\ saved' = TRUE
    /\ UNCHANGED <<env, raw, pending, new, cfg, loading, loads>>

LoadNext == \/ Load \/ Override \/ applyHookEnvOverrides \/ Decode \/ SetDefaults \/ Validation
        \/ EditFile \/ AddProcess \/ SaveConfig

LoadSpec == LoadInit /\ [][LoadNext]_loadVars

----------------------------------------------------------------------------
(* Properties.                                                             *)

Accepted == loading = "validate" /\ loading' = "idle"

(* A configuration that can be run: its graph of enabled processes can be  *)
(* sorted (what Reload and Manager assume of a configuration), a probe has *)
(* a positive period (time.NewTicker panics on any other), a oneshot is    *)
(* never restarted, the deadline of a shutdown gives every enabled process *)
(* the stop it asks for unless the hour is exceeded, and the API is not    *)
(* open to other hosts unguarded.                                          *)
Sortable(ps) ==
    LET g == NewGraph([present |-> DOMAIN ps,
                       enabled |-> {p \in DOMAIN ps : ps[p].enabled},
                       depends |-> Dependencies(ps)])
    IN  Validate(g) /\ ~HasCycle(g)

Startable(def) ==
    /\ def.command # <<>> /\ def.scale \in 1..MaxProcessScaleLimit
    /\ def.health_check => def.hc_period > 0
    /\ def.type = "oneshot" => def.restart = "never"

StopsInTime(c) ==
    /\ ShutdownDeadline(c) \in 1..MaxShutdownTimeout
    /\ \A p \in DOMAIN c.processes :
          c.processes[p].enabled /\ c.processes[p].shutdown =>
              \/ ShutdownDeadline(c) >= StopTime(c.processes[p])
              \/ ShutdownDeadline(c) = MaxShutdownTimeout

Guarded(g) ==
    g.api_enabled /\ g.api_host = "0.0.0.0" => g.api_auth # "" \/ g.acl = "allow"

Bootable(c) ==
    /\ Sortable(c.processes) /\ StopsInTime(c) /\ Guarded(c.global)
    /\ \A p \in DOMAIN c.processes : Startable(c.processes[p])

(* A configuration that a load accepts can be run: LoadWithEnvExpansion    *)
(* validates what is left after the overrides and the defaults.            *)
AcceptedBoots == [][Accepted => Bootable(cfg'[1])]_loadVars

(* The variable means the process it was written for: that process is in   *)
(* the file or has its command in the environment, and no other reading of *)
(* the variable names one.                                                 *)
Declared(p) ==
    \/ p \in DOMAIN file.processes
    \/ \E o \in env.process : o.to = p /\ o.field = "command"
Plain(o) ==
    /\ Declared(o.to)
    /\ \A k \in Splits(Segment(o)) : NameAt(Segment(o), k) = o.to \/ ~Declared(NameAt(Segment(o), k))

(* When every override is plain, no load makes up a process: the names are *)
(* those of the file and those whose command the environment gives,        *)
(* whatever the order of the variables (envsubst.go, applyEnvOverridesMap  *)
(* and applyProcessEnvOverride).                                           *)
NoPhantom ==
    (\A o \in env.process : Plain(o)) =>
        \A p \in DOMAIN raw.processes : Declared(p) \/ loading \in {"idle", "refused"}

(* What was written for a field: the environment before the file, whose    *)
(* references mean the text of the variable.                               *)
Given(p, f) ==
    LET os == {o \in env.process : o.to = p /\ o.field = f}
    IN  IF os # {} THEN {parseEnvValueFor(f, (CHOOSE o \in os : TRUE).text)}
        ELSE IF p \in DOMAIN file.processes /\ f \in DOMAIN file.processes[p]
             THEN {ExpandEnv(file.processes[p])[f]} \ {Null} ELSE {}

(* The environment prevails over the file and the file over the defaults,  *)
(* an explicit false included: in an accepted load every field that was    *)
(* written has the value written.  logging.stdout gives way to the legacy  *)
(* stdout, and a number, text or list cannot ask for its zero value.       *)
ExplicitWins ==
    [][Accepted /\ (\A o \in env.process : Plain(o)) =>
        \A p \in DOMAIN cfg'[1].processes, f \in Fields : \A v \in Given(p, f) :
            LET def == cfg'[1].processes[p]
            IN  \/ Kind[f] = "ptr" /\ def[f] = <<v[2]>>
                \/ Kind[f] # "ptr" /\ def[f] = v[2]
                \/ f = "lg_stdout" /\ Given(p, "stdout") # {}
                \/ Kind[f] \in {"int", "str"} /\ v[2] = Zero(Kind[f])]_loadVars

(* A variable lands on the process and the field it was written for, and   *)
(* nowhere else.                                                           *)
OverridesLand == []NoPhantom /\ ExplicitWins

(* Text that a load would take for a reference.                            *)
Referring(def, kinds) == {f \in DOMAIN kinds : kinds[f] = "str" /\ def[f] = EnvReference[2]}

Same(def, other, kinds) ==
    \A f \in DOMAIN kinds \ Referring(def, kinds) :
        \/ def[f] = other[f]
        \/ kinds[f] = "map" /\ {def[f], other[f]} = {"nil", "empty"}

(* The two configurations have the same processes and settings.            *)
Kept(c, d) ==
    /\ Same(c.global, d.global, GlobalKind) /\ c.hooks = d.hooks
    /\ DOMAIN c.processes = DOMAIN d.processes
    /\ \A p \in DOMAIN c.processes : Same(c.processes[p], d.processes[p], Kind)

(* SaveConfig keeps the meaning: when the saved file is loaded again and   *)
(* accepted, every setting is what it was, the ones that came from         *)
(* defaults, from the API or from a false included.  Text sent over the    *)
(* API that reads as a reference is excepted, and nothing that depends on  *)
(* it: see SavedTextIsLiteral.                                             *)
SaveKeepsMeaning == [][Accepted /\ saved => Kept(cfg[1], cfg'[1])]_loadVars

(* Not checked, violated: the text that was saved is the text that is      *)
(* loaded.  SaveConfig refuses a file with references (manager_config.go   *)
(* "saving would replace them with their resolved (possibly secret)        *)
(* values") but not a configuration whose text, sent over the API, is one; *)
(* ExpandEnv puts the variable's text in its place at the next load.       *)
SavedTextIsLiteral ==
    [][Accepted /\ saved =>
        \A p \in DOMAIN cfg[1].processes, f \in Fields :
            Kind[f] = "str" => cfg[1].processes[p][f] = cfg'[1].processes[p][f]]_loadVars

(* Process.Equal: reflect.DeepEqual on the logging section tells a nil map *)
(* from an empty one, stringMapEqual on env does not.                      *)
Equal(def, other) ==
    \A f \in Fields : \/ def[f] = other[f]
                      \/ f = "env" /\ {def[f], other[f]} = {"nil", "empty"}

(* Not checked, violated: a reload of what was saved changes nothing.      *)
(* types.go says of Equal that nil against empty is not a concern.         *)
SavedReloadIsNoop ==
    [][Accepted /\ saved =>
        \A p \in DOMAIN cfg'[1].processes :
            Equal(cfg[1].processes[p], cfg'[1].processes[p])]_loadVars

(* Not checked, violated: a file without a body somewhere is refused and   *)
(* never ends PID 1.  Holds for processes, not for logging.files.          *)
LoadNeverCrashes == loading # "crashed"

(* Not checked, violated: the file SaveConfig writes is one a load takes.  *)
(* AddProcess does not make the comprehensive checks.                      *)
SavedIsAccepted == ~(loading = "refused" /\ saved)
=============================================================================
