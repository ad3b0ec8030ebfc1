---------------------------- MODULE MCConfigLoad ----------------------------
(* Files of up to two processes: each file of MCFiles differs from Base in *)
(* what one check, default or conversion looks at.                         *)
EXTENDS ConfigLoad, TLC

Num(n)  == <<"int", n>>
Str(t)  == <<"str", t>>
Bool(b) == <<"bool", b>>
Map     == <<"section", TRUE>>

Db      == <<"db">>
Web     == <<"web">>
DbCheck == <<"db", "health", "check">>

Cmd == [command |-> <<"list", <<"cmd">>>>]
Hc  == Cmd @@ [health_check |-> Map, hc_type |-> Str("exec"), hc_command |-> <<"list", <<"cmd">>>>]
Sd  == Cmd @@ [shutdown |-> Map]
Lg  == Cmd @@ [logging |-> Map]

File(g, ps) == [keys |-> TRUE, global |-> g, hooks |-> <<>>, processes |-> ps]
OfDb(b)     == File(Empty, Db :> b)
OfTwo(b, c) == File(Empty, Db :> b @@ Web :> c)
Deps(ps)    == [depends_on |-> <<"list", ps>>]
Off         == [enabled |-> Bool(FALSE)]

Bodies ==
    {Cmd, Hollow, Empty, Cmd @@ Off, [command |-> Null], Cmd @@ [enabled |-> Null],
     Cmd @@ [type |-> Str("oneshot")], Cmd @@ [type |-> Str("oneshot"), restart |-> Str("always")],
     Cmd @@ [restart |-> Str("on_failure")], Cmd @@ [scale |-> Num(0)],
     Cmd @@ [scale |-> Num(1000)], Cmd @@ [scale |-> Num(1001)],
     Cmd @@ [scale |-> Num(2), max_scale |-> Num(1)], Cmd @@ [scale |-> Str("two")],
     Cmd @@ [schedule |-> Str("cron")], Cmd @@ [schedule |-> Str("?")],
     Cmd @@ [stdout |-> Bool(FALSE)], Cmd @@ [user |-> EnvReference], Cmd @@ [scale |-> EnvReference],
     Hc, Hc @@ [hc_period |-> Num(0)], Hc @@ [hc_user |-> Str("root")],
     [hc_period |-> Num(-1)] @@ Hc, [hc_type |-> Str("tcp")] @@ Hc, [health_check |-> Null] @@ Cmd,
     Sd, Sd @@ [sd_timeout |-> Num(1800)], Sd @@ [sd_timeout |-> Num(4000)],
     Sd @@ [sd_kill_signal |-> Str("SIGQUIT"), sd_kill_timeout |-> Num(600)],
     Sd @@ [sd_kill_signal |-> Str("kill")], Sd @@ [sd_signal |-> Str("SIGNAL")],
     Sd @@ [sd_kill_timeout |-> Num(601)], Sd @@ [sd_timeout |-> Num(1800)] @@ Off,
     Lg, Lg @@ [lg_stdout |-> Bool(FALSE)], Lg @@ [lg_stdout |-> Bool(TRUE)],
     Lg @@ [lg_stdout |-> Bool(FALSE), stdout |-> Bool(TRUE)],
     Lg @@ [lg_labels |-> <<"map", "body">>], Lg @@ [lg_files |-> <<"map", "hollow">>]}

Globals ==
    {[shutdown_timeout |-> Num(3600)], [shutdown_timeout |-> Num(3601)],
     [shutdown_timeout |-> Num(-1)], [restart_policy |-> Str("never")],
     [restart_policy |-> Str("on_failure")], [log_level |-> Str("loud")],
     [tracing_exporter |-> Str("zipkin")],
     [tracing_enabled |-> Bool(TRUE), tracing_exporter |-> Str("zipkin")],
     [fpm_tune |-> Str("auto")], [readiness |-> Str("some")], [max_restart_attempts |-> Num(101)],
     [resource_metrics_enabled |-> Bool(TRUE), resource_metrics_interval |-> Num(4000)],
     [metrics_federate |-> <<"list", <<[name |-> "a", loopback |-> TRUE], [name |-> "a", loopback |-> TRUE]>>>>],
     [metrics_federate |-> <<"list", <<[name |-> "a", loopback |-> TRUE], [name |-> "b", loopback |-> TRUE]>>>>],
     [zombie_reap_interval |-> Num(50)], [zombie_reap_interval |-> Num(-1)],
     [api_enabled |-> Bool(TRUE)], [api_enabled |-> Bool(TRUE), api_port |-> Num(80)],
     [api_enabled |-> Bool(TRUE), api_host |-> Str("0.0.0.0")],
     [api_enabled |-> Bool(TRUE), api_host |-> Str("0.0.0.0"), acl |-> Str("allow")],
     [api_enabled |-> Bool(TRUE), api_host |-> Str("0.0.0.0"), acl |-> Str("deny")]}

MCFiles ==
    {OfDb(b) : b \in Bodies}
    \cup {File(g, Db :> Cmd) : g \in Globals}
    \cup {OfTwo(Cmd @@ Deps(d), Cmd @@ Deps(w)) :
            d \in {<<>>, <<Web>>, <<Web, Web>>, <<DbCheck>>}, w \in {<<>>, <<Db>>}}
    \cup {OfTwo(Cmd @@ Off, Cmd @@ Deps(<<Db>>)), File(Empty, Empty),
           File(Empty, Db :> Hc @@ DbCheck :> Cmd),
           [OfDb(Cmd) EXCEPT !.keys = FALSE],
           [OfDb(Cmd) EXCEPT !.hooks = <<[command |-> TRUE, timeout |-> 5]>>],
           [OfDb(Cmd) EXCEPT !.hooks = <<[command |-> TRUE, timeout |-> -1]>>]}

To(p, f, t)  == [to |-> p, field |-> f, text |-> t]
Env(ps)      == [process |-> ps, global |-> Empty, hooks |-> Empty, var |-> Null]
Check        == {To(Db, "hc_type", "exec"), To(Db, "hc_command", "[cmd]"), To(Db, "hc_user", "0")}
Worker       == {To(Web, "command", "run"), To(Web, "env", "v"), To(Web, "lg_stdout", "0")}

MCEnvs ==
    {Env({}), [Env({}) EXCEPT !.var = Str("www")], Env(Check), Env(Check \cup {To(Db, "command", "run")}), Env(Worker),
     Env(Worker \cup {To(Web, "hc_command", "cmd")}),
     Env({To(Db, "enabled", "0"), To(Db, "scale", "1"), To(Db, "sd_timeout", "40")}),
     Env({To(Db, "enabled", "1"), To(Db, "scale", "many")}),
     Env({To(Db, "stdout", "0"), To(Db, "user", "1"), To(Db, "type", "oneshot")}),
     Env({To(DbCheck, "command", "run"), To(DbCheck, "user", "0")}),
     Env({To(DbCheck, "scale", "1"), To(Db, "command", "run")}),
     [Env({}) EXCEPT !.global = [restart_policy |-> Str("never")]],
     [Env({}) EXCEPT !.global = [api_enabled |-> Bool(TRUE), api_host |-> Str("0.0.0.0")]],
     [Env({}) EXCEPT !.hooks = 2 :> [command |-> TRUE, timeout |-> 1]
                                @@ 10 :> [command |-> TRUE, timeout |-> 2]],
     [Env({}) EXCEPT !.hooks = 0 :> [command |-> FALSE, timeout |-> 1]]}

Sent(b)  == Decoded(b, Kind)
MCAdded  == {[name |-> Web, def |-> Sent(Cmd)], [name |-> Web, def |-> Sent(Cmd @@ [scale |-> Num(1001)])],
             [name |-> Web, def |-> Sent(Cmd @@ [user |-> EnvReference])],
             [name |-> Web, def |-> Sent(Lg @@ [enabled |-> Bool(TRUE)] @@ Deps(<<Db>>))]}

MCAlphabet == <<"check", "command", "db", "enabled", "env", "health", "logging", "scale",
                "shutdown", "stdout", "timeout", "type", "user", "web", "x">>
MCChars ==
    [check |-> 5, command |-> 7, db |-> 2, enabled |-> 7, env |-> 3, health |-> 6, logging |-> 7,
     scale |-> 5, shutdown |-> 8, stdout |-> 6, timeout |-> 7, type |-> 4, user |-> 4,
     web |-> 3, x |-> 1]
=============================================================================
