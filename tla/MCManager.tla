----------------------------- MODULE MCManager -----------------------------
(* Small instances of Manager for TLC. *)
EXTENDS Manager

Setup(deps, kinds) ==
    [present |-> DOMAIN deps, enabled |-> DOMAIN deps, depends |-> deps, kind |-> kinds,
     restarts |-> {}, scheduled |-> {}, idle |-> {}, calls |-> 0]

(* A migration, and a service that needs it; the third is disabled.        *)
Migrated ==
    [Setup(<< <<>>, <<1>>, <<>> >>, <<"oneshot", "service", "service">>)
        EXCEPT !.enabled = {1, 2}, !.calls = 1]

(* A database behind a health check that is restarted, a migration of it,  *)
(* and a service that needs both.                                          *)
Chain ==
    [Setup(<< <<>>, <<1>>, <<2, 1>> >>, <<"probed", "oneshot", "liveness">>)
        EXCEPT !.restarts = {1}]

(* A process that starts stopped, a scheduled one, a disabled one.         *)
Partial ==
    [Setup(<< <<>>, <<1>>, <<1>> >>, <<"service", "oneshot", "service">>)
        EXCEPT !.idle = {1}, !.scheduled = {3}, !.calls = 1]

MCProcs  == 1..3
MCSetups == {Migrated, Chain, Partial}

(* A probed service that is not restarted, and two that depend on it.      *)
GoneSetups ==
    {Setup(<< <<>>, <<1>>, <<1>> >>, <<"probed", "service", "service">>)}

(* An application that is restarted, beside a oneshot that finishes.       *)
BackoffSetups ==
    {[Setup(<< <<>>, <<>>, <<>> >>, <<"oneshot", "service", "service">>)
        EXCEPT !.enabled = {1, 2}, !.restarts = {2}]}

(* An application that depends on a cache, which is switched off.          *)
DisabledSetups ==
    {[Setup(<< <<>>, <<1>>, <<>> >>, <<"service", "service", "service">>)
        EXCEPT !.enabled = {2, 3}]}
============================================================================
