------------------------------ MODULE MCReload ------------------------------
(* Two processes, the second of which may depend on the first.             *)
EXTENDS Reload

Def(enabled, mode, version, depends) ==
    [enabled |-> enabled, mode |-> mode, version |-> version, depends |-> depends]

One   == Def(TRUE, "running", 1, <<>>)
Two   == Def(TRUE, "running", 2, <<>>)
After == Def(TRUE, "running", 2, <<1>>)
Later == Def(TRUE, "stopped", 1, <<>>)
Cron  == Def(TRUE, "schedule", 1, <<>>)
Off   == Def(FALSE, "running", 1, <<>>)

MCDefs    == {One, Two, After, Later, Cron, Off}
MCEdits   == {Two, After, Later, Cron, Off}
MCConfigs == {<<One, One>>, <<One, After>>, <<Two, After>>, <<Cron, Two>>, <<One>>, <<Later, Off>>}
MCNames   == 1..2
MCSups    == 1..7
=============================================================================
