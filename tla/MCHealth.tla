------------------------------ MODULE MCHealth ------------------------------
(* A health check that gates readiness and liveness after a warmup; one    *)
(* that only gates readiness; a process that is never restarted.           *)
EXTENDS Health

MCSetups ==
    {[mode |-> "both", delay |-> TRUE, restart |-> TRUE],
     [mode |-> "readiness", delay |-> FALSE, restart |-> TRUE],
     [mode |-> "both", delay |-> FALSE, restart |-> FALSE]}
=============================================================================
