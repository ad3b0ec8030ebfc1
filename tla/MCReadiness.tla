---------------------------- MODULE MCReadiness ----------------------------
(* A service with a health check and a oneshot without one.                *)
EXTENDS Readiness

MCProcs    == {"web", "migrate"}
MCChecked  == {"web"}
MCOneshots == {"migrate"}
MCListed   == {}
MCModes    == {"all_healthy", "all_running"}
=============================================================================
