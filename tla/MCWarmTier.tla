---------------------------- MODULE MCWarmTier ----------------------------
(* A small instance of WarmTier for TLC. *)
EXTENDS WarmTier

CONSTANTS c1, c2

MCConns == {c1, c2}
===========================================================================
