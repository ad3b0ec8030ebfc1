----------------------------- MODULE MCSchedule -----------------------------
(* Two job objects of one name and three executions, or one object whose  *)
(* executions overflow its history.                                        *)
EXTENDS Schedule

MCJobs  == 1..2
MCExecs == 1..3
=============================================================================
