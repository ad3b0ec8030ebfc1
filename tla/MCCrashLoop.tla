---------------------------- MODULE MCCrashLoop ----------------------------
(* Constants of the crash-loop runs: settings that are unset, negative, or *)
(* the documented ones (5 s doubled up to 60 s), each with no budget (-1), *)
(* the default budget (0 in the file), one restart, and a budget long      *)
(* enough to leave 64 bits.                                                *)
EXTENDS CrashLoop

MCAttempts == {-1, 0, 1, 50}
MCInitials == {{}, OneSecond, FiveSeconds, {SignBit}}
MCCeilings == {{}, SixtySeconds, {SignBit}}
MCWindows  == BOOLEAN

(* The settings global-settings.md documents, with a budget of 50. *)
DocAttempts == {50}
DocInitials == {FiveSeconds}
DocCeilings == {SixtySeconds}

MCBound    == 66
=============================================================================
