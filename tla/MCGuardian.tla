----------------------------- MODULE MCGuardian -----------------------------
(* Small instances of Guardian for TLC. *)
EXTENDS Guardian

MCGraces == {WaitForAll, 1}
=============================================================================
