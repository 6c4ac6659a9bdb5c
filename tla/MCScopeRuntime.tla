--------------------------- MODULE MCScopeRuntime ---------------------------
(* An instance of ScopeRuntime for TLC.                                    *)
EXTENDS ScopeRuntime

\* WaitForAll, a grace that fits, and one whose deadline cannot be represented.
MCGraces == {WaitForAll, 1, 9}
=============================================================================
