----------------------------- MODULE MCEffects -----------------------------
(* Instances of Effects: a Target alone with one Skill directory or two,   *)
(* and two Targets (two agent plugins) that share one.                     *)
EXTENDS Effects, TLC

CONSTANTS a, b, x, y, c1, c2, none

SingleBind == [t \in {a} |-> {x}]
DoubleBind == [t \in {a} |-> {x, y}]
SharedBind == [t \in {a, b} |-> {x}]
=============================================================================
