--------------------------- MODULE MCCloneControl ---------------------------
(* Two epochs, and for a local Node one execution; results that can differ. *)
EXTENDS CloneControl

MCResults == [kind : {"Ready", "OperationFailed"}]
MCRefusals == [kind : {"OperationFailed"}]
====
