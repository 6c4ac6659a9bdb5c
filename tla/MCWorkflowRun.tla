--------------------------- MODULE MCWorkflowRun ---------------------------
(* Instances of WorkflowRun for TLC. *)
EXTENDS WorkflowRun, TLC

Edge(from, to, port) == [from |-> from, to |-> to, port |-> port]

(* A Condition beside an interactive Agent; one branch runs an automatic   *)
(* Agent into the Output both join, the other ends in an Output at once.   *)
JoinNodes == {"s", "c", "a", "h", "o", "p"}
JoinKind == [n \in JoinNodes |-> CASE n = "s" -> "start" [] n = "c" -> "condition"
                                   [] n \in {"a", "h"} -> "agent" [] OTHER -> "output"]
JoinEdges == {Edge("s", "c", "any"), Edge("s", "h", "any"), Edge("c", "a", "if"),
              Edge("c", "p", "else"), Edge("a", "o", "any"), Edge("h", "o", "any")}
JoinVersions == {{"h"}, {}}
=============================================================================
