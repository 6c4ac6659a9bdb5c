--------------------------- MODULE MCProcessHost ---------------------------
(* A small instance of ProcessHost for TLC. *)
EXTENDS ProcessHost

Row(launch, direct, cleanup) == [launch |-> launch, direct |-> direct, cleanup |-> cleanup]

\* A Run that starts, is lost sight of, exits and is cleaned up, or never starts.
MCFacts ==
    {Accepted, Row("Started", "Running", "Pending"), Row("Started", "Unknown", "Blocked"),
     Row("Started", "Code", "BestEffortComplete"), Cancelled}
=============================================================================
