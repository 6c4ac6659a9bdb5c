----------------------------- MODULE CloneLedger -----------------------------
(***************************************************************************)
(* What a Node promises about its clone executions, whatever happens to    *)
(* its process: the facts a Controller can learn from it, and the runtime  *)
(* control that fences them (crates/node-db/src/runtime_control.rs).       *)
(*                                                                         *)
(* An execution is accepted once, starts only under a permit that held,    *)
(* and ends at most once, with a result whose event stays in the outbox    *)
(* until it is acknowledged.  How the Node gets there is NodeClones.       *)
(***************************************************************************)
EXTENDS Integers

CONSTANTS
    Execs,       \* clone executions; execution k is dispatched in epoch k
    Epochs,      \* control epochs
    Results,     \* terminal results
    Refusals,    \* the results an execution that never started may have
    MaxRestarts  \* bound: how often the Node process ends and starts again

None == [none |-> TRUE]

ASSUME CloneLedgerAssumption ==
    /\ Epochs \subseteq Nat \ {0} /\ Execs \subseteq Epochs
    /\ None \notin Results /\ Refusals \subseteq Results /\ MaxRestarts \in Nat

VARIABLES
    controlled, \* runtime_enforcement: this home has enabled runtime control
    binding,    \* runtime_binding: the one bound control epoch
    permit,     \* execution_control.permit
    started,    \* execution_control.started
    status,     \* each execution's state and result
    outbox,     \* clone_outbox
    inc,        \* the incarnation of the Node process
    stopping    \* Shutdown::requested

ledgerVars == <<controlled, binding, permit, started, status, outbox, inc, stopping>>

Incarnations == 1..(MaxRestarts + 1)
Bindings == [epoch : Epochs, closed : BOOLEAN, inc : Incarnations]
Permits == [epoch : Epochs, inc : Incarnations]
States == {"Absent", "Accepted", "Running", "Unknown", "Completed"}

Unfinished == {e \in Execs : status[e].state \notin {"Absent", "Completed"}}

-----------------------------------------------------------------------------
(* Runtime control.                                                         *)

\* Mutant: a binding of the same epoch must name the incarnation already bound.
Binds_MSameIncarnation(b, unfinished) ==
    /\ b.inc = inc
    /\ IF binding = None THEN b.closed \/ unfinished = {}
       ELSE /\ b.epoch >= binding.epoch
            /\ b.epoch = binding.epoch => b.inc = binding.inc /\ (binding.closed => b.closed)
            /\ b.epoch > binding.epoch => unfinished = {}

\* bind_runtime accepts b while `unfinished` executions are open.
Binds(b, unfinished) ==
    /\ b.inc = inc
    /\ IF binding = None THEN b.closed \/ unfinished = {}
       ELSE /\ b.epoch >= binding.epoch
            /\ b.epoch = binding.epoch /\ binding.closed => b.closed
            /\ b.epoch > binding.epoch => unfinished = {}

\* Mutant: the closure of the bound epoch is not looked at.
PermitHolds_MIgnoresClosure(p) ==
    binding # None /\ p.epoch = binding.epoch /\ p.inc = binding.inc

\* validate_runtime_permit, the clock apart.
PermitHolds(p) ==
    /\ binding # None /\ ~binding.closed
    /\ p.epoch = binding.epoch /\ p.inc = binding.inc

\* accept_clone and accept_controlled_clone admit a new execution.
Accepts(e, p, unfinished) ==
    /\ status[e].state = "Absent" /\ ~stopping
    /\ IF controlled
       THEN p # None /\ p.epoch = e /\ p.inc = inc /\ PermitHolds(p) /\ unfinished = {}
       ELSE p = None

\* The answers start_controlled_execution_for can give; a permit that holds may
\* have run out by the time it is read.
MayStart(e) ==
    IF permit[e] = None THEN {~controlled}
    ELSE IF permit[e].inc # inc THEN {FALSE}
    ELSE IF e \in started THEN {TRUE}
    ELSE IF PermitHolds(permit[e]) THEN BOOLEAN ELSE {FALSE}

-----------------------------------------------------------------------------
Init ==
    /\ controlled \in BOOLEAN
    /\ binding = None
    /\ permit = [e \in Execs |-> None] /\ started = {}
    /\ status = [e \in Execs |-> [state |-> "Absent", result |-> None]]
    /\ outbox = {} /\ inc = 1 /\ stopping = FALSE

Bind(b) ==
    /\ controlled /\ Binds(b, Unfinished)
    /\ binding' = b
    /\ UNCHANGED <<controlled, permit, started, status, outbox, inc, stopping>>

Accept(e, p) ==
    /\ Accepts(e, p, Unfinished)
    /\ status' = [status EXCEPT ![e].state = "Accepted"]
    /\ permit' = [permit EXCEPT ![e] = p]
    /\ UNCHANGED <<controlled, binding, started, outbox, inc, stopping>>

Start(e) ==
    /\ status[e].state \notin {"Absent", "Completed"}
    /\ permit[e] # None /\ TRUE \in MayStart(e)
    /\ started' = started \cup {e}
    /\ UNCHANGED <<controlled, binding, permit, status, outbox, inc, stopping>>

\* What was allowed to start goes on, whichever epoch or incarnation follows, and so
\* does what had begun before this home came under control.
Licensed(e) ==
    e \in started \/ (permit[e] = None /\ (controlled => status[e].state # "Accepted"))

\* Work moves an execution between Running and Unknown, in either direction.
Work(e) ==
    /\ status[e].state \in {"Accepted", "Running", "Unknown"} /\ Licensed(e)
    /\ \E s \in {"Running", "Unknown"} : status' = [status EXCEPT ![e].state = s]
    /\ UNCHANGED <<controlled, binding, permit, started, outbox, inc, stopping>>

\* The result and its event commit together.
Complete(e) ==
    /\ status[e].state \in {"Accepted", "Running", "Unknown"}
    /\ \E r \in IF Licensed(e) THEN Results ELSE Refusals :
          status' = [status EXCEPT ![e] = [state |-> "Completed", result |-> r]]
    /\ outbox' = outbox \cup {e}
    /\ UNCHANGED <<controlled, binding, permit, started, inc, stopping>>

\* acknowledge removes the delivery record only.
Acknowledge(e) ==
    /\ status[e].state = "Completed"
    /\ outbox' = outbox \ {e}
    /\ UNCHANGED <<controlled, binding, permit, started, status, inc, stopping>>

Stop ==
    /\ inc <= MaxRestarts /\ ~stopping /\ stopping' = TRUE
    /\ UNCHANGED <<controlled, binding, permit, started, status, outbox, inc>>

\* A new process closes the binding it finds: enforce_runtime_incarnation.  It may be
\* the first that enables runtime control, and none disables it again.
Restart ==
    /\ inc <= MaxRestarts /\ inc' = inc + 1 /\ stopping' = FALSE
    /\ controlled' \in {controlled, TRUE}
    /\ binding' = IF binding = None THEN None ELSE [binding EXCEPT !.closed = TRUE]
    /\ UNCHANGED <<permit, started, status, outbox>>

Next ==
    \/ \E b \in Bindings : Bind(b)
    \/ \E e \in Execs :
          \/ \E p \in Permits \cup {None} : Accept(e, p)
          \/ Start(e) \/ Work(e) \/ Complete(e) \/ Acknowledge(e)
    \/ Stop \/ Restart

Spec == Init /\ [][Next]_ledgerVars

-----------------------------------------------------------------------------
\* What a Node tells has its type, and an execution has a result exactly when it
\* is Completed.
LedgerTypeOK ==
    /\ controlled \in BOOLEAN /\ stopping \in BOOLEAN /\ inc \in Incarnations
    /\ binding \in {None} \cup Bindings
    /\ permit \in [Execs -> {None} \cup Permits]
    /\ started \subseteq Execs /\ outbox \subseteq Execs
    /\ status \in [Execs -> [state : States, result : Results \cup {None}]]
    /\ \A e \in Execs : status[e].state = "Completed" <=> status[e].result # None
====
