---------------------------- MODULE ScopeRuntime ----------------------------
(***************************************************************************)
(* ScopeRuntime<P> (crates/process-runtime/src/scope.rs): the in-memory    *)
(* coordinator of one scope, over an arbitrary Platform.  The platform may *)
(* fail, stay uncertain or contradict itself; every observation and every  *)
(* answer to spawn or signal is a choice of the environment.               *)
(***************************************************************************)
EXTENDS ScopeKernel, FiniteSets

CONSTANTS
    Runs,        \* RunIds
    Graces,      \* graces of the descendant policy, WaitForAll included
    Timeouts,    \* timeouts of stop requests
    Reports,     \* the direct states the platform may report
    MaxTime      \* bound on the clock

ASSUME RuntimeAssumption ==
    /\ MaxTime \in 0..MaxInstant
    /\ Timeouts \subseteq Nat
    /\ Graces \subseteq Nat \cup {WaitForAll}
    /\ Reports \subseteq Directs

VARIABLES
    guarantee,   \* ScopeRuntime.guarantee
    state,       \* ScopeRuntime.state
    runs,        \* ScopeRuntime.runs, a partial function on Runs
    now,         \* the instant the next call reads
    spawns       \* how often each Run crossed Platform::spawn (a history variable)

vars == <<guarantee, state, runs, now, spawns>>

Specs == [grace : Graces]
StopRequests == {ForceRequest} \cup [timeout : Timeouts, notify : BOOLEAN]

Observations ==
    [ok : {TRUE}, direct : Reports, containment : {"Occupied", "Empty", "Unknown"}]
        \cup {[ok |-> FALSE, direct |-> "Unknown", containment |-> "Unknown"]}

Init ==
    /\ \E request \in Requests, capabilities \in Capabilities :
          guarantee \in SelectGuarantee(request, capabilities)
    /\ state = "Open"
    /\ runs = [r \in {} |-> Registered([grace |-> WaitForAll])]
    /\ now = 0
    /\ spawns = [r \in Runs |-> 0]

\* start: a known RunId is answered from its record (or rejected as
\* conflicting) without a spawn; a new one is registered, then spawned.
Start(r, spec) ==
    /\ r \notin DOMAIN runs
    /\ state = "Open"
    /\ \E outcome \in {"Started", "NotStarted", "Unknown"} :
          runs' = [q \in DOMAIN runs \cup {r} |->
                      IF q = r THEN Spawned(Registered(spec), outcome, guarantee) ELSE runs[q]]
    /\ spawns' = [spawns EXCEPT ![r] = @ + 1]
    /\ UNCHANGED <<guarantee, state, now>>

\* close
Close(request) ==
    /\ state \notin Evidences
    /\ ~DeadlineOverflow(request, now)
    /\ state' = "Closing"
    /\ runs' = [r \in DOMAIN runs |-> Stopped(runs[r], request, now)]
    /\ UNCHANGED <<guarantee, now, spawns>>

\* stop_run
StopRun(r, request) ==
    /\ r \in DOMAIN runs
    /\ Complete(runs[r]) \/ ~DeadlineOverflow(request, now)
    /\ runs' = [runs EXCEPT ![r] = Stopped(@, request, now)]
    /\ UNCHANGED <<guarantee, state, now, spawns>>

\* reconcile: every record that is not complete, then the scope itself.  The
\* platform answers each signal with one of answers.
ReconcileWith(answers) ==
    /\ \E obs \in [DOMAIN runs -> Observations], signalled \in [DOMAIN runs -> answers] :
          runs' = [r \in DOMAIN runs |->
                      Reconciled(runs[r], obs[r], signalled[r], guarantee, now)]
    /\ state' = ScopeAfter(state, runs', guarantee)
    /\ UNCHANGED <<guarantee, now, spawns>>

Reconcile == ReconcileWith(BOOLEAN)

Tick ==
    /\ now < MaxTime
    /\ now' = now + 1
    /\ UNCHANGED <<guarantee, state, runs, spawns>>

Next ==
    \/ \E r \in Runs, spec \in Specs : Start(r, spec)
    \/ \E request \in StopRequests : Close(request)
    \/ \E r \in Runs, request \in StopRequests : StopRun(r, request)
    \/ Reconcile
    \/ Tick

Spec == Init /\ [][Next]_vars

-----------------------------------------------------------------------------
(* Safety.                                                                 *)

TypeOK ==
    /\ guarantee \in Guarantees
    /\ state \in ScopeStates
    /\ DOMAIN runs \subseteq Runs
    /\ runs \in [DOMAIN runs -> RunRecords(Specs)]
    /\ now \in 0..MaxTime
    /\ spawns \in [Runs -> Nat]

\* A scope that reports Closed has cleaned up every Run it ever accepted, each
\* with the evidence the scope reports and the guarantee it was opened with.
ClosedIsClean ==
    state \in Evidences =>
        /\ state = cleanup_evidence(guarantee)
        /\ \A r \in DOMAIN runs : runs[r].cleanup = state

\* close leaves no accepted Run behind: while a scope is closing, every Run that
\* is not clean carries a stop plan (a Run registered after close would have none).
ClosingRunsAreStopping ==
    state = "Closing" => \A r \in DOMAIN runs : Complete(runs[r]) \/ runs[r].stop.planned

\* Force is never delivered before the earliest accepted deadline, however
\* requests, the descendant policy and retransmissions tighten the plan.
NoEarlyForce ==
    \A r \in DOMAIN runs : runs[r].stop.forced => now >= runs[r].stop.deadline

\* The three facts of a snapshot never contradict each other, whatever the
\* platform reports: a process seen running or exited was started, one that was
\* never started is clean, and clean containment holds no running process.
FactsAgree ==
    \A r \in DOMAIN runs :
        /\ runs[r].direct \in {"Running"} \cup Exits => runs[r].launch = "Started"
        /\ runs[r].launch = "NotStarted" => runs[r].direct = "NotStarted" /\ Complete(runs[r])
        /\ Complete(runs[r]) => runs[r].direct # "Running"

\* A RunId crosses Platform::spawn exactly once, as it is registered; an uncertain
\* spawn is never retried.
OneSpawn == \A r \in Runs : spawns[r] = IF r \in DOMAIN runs THEN 1 ELSE 0

-----------------------------------------------------------------------------
(* What a step may never do.                                               *)

\* Confirmed facts are final: a launch answer, an exit outcome and a completed
\* cleanup survive every later observation, and no Run is forgotten.
FactsAreFinal ==
    [][\A r \in DOMAIN runs : r \in DOMAIN runs' /\ FactsAdvance(runs[r], runs'[r])]_vars

\* Accepted stop responsibility only grows: no request, retransmission or policy
\* postpones a deadline, revokes a notification or forgets a delivered signal.
StopsOnlyTighten ==
    [][\A r \in DOMAIN runs : PlanAdvances(runs[r].stop, runs'[r].stop)]_vars

\* Closing seals admission for good: no Run is registered afterwards, and the
\* scope never reopens.
AdmissionStaysSealed ==
    [][state # "Open" => state' # "Open" /\ DOMAIN runs' = DOMAIN runs]_vars

-----------------------------------------------------------------------------
(* Liveness.  The guardian reconciles every 50 ms and instants pass; a     *)
(* reconciliation whose signals are all delivered eventually happens.      *)

DeliveringReconcile == ReconcileWith({TRUE})

FairSpec == Spec /\ WF_vars(Tick) /\ WF_vars(DeliveringReconcile)

\* A Run with an accepted stop is eventually clean or has been sent Force: waiting
\* and notifying never replace the deadline.
StopsAreForced ==
    \A r \in Runs :
        (r \in DOMAIN runs /\ runs[r].stop.planned)
            ~> (r \in DOMAIN runs /\ (Complete(runs[r]) \/ runs[r].stop.forced))
=============================================================================
