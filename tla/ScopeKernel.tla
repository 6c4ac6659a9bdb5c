----------------------------- MODULE ScopeKernel -----------------------------
(***************************************************************************)
(* The pure part of the process-runtime kernel (crates/process-runtime):   *)
(* stop plans (stop.rs) and what ScopeRuntime (scope.rs) does to the       *)
(* record of one Run.  The state machine ScopeRuntime and the guardian     *)
(* model Guardian are both built from these operators.                     *)
(*                                                                         *)
(* A definition whose name ends in _M and a word is a mutant: the next     *)
(* definition with a plausible bug in it, to show that a property can fail.*)
(***************************************************************************)
EXTENDS Integers

CONSTANT MaxInstant    \* the last instant a deadline can be represented at

ASSUME MaxInstantAssumption == MaxInstant \in Nat

-----------------------------------------------------------------------------
(* Facts.  An exit with an outcome is that outcome, Exited(Unknown) is     *)
(* "ExitUnknown"; Complete(evidence) and Closed(evidence) are the evidence *)
(* itself.                                                                 *)

Outcomes == {"Code", "Signal"}
Exits == Outcomes \cup {"ExitUnknown"}
Directs == {"NotStarted", "Running", "Unknown"} \cup Exits
Launches == {"NotStarted", "Started", "Unknown"}
Evidences == {"ConfirmedQuiescence", "BestEffortComplete"}
Cleanups == {"Pending", "Blocked"} \cup Evidences
ScopeStates == {"Open", "Closing"} \cup Evidences
Guarantees == {"Strong", "BestEffort"}

Requests == {"RequireStrong", "PreferStrong", "BestEffort"}
Capabilities == {"Unavailable", "BestEffortOnly", "StrongOnly", "StrongAndBestEffort"}

\* The guarantee a scope is opened with; {} when admission fails.
SelectGuarantee(request, capabilities) ==
    CASE /\ request \in {"RequireStrong", "PreferStrong"}
         /\ capabilities \in {"StrongOnly", "StrongAndBestEffort"} -> {"Strong"}
      [] \/ request \in {"PreferStrong", "BestEffort"} /\ capabilities = "BestEffortOnly"
         \/ request = "BestEffort" /\ capabilities = "StrongAndBestEffort" -> {"BestEffort"}
      [] OTHER -> {}

cleanup_evidence(guarantee) ==
    IF guarantee = "Strong" THEN "ConfirmedQuiescence" ELSE "BestEffortComplete"

Complete(record) == record.cleanup \in Evidences

-----------------------------------------------------------------------------
(* StopPlan.  A stop request is a timeout and whether to notify first;     *)
(* Force is a timeout of zero without notification.  A record without a    *)
(* plan holds NoPlan.                                                      *)

ForceRequest == [timeout |-> 0, notify |-> FALSE]

Plans == [planned : BOOLEAN, deadline : 0..MaxInstant,
          notify : BOOLEAN, notified : BOOLEAN, forced : BOOLEAN]

NoPlan == [planned |-> FALSE, deadline |-> 0,
           notify |-> FALSE, notified |-> FALSE, forced |-> FALSE]

\* Mutant: checked_add replaced by an unchecked addition.
DeadlineOverflow_MUnchecked(request, now) == FALSE

DeadlineOverflow(request, now) == now + request.timeout > MaxInstant

NewPlan(request, now) ==
    [planned |-> TRUE, deadline |-> now + request.timeout, notify |-> request.notify,
     notified |-> FALSE, forced |-> FALSE]

Tighten(plan, incoming) ==
    [plan EXCEPT !.deadline = IF incoming.deadline < @ THEN incoming.deadline ELSE @,
                 !.notify = @ \/ incoming.notify]

\* What close, stop_run and reconcile all do with a new request.
TightenOrSet(plan, incoming) ==
    IF plan.planned THEN Tighten(plan, incoming) ELSE incoming

\* Mutant: a delivered notification is taken for the end of the plan.
PendingSignal_MNotifiedIsDone(plan, now) ==
    CASE ~plan.planned \/ plan.forced \/ plan.notified -> "None"
      [] OTHER -> IF now >= plan.deadline THEN "Force"
                  ELSE IF plan.notify THEN "RequestExit" ELSE "None"

\* Mutant: force does not wait for the deadline once the notification is out.
PendingSignal_MImpatient(plan, now) ==
    CASE ~plan.planned \/ plan.forced -> "None"
      [] OTHER -> IF plan.notify /\ ~plan.notified THEN "RequestExit" ELSE "Force"

PendingSignal(plan, now) ==
    CASE ~plan.planned \/ plan.forced -> "None"
      [] plan.planned /\ ~plan.forced /\ now >= plan.deadline -> "Force"
      [] plan.planned /\ ~plan.forced /\ now < plan.deadline ->
            IF plan.notify /\ ~plan.notified THEN "RequestExit" ELSE "None"

Delivered(plan, signal) ==
    IF signal = "Force" THEN [plan EXCEPT !.forced = TRUE] ELSE [plan EXCEPT !.notified = TRUE]

-----------------------------------------------------------------------------
(* RunRecord.  A specification is what the kernel reads of RunSpec: its    *)
(* identity and the grace of DescendantPolicy::Cleanup (WaitForAll is -1). *)

WaitForAll == -1

RunRecords(specs) ==
    [spec : specs, launch : Launches, direct : Directs, cleanup : Cleanups, stop : Plans]

\* The record before the side-effect boundary, and after each answer of spawn.
Registered(spec) ==
    [spec |-> spec, launch |-> "Unknown", direct |-> "Unknown",
     cleanup |-> "Pending", stop |-> NoPlan]

Spawned(record, outcome, guarantee) ==
    CASE outcome = "Started" -> [record EXCEPT !.launch = "Started", !.direct = "Running"]
      [] outcome = "NotStarted" ->
            [record EXCEPT !.launch = "NotStarted", !.direct = "NotStarted",
                           !.cleanup = cleanup_evidence(guarantee)]
      [] OTHER -> record

\* stop_run, and close for one record.
Stopped(record, request, now) ==
    IF Complete(record) THEN record
    ELSE [record EXCEPT !.stop = TightenOrSet(@, NewPlan(request, now))]

\* An observation the kernel refuses: it contradicts a fact already confirmed.
Contradicts(record, obs) ==
    \/ record.launch = "Started" /\ obs.direct = "NotStarted"
    \/ obs.containment = "Empty" /\ obs.direct = "Running"
    \/ record.direct \in Exits /\ obs.direct \in {"NotStarted", "Running"}
    \/ record.direct \in Outcomes /\ obs.direct \in Outcomes \ {record.direct}

\* Mutant: the latest observation wins.
MergeDirect_MLatest(previous, current) == current

\* Terminal evidence is monotone: a missing status is refined, never retracted.
MergeDirect(previous, current) ==
    IF previous \in Exits /\ current \in {"Unknown", "ExitUnknown"} THEN previous ELSE current

\* The descendant policy's own stop request, once the direct process has exited.
Cleaning(record) ==
    /\ ~Complete(record)
    /\ record.direct \in Exits
    /\ record.spec.grace # WaitForAll

GraceRequest(record) == [timeout |-> record.spec.grace, notify |-> TRUE]

Observed(record, obs, guarantee) ==
    [record EXCEPT
        !.direct = MergeDirect(@, obs.direct),
        !.cleanup = IF obs.containment = "Empty" THEN cleanup_evidence(guarantee) ELSE "Pending",
        !.launch = IF obs.direct \in {"Running"} \cup Exits THEN "Started" ELSE @]

\* The observation half of reconcile on one record: the record it leaves and
\* whether it failed.  obs.ok is FALSE when Platform::observe fails.
Observe(record, obs, guarantee, now) ==
    IF ~obs.ok \/ Contradicts(record, obs)
    THEN [record |-> record, ok |-> FALSE]
    ELSE LET seen == Observed(record, obs, guarantee) IN
         IF ~Cleaning(seen) THEN [record |-> seen, ok |-> TRUE]
         ELSE IF DeadlineOverflow(GraceRequest(seen), now)
              THEN [record |-> seen, ok |-> FALSE]
              ELSE [record |-> [seen EXCEPT !.stop =
                                    TightenOrSet(@, NewPlan(GraceRequest(seen), now))],
                    ok |-> TRUE]

\* The signal reconcile owes after the observation half.
Owed(record, now) == IF Complete(record) THEN "None" ELSE PendingSignal(record.stop, now)

\* One record through the loop body of reconcile: observation and delivery
\* fail independently, and either failure leaves the record Blocked.
Reconciled(record, obs, signalled, guarantee, now) ==
    IF Complete(record) THEN record
    ELSE LET half == Observe(record, obs, guarantee, now)
             owed == Owed(half.record, now)
             after == IF owed # "None" /\ signalled
                      THEN [half.record EXCEPT !.stop = Delivered(@, owed)]
                      ELSE half.record
         IN  IF half.ok /\ (owed = "None" \/ signalled) THEN after
             ELSE [after EXCEPT !.cleanup = "Blocked"]

\* Mutant: a blocked cleanup does not hold the scope open.
ScopeAfter_MIgnoresBlocked(state, runs, guarantee) ==
    IF state = "Closing" /\ \A r \in DOMAIN runs : runs[r].cleanup # "Pending"
    THEN cleanup_evidence(guarantee) ELSE state

\* The end of reconcile: a closing scope closes once every Run is clean.
ScopeAfter(state, runs, guarantee) ==
    IF state = "Closing" /\ \A r \in DOMAIN runs : Complete(runs[r])
    THEN cleanup_evidence(guarantee) ELSE state

-----------------------------------------------------------------------------
(* What confirmed facts and accepted stops may become.  Properties of the  *)
(* kernel, of the guardian's journal and of the host's are stated with it. *)

FactsAdvance(before, after) ==
    /\ before.launch # "Unknown" => after.launch = before.launch
    /\ before.direct \in Outcomes => after.direct = before.direct
    /\ before.direct = "ExitUnknown" => after.direct \in Exits
    /\ Complete(before) => after.launch = before.launch /\ after.direct = before.direct
                              /\ after.cleanup = before.cleanup

PlanAdvances(before, after) ==
    before.planned =>
        /\ after.planned
        /\ after.deadline <= before.deadline
        /\ before.notify => after.notify
        /\ before.notified => after.notified
        /\ before.forced => after.forced
=============================================================================
