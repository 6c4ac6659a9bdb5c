------------------------- MODULE ScopeKernelProofs -------------------------
(***************************************************************************)
(* What the operators of ScopeKernel keep, for any set of specifications,  *)
(* guarantee, instant and platform answer.  The proofs about ScopeRuntime  *)
(* and about Guardian both rest on these lemmas.                           *)
(***************************************************************************)
EXTENDS ScopeKernel, TLAPS

-----------------------------------------------------------------------------
(* Stop plans.                                                             *)

\* StopPlan::new on a request that does not overflow builds a plan that has
\* delivered nothing.
LEMMA NewPlanType ==
    ASSUME NEW request, request.timeout \in Nat, request.notify \in BOOLEAN,
           NEW t \in 0..MaxInstant, ~DeadlineOverflow(request, t)
    PROVE  /\ NewPlan(request, t) \in Plans
           /\ NewPlan(request, t).planned
           /\ ~NewPlan(request, t).forced
  BY MaxInstantAssumption DEF NewPlan, Plans, DeadlineOverflow

\* StopPlan::tighten, or setting the first plan, keeps everything already accepted.
LEMMA TightenOrSetAdvances ==
    ASSUME NEW plan \in Plans, NEW incoming \in Plans, incoming.planned, ~incoming.forced
    PROVE  /\ TightenOrSet(plan, incoming) \in Plans
           /\ TightenOrSet(plan, incoming).planned
           /\ PlanAdvances(plan, TightenOrSet(plan, incoming))
           /\ TightenOrSet(plan, incoming).forced => plan.forced /\ plan.planned
  <1>1. CASE ~plan.planned
    BY <1>1 DEF TightenOrSet, PlanAdvances
  <1>2. CASE plan.planned
    <2> DEFINE after == Tighten(plan, incoming)
    <2>1. after.planned = plan.planned /\ after.notified = plan.notified /\ after.forced = plan.forced
      BY DEF Tighten, Plans
    <2>2. after.notify = (plan.notify \/ incoming.notify)
      BY DEF Tighten, Plans
    <2>3. after.deadline = IF incoming.deadline < plan.deadline THEN incoming.deadline ELSE plan.deadline
      BY DEF Tighten, Plans
    <2>4. after \in Plans
      BY MaxInstantAssumption DEF Tighten, Plans
    <2>5. PlanAdvances(plan, after)
      BY <2>1, <2>2, <2>3, MaxInstantAssumption DEF PlanAdvances, Plans
    <2> QED BY <1>2, <2>1, <2>4, <2>5 DEF TightenOrSet
  <1> QED BY <1>1, <1>2 DEF Plans

\* StopPlan::delivered acknowledges a pending signal only, and Force only at the deadline.
LEMMA DeliveredAdvances ==
    ASSUME NEW plan \in Plans, NEW t \in Nat, PendingSignal(plan, t) # "None"
    PROVE  LET after == Delivered(plan, PendingSignal(plan, t)) IN
           /\ after \in Plans
           /\ after.planned
           /\ PlanAdvances(plan, after)
           /\ after.forced => t >= after.deadline
  <1>1. plan.planned /\ ~plan.forced
    BY DEF PendingSignal, Plans
  <1>2. PendingSignal(plan, t) = "Force" => t >= plan.deadline
    BY MaxInstantAssumption DEF PendingSignal, Plans
  <1>3. CASE PendingSignal(plan, t) = "Force"
    <2> DEFINE after == [plan EXCEPT !.forced = TRUE]
    <2>1. after \in Plans /\ after.deadline = plan.deadline /\ after.planned
      BY <1>1 DEF Plans
    <2>2. PlanAdvances(plan, after)
      BY MaxInstantAssumption, <2>1 DEF PlanAdvances, Plans
    <2> QED BY <1>2, <1>3, <2>1, <2>2 DEF Delivered
  <1>4. CASE PendingSignal(plan, t) # "Force"
    <2> DEFINE after == [plan EXCEPT !.notified = TRUE]
    <2>1. after \in Plans /\ after.planned /\ ~after.forced
      BY <1>1 DEF Plans
    <2>2. PlanAdvances(plan, after)
      BY MaxInstantAssumption, <1>1 DEF PlanAdvances, Plans
    <2> QED BY <1>4, <2>1, <2>2 DEF Delivered
  <1> QED BY <1>3, <1>4

-----------------------------------------------------------------------------
(* Records.                                                                *)

\* What every record satisfies under guarantee g at instant t.
RecordOK(record, specs, g, t) ==
    /\ record \in RunRecords(specs)
    /\ Complete(record) => record.cleanup = cleanup_evidence(g) /\ record.direct # "Running"
    /\ record.stop.forced => t >= record.stop.deadline
    /\ record.direct \in {"Running"} \cup Exits => record.launch = "Started"
    /\ record.launch = "NotStarted" => record.direct = "NotStarted" /\ Complete(record)

\* A set of specifications the descendant policy can act on.
Graced(specs) == \A spec \in specs : spec.grace \in Nat \cup {WaitForAll}

\* What a call may do to one record.
RecordAdvances(before, after) ==
    /\ FactsAdvance(before, after)
    /\ PlanAdvances(before.stop, after.stop)

\* Records and plans that stay as they are advance, in the sense of the properties.
LEMMA RecordStays ==
    ASSUME NEW specs, NEW record \in RunRecords(specs)
    PROVE  RecordAdvances(record, record)
  BY MaxInstantAssumption
  DEF RecordAdvances, FactsAdvance, PlanAdvances, RunRecords, Plans, Exits

\* What was confirmed before an earlier step is still confirmed after a later one.
LEMMA FactsAdvanceTransitive ==
    ASSUME NEW a, NEW b, NEW c, FactsAdvance(a, b), FactsAdvance(b, c)
    PROVE  FactsAdvance(a, c)
  BY DEF FactsAdvance, Complete, Exits

\* A deadline that has passed has passed for good.
LEMMA RecordLater ==
    ASSUME NEW specs, NEW record, NEW g, NEW t \in Nat, NEW u \in Nat, u >= t,
           RecordOK(record, specs, g, t)
    PROVE  RecordOK(record, specs, g, u)
  BY MaxInstantAssumption DEF RecordOK, RunRecords, Plans

\* Platform evidence is one of the two kinds of evidence.
LEMMA EvidenceType == \A g : cleanup_evidence(g) \in Evidences
  BY DEF cleanup_evidence, Evidences

\* start registers a record that satisfies the invariant, whatever spawn answers.
LEMMA SpawnedOK ==
    ASSUME NEW specs, NEW spec \in specs, NEW outcome, NEW g, NEW t \in 0..MaxInstant
    PROVE  RecordOK(Spawned(Registered(spec), outcome, g), specs, g, t)
  <1>1. NoPlan \in Plans /\ ~NoPlan.forced
    BY MaxInstantAssumption DEF NoPlan, Plans
  <1>2. Registered(spec) \in RunRecords(specs) /\ Registered(spec).stop = NoPlan
    BY <1>1 DEF Registered, RunRecords, Launches, Directs, Cleanups
  <1>3. CASE outcome = "Started"
    BY <1>1, <1>3 DEF Spawned, Registered, RunRecords, RecordOK, Launches, Directs, Cleanups,
                Complete, Evidences, Exits, Outcomes
  <1>4. CASE outcome = "NotStarted"
    BY <1>1, <1>4, EvidenceType
    DEF Spawned, Registered, RunRecords, RecordOK, Launches, Directs, Cleanups, Complete,
        Exits, Outcomes
  <1>5. CASE outcome \notin {"Started", "NotStarted"}
    BY <1>1, <1>5 DEF Spawned, Registered, RunRecords, RecordOK, Launches, Directs, Cleanups,
                Complete, Evidences, Exits, Outcomes
  <1> QED BY <1>3, <1>4, <1>5

\* Replacing the stop plan of a record by a later one of its own keeps the record's facts.
LEMMA ReplacePlan ==
    ASSUME NEW specs, NEW record \in RunRecords(specs), NEW plan \in Plans
    PROVE  LET after == [record EXCEPT !.stop = plan] IN
           /\ after \in RunRecords(specs)
           /\ after.stop = plan
           /\ after.spec = record.spec
           /\ after.launch = record.launch
           /\ after.direct = record.direct
           /\ after.cleanup = record.cleanup
  BY DEF RunRecords

\* stop_run and close leave a complete record alone and otherwise only add to its plan.
LEMMA StoppedOK ==
    ASSUME NEW specs, NEW record, NEW g, NEW t \in 0..MaxInstant, RecordOK(record, specs, g, t),
           NEW request, request.timeout \in Nat, request.notify \in BOOLEAN,
           Complete(record) \/ ~DeadlineOverflow(request, t)
    PROVE  LET after == Stopped(record, request, t) IN
           /\ RecordOK(after, specs, g, t)
           /\ RecordAdvances(record, after)
           /\ Complete(after) \/ after.stop.planned
           /\ Complete(record) => after = record
  <1>1. CASE Complete(record)
    BY <1>1 DEF Stopped, RecordAdvances, FactsAdvance, PlanAdvances, RecordOK, RunRecords, Plans,
                Exits
  <1>2. CASE ~Complete(record)
    <2> DEFINE plan == TightenOrSet(record.stop, NewPlan(request, t))
               after == [record EXCEPT !.stop = plan]
    <2>2. record \in RunRecords(specs) /\ record.stop \in Plans
      BY DEF RecordOK, RunRecords
    <2>3. /\ plan \in Plans
          /\ plan.planned
          /\ PlanAdvances(record.stop, plan)
          /\ plan.forced => record.stop.forced /\ record.stop.planned
      BY <1>2, <2>2, NewPlanType, TightenOrSetAdvances
    <2>4. plan.forced => t >= plan.deadline
      BY <2>2, <2>3, MaxInstantAssumption DEF PlanAdvances, RecordOK, Plans
    <2>5. /\ after \in RunRecords(specs)
          /\ after.stop = plan
          /\ after.launch = record.launch
          /\ after.direct = record.direct
          /\ after.cleanup = record.cleanup
      BY <2>2, <2>3, ReplacePlan
    <2> HIDE DEF plan, after
    <2>6. RecordOK(after, specs, g, t) /\ FactsAdvance(record, after)
      BY <1>2, <2>4, <2>5 DEF RecordOK, FactsAdvance, Complete, Exits
    <2>7. Stopped(record, request, t) = after
      BY <1>2 DEF Stopped, after, plan
    <2> QED BY <1>2, <2>3, <2>5, <2>6, <2>7 DEF RecordAdvances
  <1> QED BY <1>1, <1>2

\* The observation half of reconcile keeps the invariant and every confirmed fact,
\* and a failed half never completes a cleanup.
LEMMA ObserveOK ==
    ASSUME NEW specs, Graced(specs), NEW record, NEW g, NEW t \in 0..MaxInstant,
           RecordOK(record, specs, g, t), ~Complete(record), NEW obs, obs.direct \in Directs
    PROVE  LET half == Observe(record, obs, g, t) IN
           /\ RecordOK(half.record, specs, g, t)
           /\ RecordAdvances(record, half.record)
           /\ ~half.ok => ~Complete(half.record)
  <1> DEFINE seen == Observed(record, obs, g)
             plan == TightenOrSet(seen.stop, NewPlan(GraceRequest(seen), t))
             after == [seen EXCEPT !.stop = plan]
  <1>1. record \in RunRecords(specs) /\ record.stop \in Plans
    BY DEF RecordOK, RunRecords
  <1>3. CASE ~obs.ok \/ Contradicts(record, obs)
    <2>1. Observe(record, obs, g, t) = [record |-> record, ok |-> FALSE]
      BY <1>3 DEF Observe
    <2> QED BY <1>1, <2>1 DEF RecordAdvances, FactsAdvance, PlanAdvances, Plans, Exits
  <1>4. CASE obs.ok /\ ~Contradicts(record, obs)
    <2>1. /\ seen.spec = record.spec
          /\ seen.stop = record.stop
          /\ seen.direct = MergeDirect(record.direct, obs.direct)
          /\ seen.cleanup = IF obs.containment = "Empty" THEN cleanup_evidence(g) ELSE "Pending"
          /\ seen.launch = IF obs.direct \in {"Running"} \cup Exits THEN "Started" ELSE record.launch
      BY <1>1 DEF Observed, RunRecords
    <2>2. seen \in RunRecords(specs)
      BY <1>1, EvidenceType
      DEF Observed, RunRecords, MergeDirect, Launches, Directs, Cleanups
    <2> HIDE DEF seen
    <2>3. RecordOK(seen, specs, g, t)
      BY <1>4, <2>1, <2>2, EvidenceType
      DEF RecordOK, Contradicts, MergeDirect, Complete, Exits, Outcomes, Directs, Evidences
    <2>4. FactsAdvance(record, seen)
      BY <1>1, <1>4, <2>1
      DEF RecordOK, FactsAdvance, Contradicts, MergeDirect, Complete, Exits, Outcomes, Directs,
          RunRecords, Launches
    <2>5. PlanAdvances(record.stop, seen.stop)
      BY <1>1, <2>1, MaxInstantAssumption DEF PlanAdvances, Plans
    <2>6. CASE ~Cleaning(seen)
      <3>1. Observe(record, obs, g, t) = [record |-> seen, ok |-> TRUE]
        BY <1>4, <2>6 DEF Observe, seen
      <3> QED BY <2>3, <2>4, <2>5, <3>1 DEF RecordAdvances
    <2>7. CASE Cleaning(seen) /\ DeadlineOverflow(GraceRequest(seen), t)
      <3>1. Observe(record, obs, g, t) = [record |-> seen, ok |-> FALSE]
        BY <1>4, <2>7 DEF Observe, seen
      <3> QED BY <2>3, <2>4, <2>5, <2>7, <3>1 DEF RecordAdvances, Cleaning
    <2>8. CASE Cleaning(seen) /\ ~DeadlineOverflow(GraceRequest(seen), t)
      <3>1. Observe(record, obs, g, t) = [record |-> after, ok |-> TRUE]
        BY <1>4, <2>8 DEF Observe, seen
      <3>2. GraceRequest(seen).timeout \in Nat /\ GraceRequest(seen).notify \in BOOLEAN
        BY <2>2, <2>8 DEF GraceRequest, Cleaning, RunRecords, Graced, WaitForAll
      <3>3. /\ plan \in Plans
            /\ plan.planned
            /\ PlanAdvances(seen.stop, plan)
            /\ plan.forced => seen.stop.forced /\ seen.stop.planned
        BY <1>1, <2>1, <2>8, <3>2, NewPlanType, TightenOrSetAdvances
      <3>4. plan.forced => t >= plan.deadline
        BY <1>1, <2>1, <2>3, <3>3, MaxInstantAssumption DEF PlanAdvances, RecordOK, Plans
      <3>5. /\ after \in RunRecords(specs)
            /\ after.stop = plan
            /\ after.launch = seen.launch
            /\ after.direct = seen.direct
            /\ after.cleanup = seen.cleanup
        BY <2>2, <3>3, ReplacePlan
      <3> HIDE DEF plan, after
      <3>6. RecordOK(after, specs, g, t) /\ FactsAdvance(record, after)
        BY <2>3, <2>4, <3>4, <3>5 DEF RecordOK, FactsAdvance, Complete
      <3> QED BY <2>1, <3>1, <3>3, <3>5, <3>6 DEF RecordAdvances
    <2> QED BY <2>6, <2>7, <2>8
  <1> QED BY <1>3, <1>4

\* The loop body of reconcile keeps the invariant, every confirmed fact and every
\* accepted stop; a complete record is not touched.
LEMMA ReconciledOK ==
    ASSUME NEW specs, Graced(specs), NEW record, NEW g, NEW t \in 0..MaxInstant,
           RecordOK(record, specs, g, t), NEW obs, obs.direct \in Directs,
           NEW signalled \in BOOLEAN
    PROVE  LET after == Reconciled(record, obs, signalled, g, t) IN
           /\ RecordOK(after, specs, g, t)
           /\ RecordAdvances(record, after)
           /\ Complete(record) => after = record
           /\ record.stop.planned => after.stop.planned
  <1>1. CASE Complete(record)
    BY <1>1 DEF Reconciled, RecordAdvances, FactsAdvance, PlanAdvances, RecordOK, RunRecords, Plans,
                Exits
  <1>2. CASE ~Complete(record)
    <2> DEFINE half == Observe(record, obs, g, t)
               owed == Owed(half.record, t)
               sent == owed # "None" /\ signalled
               after == IF sent THEN [half.record EXCEPT !.stop = Delivered(@, owed)]
                        ELSE half.record
               ok == half.ok /\ (owed = "None" \/ signalled)
               blocked == [after EXCEPT !.cleanup = "Blocked"]
    <2>1. /\ RecordOK(half.record, specs, g, t)
          /\ RecordAdvances(record, half.record)
          /\ ~half.ok => ~Complete(half.record)
      BY <1>2, ObserveOK
    <2>2. half.record \in RunRecords(specs) /\ half.record.stop \in Plans
      BY <2>1 DEF RecordOK, RunRecords
    <2>3. Reconciled(record, obs, signalled, g, t) = IF ok THEN after ELSE blocked
      BY <1>2 DEF Reconciled
    <2> HIDE DEF half
    <2>4. /\ RecordOK(after, specs, g, t)
          /\ RecordAdvances(record, after)
          /\ after.cleanup = half.record.cleanup
      <3>1. CASE ~sent
        BY <2>1, <3>1
      <3>2. CASE sent
        <4> DEFINE plan == Delivered(half.record.stop, owed)
        <4>1. owed = PendingSignal(half.record.stop, t)
          BY <3>2 DEF Owed
        <4>2. t \in Nat
          BY MaxInstantAssumption
        <4>3. /\ plan \in Plans
              /\ plan.planned
              /\ PlanAdvances(half.record.stop, plan)
              /\ plan.forced => t >= plan.deadline
          BY <2>2, <3>2, <4>1, <4>2, DeliveredAdvances
        <4>4. /\ after \in RunRecords(specs)
              /\ after.stop = plan
              /\ after.launch = half.record.launch
              /\ after.direct = half.record.direct
              /\ after.cleanup = half.record.cleanup
          BY <2>2, <3>2, <4>3, ReplacePlan
        <4> HIDE DEF plan, after
        <4>5. RecordOK(after, specs, g, t)
          BY <2>1, <4>3, <4>4 DEF RecordOK, Complete
        <4>6. FactsAdvance(record, after)
          BY <1>2, <2>1, <4>4 DEF RecordAdvances, FactsAdvance
        <4>7. record.stop \in Plans
          BY DEF RecordOK, RunRecords
        <4>8. PlanAdvances(record.stop, after.stop)
          BY <2>1, <2>2, <4>3, <4>4, <4>7, MaxInstantAssumption
          DEF RecordAdvances, PlanAdvances, Plans
        <4> QED BY <4>4, <4>5, <4>6, <4>8 DEF RecordAdvances
      <3> QED BY <3>1, <3>2
    <2> HIDE DEF after
    <2>5. CASE ok
      BY <1>2, <2>3, <2>4, <2>5 DEF RecordAdvances, PlanAdvances
    <2>6. CASE ~ok
      <3>1. ~Complete(after)
        BY <2>1, <2>4, <2>6 DEF Complete, Owed
      <3>2. /\ blocked \in RunRecords(specs)
            /\ blocked.stop = after.stop
            /\ blocked.launch = after.launch
            /\ blocked.direct = after.direct
            /\ blocked.cleanup = "Blocked"
        BY <2>4 DEF RecordOK, RunRecords, Cleanups
      <3> HIDE DEF blocked
      <3>3. ~Complete(blocked)
        BY <3>2 DEF Complete, Evidences
      <3>4. RecordOK(blocked, specs, g, t)
        BY <2>4, <3>1, <3>2, <3>3 DEF RecordOK
      <3>5. RecordAdvances(record, blocked)
        BY <1>2, <2>4, <3>2 DEF RecordAdvances, FactsAdvance
      <3> QED BY <1>2, <2>3, <2>6, <3>4, <3>5 DEF RecordAdvances, PlanAdvances
    <2> QED BY <2>5, <2>6
  <1> QED BY <1>1, <1>2
=============================================================================
