------------------------- MODULE ScopeRuntimeProofs -------------------------
(***************************************************************************)
(* The safety of ScopeRuntime for every set of Runs, every policy, every   *)
(* stop request, every clock bound and every platform.  IInv is inductive; *)
(* to the stated invariants it adds that a completed record holds the      *)
(* evidence of the scope's guarantee (RecordOK): without it a scope could  *)
(* close over records whose evidence differs from its own.                 *)
(***************************************************************************)
EXTENDS ScopeRuntime, ScopeKernelProofs

IInv ==
    /\ guarantee \in Guarantees
    /\ state \in ScopeStates
    /\ DOMAIN runs \subseteq Runs
    /\ runs = [r \in DOMAIN runs |-> runs[r]]
    /\ now \in 0..MaxTime
    /\ spawns \in [Runs -> Nat]
    /\ \A r \in DOMAIN runs : RecordOK(runs[r], Specs, guarantee, now)
    /\ ClosedIsClean
    /\ ClosingRunsAreStopping
    /\ OneSpawn

-----------------------------------------------------------------------------
(* Inputs.                                                                 *)

\* Every instant the clock shows can be represented.
LEMMA ClockType == 0..MaxTime \subseteq 0..MaxInstant
  BY RuntimeAssumption, MaxInstantAssumption

\* Every descendant policy waits or has a grace.
LEMMA SpecsGraced == Graced(Specs)
  BY RuntimeAssumption DEF Graced, Specs

\* Every stop request has a timeout and says whether to notify.
LEMMA StopRequestType ==
    ASSUME NEW request \in StopRequests
    PROVE  request.timeout \in Nat /\ request.notify \in BOOLEAN
  <1>1. ForceRequest.timeout \in Nat /\ ForceRequest.notify \in BOOLEAN
    BY DEF ForceRequest
  <1>2. ASSUME request \in [timeout : Timeouts, notify : BOOLEAN]
        PROVE  request.timeout \in Nat /\ request.notify \in BOOLEAN
    BY <1>2, RuntimeAssumption
  <1> QED BY <1>1, <1>2 DEF StopRequests

\* Every answer of Platform::observe names a direct state.
LEMMA ObservationType ==
    ASSUME NEW obs \in Observations
    PROVE  obs.direct \in Directs
  <1>1. ASSUME obs \in [ok : {TRUE}, direct : Reports,
                        containment : {"Occupied", "Empty", "Unknown"}]
        PROVE  obs.direct \in Directs
    BY <1>1, RuntimeAssumption
  <1>2. ASSUME obs = [ok |-> FALSE, direct |-> "Unknown", containment |-> "Unknown"]
        PROVE  obs.direct \in Directs
    BY <1>2 DEF Directs
  <1> QED BY <1>1, <1>2 DEF Observations

-----------------------------------------------------------------------------
(* The state machine.                                                      *)

\* What any step does to the scope: confirmed facts and accepted stops survive,
\* and a sealed scope neither reopens nor grows.
StepAdvances ==
    /\ \A r \in DOMAIN runs : r \in DOMAIN runs' /\ RecordAdvances(runs[r], runs'[r])
    /\ state # "Open" => state' # "Open" /\ DOMAIN runs' = DOMAIN runs

\* A fresh scope satisfies the inductive invariant (ScopeRuntime::new).
LEMMA InitOK == Init => IInv
  <1> SUFFICES ASSUME Init PROVE IInv
    OBVIOUS
  <1>1. DOMAIN runs = {}
    BY DEF Init
  <1>2. runs = [r \in DOMAIN runs |-> runs[r]]
    BY DEF Init
  <1>3. guarantee \in Guarantees
    BY DEF Init, SelectGuarantee, Guarantees
  <1> QED BY <1>1, <1>2, <1>3, RuntimeAssumption
          DEF Init, IInv, ScopeStates, ClosedIsClean, ClosingRunsAreStopping, OneSpawn, Evidences

\* start preserves the invariant and only advances.
LEMMA StartOK ==
    ASSUME IInv, NEW r \in Runs, NEW spec \in Specs, Start(r, spec)
    PROVE  IInv' /\ StepAdvances
  <1>1. PICK outcome \in {"Started", "NotStarted", "Unknown"} :
            runs' = [q \in DOMAIN runs \cup {r} |->
                        IF q = r THEN Spawned(Registered(spec), outcome, guarantee) ELSE runs[q]]
    BY DEF Start
  <1>2. /\ r \notin DOMAIN runs
        /\ state = "Open"
        /\ spawns' = [spawns EXCEPT ![r] = @ + 1]
        /\ UNCHANGED <<guarantee, state, now>>
    BY DEF Start
  <1>3. \A q \in DOMAIN runs' : RecordOK(runs'[q], Specs, guarantee', now')
    BY <1>1, <1>2, SpawnedOK, ClockType DEF IInv
  <1>4. \A q \in DOMAIN runs : q \in DOMAIN runs' /\ runs'[q] = runs[q]
    BY <1>1, <1>2
  <1>5. \A q \in DOMAIN runs : RecordAdvances(runs[q], runs'[q])
    BY <1>4, RecordStays DEF IInv, RecordOK
  <1>6. OneSpawn'
    BY <1>1, <1>2 DEF IInv, OneSpawn
  <1>7. ClosedIsClean' /\ ClosingRunsAreStopping'
    BY <1>2 DEF ClosedIsClean, ClosingRunsAreStopping, Evidences
  <1>8. spawns' \in [Runs -> Nat]
    BY <1>2 DEF IInv
  <1>9. StepAdvances
    BY <1>2, <1>4, <1>5 DEF StepAdvances
  <1>10. DOMAIN runs' \subseteq Runs /\ runs' = [q \in DOMAIN runs' |-> runs'[q]]
    BY <1>1 DEF IInv
  <1>11. guarantee' \in Guarantees /\ state' \in ScopeStates /\ now' \in 0..MaxTime
    BY <1>2 DEF IInv
  <1> QED BY <1>3, <1>6, <1>7, <1>8, <1>9, <1>10, <1>11 DEF IInv

\* close preserves the invariant and only advances.
LEMMA CloseOK ==
    ASSUME IInv, NEW request \in StopRequests, Close(request)
    PROVE  IInv' /\ StepAdvances
  <1>1. /\ state \notin Evidences
        /\ ~DeadlineOverflow(request, now)
        /\ state' = "Closing"
        /\ runs' = [r \in DOMAIN runs |-> Stopped(runs[r], request, now)]
        /\ UNCHANGED <<guarantee, now, spawns>>
    BY DEF Close
  <1>2. \A r \in DOMAIN runs :
            /\ RecordOK(runs'[r], Specs, guarantee, now)
            /\ RecordAdvances(runs[r], runs'[r])
            /\ Complete(runs'[r]) \/ runs'[r].stop.planned
    BY <1>1, StoppedOK, StopRequestType, ClockType DEF IInv
  <1>3. DOMAIN runs' = DOMAIN runs
    BY <1>1
  <1>4. ClosedIsClean' /\ ClosingRunsAreStopping' /\ OneSpawn'
    BY <1>1, <1>2, <1>3 DEF IInv, ClosedIsClean, ClosingRunsAreStopping, OneSpawn, Evidences
  <1> QED BY <1>1, <1>2, <1>3, <1>4 DEF IInv, StepAdvances, ScopeStates

\* stop_run preserves the invariant and only advances.
LEMMA StopRunOK ==
    ASSUME IInv, NEW r \in Runs, NEW request \in StopRequests, StopRun(r, request)
    PROVE  IInv' /\ StepAdvances
  <1>1. /\ r \in DOMAIN runs
        /\ Complete(runs[r]) \/ ~DeadlineOverflow(request, now)
        /\ runs' = [runs EXCEPT ![r] = Stopped(runs[r], request, now)]
        /\ UNCHANGED <<guarantee, state, now, spawns>>
    BY DEF StopRun
  <1>2. /\ RecordOK(runs'[r], Specs, guarantee, now)
        /\ RecordAdvances(runs[r], runs'[r])
        /\ Complete(runs'[r]) \/ runs'[r].stop.planned
        /\ Complete(runs[r]) => runs'[r] = runs[r]
    BY <1>1, StoppedOK, StopRequestType, ClockType DEF IInv
  <1>3. DOMAIN runs' = DOMAIN runs /\ \A q \in DOMAIN runs \ {r} : runs'[q] = runs[q]
    BY <1>1
  <1>4. \A q \in DOMAIN runs \ {r} : RecordAdvances(runs[q], runs'[q])
    BY <1>3, RecordStays DEF IInv, RecordOK
  <1>5. ClosedIsClean'
    BY <1>1, <1>2, <1>3, EvidenceType DEF IInv, ClosedIsClean, Complete
  <1>6. ClosingRunsAreStopping' /\ OneSpawn'
    BY <1>1, <1>2, <1>3 DEF IInv, ClosingRunsAreStopping, OneSpawn
  <1>7. \A q \in DOMAIN runs' : RecordOK(runs'[q], Specs, guarantee', now')
    BY <1>1, <1>2, <1>3 DEF IInv
  <1> QED BY <1>1, <1>2, <1>3, <1>4, <1>5, <1>6, <1>7 DEF IInv, StepAdvances

\* reconcile preserves the invariant and only advances, whatever the platform says.
LEMMA ReconcileOK ==
    ASSUME IInv, Reconcile
    PROVE  IInv' /\ StepAdvances
  <1>1. PICK obs \in [DOMAIN runs -> Observations], signalled \in [DOMAIN runs -> BOOLEAN] :
            runs' = [r \in DOMAIN runs |->
                        Reconciled(runs[r], obs[r], signalled[r], guarantee, now)]
    BY DEF Reconcile, ReconcileWith
  <1>2. /\ state' = ScopeAfter(state, runs', guarantee)
        /\ UNCHANGED <<guarantee, now, spawns>>
    BY DEF Reconcile, ReconcileWith
  <1>3. \A r \in DOMAIN runs :
            /\ RecordOK(runs'[r], Specs, guarantee, now)
            /\ RecordAdvances(runs[r], runs'[r])
            /\ Complete(runs[r]) => runs'[r] = runs[r]
            /\ runs[r].stop.planned => runs'[r].stop.planned
    BY <1>1, ReconciledOK, ObservationType, SpecsGraced, ClockType DEF IInv
  <1>4. DOMAIN runs' = DOMAIN runs
    BY <1>1
  <1>5. ClosedIsClean'
    BY <1>2, <1>3, <1>4, EvidenceType DEF IInv, ClosedIsClean, ScopeAfter, Complete, RecordOK
  <1>6. ClosingRunsAreStopping' /\ OneSpawn'
    BY <1>2, <1>3, <1>4, EvidenceType
    DEF IInv, ClosingRunsAreStopping, OneSpawn, ScopeAfter, Evidences
  <1>7. state' \in ScopeStates /\ (state # "Open" => state' # "Open")
    BY <1>2, EvidenceType DEF IInv, ScopeAfter, ScopeStates, Evidences
  <1>8. runs' = [r \in DOMAIN runs' |-> runs'[r]]
    BY <1>1
  <1> QED BY <1>2, <1>3, <1>4, <1>5, <1>6, <1>7, <1>8 DEF IInv, StepAdvances

\* The passing of time preserves the invariant.
LEMMA TickOK ==
    ASSUME IInv, Tick
    PROVE  IInv' /\ StepAdvances
  <1>1. now' \in 0..MaxTime /\ now' >= now /\ now \in Nat /\ now' \in Nat
    BY RuntimeAssumption, MaxInstantAssumption DEF Tick, IInv
  <1>2. UNCHANGED <<guarantee, state, runs, spawns>>
    BY DEF Tick
  <1>3. \A r \in DOMAIN runs : RecordOK(runs[r], Specs, guarantee, now')
    BY <1>1, RecordLater DEF IInv
  <1>4. \A r \in DOMAIN runs : RecordAdvances(runs[r], runs[r])
    BY RecordStays DEF IInv, RecordOK
  <1> QED BY <1>1, <1>2, <1>3, <1>4
          DEF IInv, StepAdvances, ClosedIsClean, ClosingRunsAreStopping, OneSpawn

\* Every step of ScopeRuntime preserves the inductive invariant and only advances.
LEMMA NextOK ==
    ASSUME IInv, Next
    PROVE  IInv' /\ StepAdvances
  BY StartOK, CloseOK, StopRunOK, ReconcileOK, TickOK DEF Next

\* Nothing advances in a stuttering step.
LEMMA StutterOK ==
    ASSUME IInv, UNCHANGED vars
    PROVE  IInv' /\ StepAdvances
  <1>1. \A r \in DOMAIN runs : RecordAdvances(runs[r], runs[r])
    BY RecordStays DEF IInv, RecordOK
  <1> QED BY <1>1
          DEF vars, IInv, StepAdvances, ClosedIsClean, ClosingRunsAreStopping, OneSpawn

\* The inductive invariant holds in every reachable state of the kernel.
THEOREM Invariance == Spec => []IInv
  <1>1. IInv /\ [Next]_vars => IInv'
    BY NextOK, StutterOK
  <1> QED BY InitOK, <1>1, PTL DEF Spec

\* The kernel is type correct: in particular no accepted deadline overflows.
THEOREM TypeCorrect == Spec => []TypeOK
  <1>1. IInv => TypeOK
    BY DEF IInv, TypeOK, RecordOK
  <1> QED BY Invariance, <1>1, PTL

\* A closed scope is clean: every Run it ever accepted has completed cleanup, with
\* the scope's own evidence (the end of ScopeRuntime::reconcile).
THEOREM ClosedScopesAreClean == Spec => []ClosedIsClean
  <1>1. IInv => ClosedIsClean
    BY DEF IInv
  <1> QED BY Invariance, <1>1, PTL

\* A closing scope leaves no Run without a stop plan (ScopeRuntime::close).
THEOREM ClosingCoversEveryRun == Spec => []ClosingRunsAreStopping
  <1>1. IInv => ClosingRunsAreStopping
    BY DEF IInv
  <1> QED BY Invariance, <1>1, PTL

\* Force is never delivered early (StopPlan::pending and tighten).
THEOREM ForceWaitsForTheDeadline == Spec => []NoEarlyForce
  <1>1. IInv => NoEarlyForce
    BY DEF IInv, NoEarlyForce, RecordOK
  <1> QED BY Invariance, <1>1, PTL

\* Snapshots are consistent against any platform (the refusals in reconcile).
THEOREM SnapshotsAgree == Spec => []FactsAgree
  <1>1. IInv => FactsAgree
    BY DEF IInv, FactsAgree, RecordOK
  <1> QED BY Invariance, <1>1, PTL

\* A RunId is spawned at most once (ScopeRuntime::start).
THEOREM SpawnedOnce == Spec => []OneSpawn
  <1>1. IInv => OneSpawn
    BY DEF IInv
  <1> QED BY Invariance, <1>1, PTL

\* Confirmed facts are final (the monotone merge in reconcile).
THEOREM FactsStayFinal == Spec => FactsAreFinal
  <1>1. IInv /\ [Next]_vars =>
            [\A r \in DOMAIN runs : r \in DOMAIN runs' /\ FactsAdvance(runs[r], runs'[r])]_vars
    BY NextOK DEF StepAdvances, RecordAdvances
  <1> QED BY Invariance, <1>1, PTL DEF Spec, FactsAreFinal

\* Accepted stops only tighten (StopPlan::tighten).
THEOREM StopsStayAccepted == Spec => StopsOnlyTighten
  <1>1. IInv /\ [Next]_vars =>
            [\A r \in DOMAIN runs : PlanAdvances(runs[r].stop, runs'[r].stop)]_vars
    BY NextOK DEF StepAdvances, RecordAdvances
  <1> QED BY Invariance, <1>1, PTL DEF Spec, StopsOnlyTighten

\* A sealed scope stays sealed (the Open check of start against close).
THEOREM SealedForGood == Spec => AdmissionStaysSealed
  <1>1. IInv /\ [Next]_vars =>
            [state # "Open" => state' # "Open" /\ DOMAIN runs' = DOMAIN runs]_vars
    BY NextOK DEF StepAdvances
  <1> QED BY Invariance, <1>1, PTL DEF Spec, AdmissionStaysSealed
=============================================================================
