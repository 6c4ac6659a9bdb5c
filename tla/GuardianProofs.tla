--------------------------- MODULE GuardianProofs ---------------------------
(***************************************************************************)
(* The safety of Guardian for every set of Runs, hosts and policies, every *)
(* run limit, every clock bound and every storage fault.  IInv is          *)
(* inductive.  To the stated invariants it adds what each kernel record    *)
(* satisfies (RecordOK), that a closed kernel is clean, and that a journal *)
(* which says Closed faces a kernel that says the same: without the last,  *)
(* a reconciliation could write an older state over a confirmed one.       *)
(***************************************************************************)
EXTENDS Guardian, ScopeKernelProofs, FiniteSetTheorems

\* On Linux a cleanup completes only after the direct process, if it was started.
EndsWithExit(record) == Complete(record) => record.direct \in {"NotStarted"} \cup Exits

KernelOK(k, lv, t) ==
    /\ k = [state |-> k.state, runs |-> k.runs]
    /\ k.state \in ScopeStates
    /\ k.runs = [r \in lv |-> k.runs[r]]
    /\ \A r \in lv : RecordOK(k.runs[r], Specs, Guarantee, t) /\ EndsWithExit(k.runs[r])
    /\ k.state \in Evidences =>
          k.state = cleanup_evidence(Guarantee) /\ \A r \in lv : Complete(k.runs[r])

JournalOK(j) ==
    /\ j = [scope |-> j.scope, rows |-> j.rows]
    /\ j.scope \in ScopeStates
    /\ DOMAIN j.rows \subseteq Runs
    /\ IsFiniteSet(DOMAIN j.rows)
    /\ j.rows \in [DOMAIN j.rows -> Rows]
    /\ j.scope # "Open" => \A r \in DOMAIN j.rows : j.rows[r].stop_requested

Unconfirmed == [launch |-> "Unknown", direct |-> "Unknown", cleanup |-> "Pending"]

\* What a journal j may say of a kernel k with the live Runs lv.
Agree(j, k, lv) ==
    /\ lv \subseteq DOMAIN j.rows
    /\ k.state # "Open" => j.scope # "Open"
    /\ \A r \in lv : FactsAdvance(j.rows[r], k.runs[r])
    /\ \A r \in DOMAIN j.rows \ lv : JournalFacts(j.rows[r]) = Unconfirmed
    /\ j.scope \in Evidences =>
          /\ k.state = j.scope
          /\ DOMAIN j.rows = lv
          /\ \A r \in lv : j.rows[r].cleanup = j.scope

IInv ==
    /\ session \in Hosts
    /\ wedged \in BOOLEAN /\ settled \in BOOLEAN
    /\ now \in 0..MaxTime
    /\ spawns \in [Runs -> Nat]
    /\ JournalOK(journal)
    /\ KernelOK(kernel, live, now)
    /\ Agree(journal, kernel, live)
    /\ OneSpawn
    /\ SettledIsDurable

\* What any step does to the journal.
JournalAdvances(before, after) ==
    /\ \A r \in DOMAIN before.rows :
          /\ r \in DOMAIN after.rows
          /\ FactsAdvance(before.rows[r], after.rows[r])
          /\ before.rows[r].stop_requested => after.rows[r].stop_requested
    /\ before.scope # "Open" =>
          after.scope # "Open" /\ DOMAIN after.rows = DOMAIN before.rows

-----------------------------------------------------------------------------
(* Inputs.                                                                 *)

\* Every instant the clock shows can be represented.
LEMMA ClockType == 0..MaxTime \subseteq 0..MaxInstant /\ 0..MaxTime \subseteq Nat
  BY GuardianAssumption, MaxInstantAssumption

\* Every descendant policy waits or has a grace.
LEMMA SpecsGraced == Graced(Specs)
  BY GuardianAssumption, Zenon DEF Graced, Specs

\* The rootless Linux platform reports direct states the kernel knows.
LEMMA ObservationType ==
    ASSUME NEW obs \in Observations
    PROVE  obs.direct \in Directs
  BY GuardianAssumption DEF LinuxObservations, Directs, Exits, Outcomes

\* Force never overflows: its deadline is the present instant.
LEMMA ForceFits ==
    ASSUME NEW t \in 0..MaxTime
    PROVE  /\ ForceRequest.timeout \in Nat
           /\ ForceRequest.notify \in BOOLEAN
           /\ ~DeadlineOverflow(ForceRequest, t)
  BY GuardianAssumption, MaxInstantAssumption DEF ForceRequest, DeadlineOverflow

\* A journal that stays as it is advances.
LEMMA JournalStays == \A j : JournalAdvances(j, j)
  BY Zenon DEF JournalAdvances, FactsAdvance, Exits

-----------------------------------------------------------------------------
(* What the ledger needs to know of one record.                            *)

\* A Run proven not started stays so, and no other Run becomes one.
KeepsLaunch(before, after) == before.launch = "NotStarted" <=> after.launch = "NotStarted"

\* A new plan leaves the facts of a record alone.
LEMMA PlanKeepsFacts ==
    ASSUME NEW record \in RunRecords(Specs), NEW plan
    PROVE  LET after == [record EXCEPT !.stop = plan] IN
           /\ after.spec = record.spec
           /\ after.launch = record.launch
           /\ after.direct = record.direct
           /\ after.cleanup = record.cleanup
  BY Zenon DEF RunRecords

\* stop_run changes no fact.
LEMMA StoppedKeepsFacts ==
    ASSUME NEW record \in RunRecords(Specs), NEW request, NEW t
    PROVE  LET after == Stopped(record, request, t) IN
           /\ after.launch = record.launch
           /\ after.direct = record.direct
           /\ after.cleanup = record.cleanup
  BY Zenon, PlanKeepsFacts DEF Stopped

\* An observation of the Linux platform confirms a launch or says nothing of it, and
\* finds the containment empty only once the direct process has exited.
LEMMA ObserveIsTruthful ==
    ASSUME NEW record \in RunRecords(Specs), ~Complete(record), NEW obs \in Observations,
           NEW g, NEW t
    PROVE  LET half == Observe(record, obs, g, t).record IN
           /\ half.launch \in {"Started", record.launch}
           /\ Complete(half) => half.direct \in Exits
  <1> DEFINE seen == Observed(record, obs, g)
             after == [seen EXCEPT !.stop = TightenOrSet(@, NewPlan(GraceRequest(seen), t))]
             half == Observe(record, obs, g, t).record
  <1>1. half \in {record, seen, after}
    BY Zenon DEF Observe
  <1>2. /\ obs.direct \in Directs
        /\ obs.ok /\ obs.containment = "Empty" => obs.direct = "Code"
    BY GuardianAssumption DEF LinuxObservations, Directs, Exits, Outcomes
  <1>3. ~obs.ok => half = record
    BY Zenon DEF Observe
  <1>4. /\ seen.launch \in {"Started", record.launch}
        /\ seen.direct = MergeDirect(record.direct, obs.direct)
        /\ seen.cleanup = IF obs.containment = "Empty" THEN cleanup_evidence(g) ELSE "Pending"
        /\ seen \in RunRecords(Specs)
    BY <1>2, EvidenceType, Zenon
    DEF Observed, RunRecords, MergeDirect, Launches, Directs, Cleanups
  <1> HIDE DEF seen
  <1>5. after.launch = seen.launch /\ after.direct = seen.direct /\ after.cleanup = seen.cleanup
    BY Zenon, <1>4, PlanKeepsFacts
  <1>6. obs.ok /\ Complete(seen) => seen.direct \in Exits
    BY Zenon, <1>2, <1>4 DEF MergeDirect, Complete, Evidences, Exits, Outcomes
  <1> HIDE DEF after, half
  <1>7. half.launch \in {"Started", record.launch} /\ (Complete(half) => half.direct \in Exits)
    BY Zenon, <1>1, <1>3, <1>4, <1>5, <1>6 DEF Complete
  <1> QED BY Zenon, <1>7 DEF half

\* So does the loop body of reconcile.
LEMMA ReconciledIsTruthful ==
    ASSUME NEW record, NEW g, NEW t \in 0..MaxInstant, RecordOK(record, Specs, g, t),
           EndsWithExit(record), NEW obs \in Observations, NEW signalled \in BOOLEAN
    PROVE  LET after == Reconciled(record, obs, signalled, g, t) IN
           EndsWithExit(after) /\ KeepsLaunch(record, after)
  <1>1. CASE Complete(record)
    BY Zenon, <1>1 DEF Reconciled, KeepsLaunch
  <1>2. CASE ~Complete(record)
    <2> DEFINE half == Observe(record, obs, g, t)
               owed == Owed(half.record, t)
               after == IF owed # "None" /\ signalled
                        THEN [half.record EXCEPT !.stop = Delivered(@, owed)] ELSE half.record
               blocked == [after EXCEPT !.cleanup = "Blocked"]
    <2>1. record \in RunRecords(Specs) /\ record.launch # "NotStarted"
      BY Zenon, <1>2 DEF RecordOK
    <2>2. half.record \in RunRecords(Specs)
      BY Zenon, <1>2, ObserveOK, ObservationType, SpecsGraced DEF RecordOK
    <2>3. half.record.launch # "NotStarted" /\ EndsWithExit(half.record)
      BY <1>2, <2>1, ObserveIsTruthful DEF EndsWithExit
    <2>4. Reconciled(record, obs, signalled, g, t) \in {after, blocked}
      BY Zenon, <1>2 DEF Reconciled
    <2> HIDE DEF half
    <2>5. /\ after.launch = half.record.launch
          /\ after.direct = half.record.direct
          /\ after.cleanup = half.record.cleanup
      BY Zenon, <2>2, PlanKeepsFacts
    <2>6. blocked.launch = after.launch /\ blocked.cleanup = "Blocked"
      BY Zenon, <2>2 DEF RunRecords
    <2> HIDE DEF after, blocked
    <2>7. EndsWithExit(after) /\ EndsWithExit(blocked)
      BY Zenon, <2>3, <2>5, <2>6 DEF EndsWithExit, Complete, Evidences
    <2> QED BY Zenon, <2>1, <2>3, <2>4, <2>5, <2>6, <2>7 DEF KeepsLaunch
  <1> QED BY Zenon, <1>1, <1>2

-----------------------------------------------------------------------------
(* Runs::reconcile on a journal j, a kernel k and live Runs lv.            *)

\* restore_stop_intents keeps the kernel well formed, and a kernel that faces a
\* sealed journal it could read is sealed too.
LEMMA RestoredOK ==
    ASSUME now \in 0..MaxTime, NEW j, NEW k, NEW lv, NEW reach,
           JournalOK(j), KernelOK(k, lv, now), Agree(j, k, lv)
    PROVE  LET after == Restored(j, k, reach) IN
           /\ KernelOK(after, lv, now)
           /\ \A r \in lv : KeepsLaunch(k.runs[r], after.runs[r])
           /\ \A r \in lv : FactsAdvance(k.runs[r], after.runs[r])
           /\ after.state # "Open" => j.scope # "Open"
           /\ j.scope # "Open" /\ reach.readable => after.state # "Open"
           /\ k.state \in Evidences => after.state = k.state
           /\ after.state \in Evidences => k.state \in Evidences
  <1> DEFINE closing == reach.readable /\ j.scope # "Open" /\ k.state \notin Evidences
             after == Restored(j, k, reach)
  <1>1. DOMAIN k.runs = lv
    BY Zenon DEF KernelOK
  <1>2. /\ after.state = IF closing THEN "Closing" ELSE k.state
        /\ after.runs = [r \in lv |->
                           IF closing \/ (r \in reach.restored /\ j.rows[r].stop_requested)
                           THEN Stopped(k.runs[r], ForceRequest, now) ELSE k.runs[r]]
        /\ after = [state |-> after.state, runs |-> after.runs]
    BY Zenon, <1>1 DEF Restored
  <1>3. ASSUME NEW r \in lv
        PROVE  /\ RecordOK(after.runs[r], Specs, Guarantee, now) /\ EndsWithExit(after.runs[r])
               /\ KeepsLaunch(k.runs[r], after.runs[r])
               /\ FactsAdvance(k.runs[r], after.runs[r])
               /\ Complete(k.runs[r]) => after.runs[r] = k.runs[r]
    <2>1. /\ RecordOK(k.runs[r], Specs, Guarantee, now)
          /\ k.runs[r] \in RunRecords(Specs)
          /\ EndsWithExit(k.runs[r])
      BY Zenon DEF KernelOK, RecordOK
    <2>2. LET s == Stopped(k.runs[r], ForceRequest, now) IN
          /\ RecordOK(s, Specs, Guarantee, now)
          /\ RecordAdvances(k.runs[r], s)
          /\ Complete(k.runs[r]) => s = k.runs[r]
      BY <2>1, StoppedOK, ForceFits, ClockType
    <2>3. RecordAdvances(k.runs[r], k.runs[r])
      BY Zenon, <2>1, RecordStays
    <2>4. after.runs[r] \in {Stopped(k.runs[r], ForceRequest, now), k.runs[r]}
      BY Zenon, <1>2
    <2>5. LET s == Stopped(k.runs[r], ForceRequest, now) IN
          /\ s.launch = k.runs[r].launch
          /\ s.direct = k.runs[r].direct
          /\ s.cleanup = k.runs[r].cleanup
      BY <2>1, StoppedKeepsFacts
    <2> HIDE DEF after
    <2> QED BY Zenon, <2>1, <2>2, <2>3, <2>4, <2>5 DEF RecordAdvances, KeepsLaunch, EndsWithExit, Complete
  <1> HIDE DEF after
  <1>4. KernelOK(after, lv, now)
    BY Zenon, <1>2, <1>3 DEF KernelOK, ScopeStates, Evidences
  <1>5. /\ after.state # "Open" => j.scope # "Open"
        /\ j.scope # "Open" /\ reach.readable => after.state # "Open"
        /\ k.state \in Evidences => after.state = k.state
        /\ after.state \in Evidences => k.state \in Evidences
    BY Zenon, <1>2 DEF Agree, Evidences
  <1> QED BY Zenon, <1>3, <1>4, <1>5 DEF after

\* ScopeRuntime::reconcile inside the guardian: facts advance and a scope that
\* closes is clean, whatever the platform answers.
LEMMA AdvancedOK ==
    ASSUME now \in 0..MaxTime, NEW k, NEW lv, KernelOK(k, lv, now),
           NEW obs \in [lv -> Observations], NEW signalled \in [lv -> Signals]
    PROVE  LET after == Advanced(k, obs, signalled) IN
           /\ KernelOK(after, lv, now)
           /\ \A r \in lv : KeepsLaunch(k.runs[r], after.runs[r])
           /\ \A r \in lv : FactsAdvance(k.runs[r], after.runs[r])
           /\ k.state = "Open" <=> after.state = "Open"
           /\ k.state \in Evidences => after.state = k.state
  <1> DEFINE after == Advanced(k, obs, signalled)
  <1>1. DOMAIN k.runs = lv
    BY Zenon DEF KernelOK
  <1>2. /\ after.runs = [r \in lv |->
                  Reconciled(k.runs[r], obs[r], signalled[r], Guarantee, now)]
        /\ after.state = ScopeAfter(k.state, after.runs, Guarantee)
        /\ after = [state |-> after.state, runs |-> after.runs]
    BY Zenon, <1>1 DEF Advanced
  <1>3. ASSUME NEW r \in lv
        PROVE  /\ RecordOK(after.runs[r], Specs, Guarantee, now) /\ EndsWithExit(after.runs[r])
               /\ KeepsLaunch(k.runs[r], after.runs[r])
               /\ FactsAdvance(k.runs[r], after.runs[r])
               /\ Complete(k.runs[r]) => after.runs[r] = k.runs[r]
    <2>1. RecordOK(k.runs[r], Specs, Guarantee, now) /\ EndsWithExit(k.runs[r])
      BY Zenon DEF KernelOK
    <2>2. obs[r].direct \in Directs /\ signalled[r] \in BOOLEAN
      BY Zenon, ObservationType, GuardianAssumption
    <2>3. after.runs[r] = Reconciled(k.runs[r], obs[r], signalled[r], Guarantee, now)
      BY Zenon, <1>2
    <2> HIDE DEF after
    <2>4. EndsWithExit(after.runs[r]) /\ KeepsLaunch(k.runs[r], after.runs[r])
      BY Zenon, <2>1, <2>2, <2>3, ClockType, ReconciledIsTruthful
    <2> QED BY <2>1, <2>2, <2>3, <2>4, ReconciledOK, SpecsGraced, ClockType DEF RecordAdvances
  <1> HIDE DEF after
  <1>4. DOMAIN after.runs = lv
    BY Zenon, <1>2
  <1>5. /\ after.state \in ScopeStates
        /\ k.state = "Open" <=> after.state = "Open"
        /\ k.state \in Evidences => after.state = k.state
    BY Zenon, <1>2, EvidenceType DEF ScopeAfter, KernelOK, ScopeStates, Evidences
  <1>6. after.state \in Evidences =>
          after.state = cleanup_evidence(Guarantee) /\ \A r \in lv : Complete(after.runs[r])
    BY Zenon, <1>2, <1>3, <1>4 DEF ScopeAfter, KernelOK
  <1>7. KernelOK(after, lv, now)
    BY Zenon, <1>2, <1>3, <1>5, <1>6 DEF KernelOK
  <1> QED BY Zenon, <1>3, <1>5, <1>7 DEF after

\* Storage fails a reconciliation before it writes, or it read the scope state.
LEMMA ReachType ==
    ASSUME NEW lv, NEW reach \in Reaches(lv)
    PROVE  /\ reach.saved \subseteq lv
           /\ Applied(reach.write) => reach.readable
  <1>1. CASE reach = [readable |-> FALSE, restored |-> {}, saved |-> {}, write |-> "failed"]
    BY Zenon, <1>1 DEF Applied
  <1>2. CASE reach \in [readable : {TRUE}, restored : (SUBSET lv) \ {lv}, saved : {{}},
                        write : {"failed"}]
    BY <1>2, Zenon
  <1>3. CASE reach \in [readable : {TRUE}, restored : {lv}, saved : (SUBSET lv) \ {lv},
                        write : {"failed"}]
    BY <1>3, Zenon
  <1>4. CASE reach \in [readable : {TRUE}, restored : {lv}, saved : {lv}, write : Writes]
    BY <1>4, Zenon
  <1> QED BY <1>1, <1>2, <1>3, <1>4, Zenon DEF Reaches

\* What is true of the journal after the facts of some live Runs were saved.
SavedWell(j, k, lv, saved, after) ==
    /\ JournalOK(after)
    /\ after.scope = j.scope
    /\ DOMAIN after.rows = DOMAIN j.rows
    /\ JournalAdvances(j, after)
    /\ \A r \in lv : FactsAdvance(after.rows[r], k.runs[r])
    /\ \A r \in saved : after.rows[r].cleanup = k.runs[r].cleanup
    /\ \A r \in DOMAIN j.rows \ saved : after.rows[r] = j.rows[r]
    /\ \A r \in DOMAIN j.rows : after.rows[r].stop_requested = j.rows[r].stop_requested
    /\ \A r \in lv : after.rows[r].cleanup \in {j.rows[r].cleanup, k.runs[r].cleanup}

\* Writing snapshots of the kernel keeps the journal well formed, and what it says
\* is what the kernel confirmed.
LEMMA SavedOK ==
    ASSUME now \in 0..MaxTime, NEW j, NEW k, NEW lv, NEW saved \in SUBSET lv,
           JournalOK(j), KernelOK(k, lv, now), lv \subseteq DOMAIN j.rows,
           \A r \in lv : FactsAdvance(j.rows[r], k.runs[r])
    PROVE  SavedWell(j, k, lv, saved, Saved(j, k, saved))
  <1> DEFINE after == Saved(j, k, saved)
             Written(r) == [j.rows[r] EXCEPT !.launch = k.runs[r].launch,
                                             !.direct = k.runs[r].direct,
                                             !.cleanup = k.runs[r].cleanup]
  <1>1. /\ after.rows = [r \in DOMAIN j.rows |-> IF r \in saved THEN Written(r) ELSE j.rows[r]]
        /\ after.scope = j.scope
        /\ after = [scope |-> after.scope, rows |-> after.rows]
    <2> DEFINE rows == [r \in DOMAIN j.rows |-> IF r \in saved THEN Written(r) ELSE j.rows[r]]
    <2>1. after = [j EXCEPT !.rows = rows]
      BY Zenon DEF Saved
    <2>2. j = [scope |-> j.scope, rows |-> j.rows]
      BY Zenon DEF JournalOK
    <2> HIDE DEF rows, after
    <2>3. after = [scope |-> j.scope, rows |-> rows]
      BY Zenon, <2>1, <2>2
    <2>4. after.scope = j.scope /\ after.rows = rows
      BY Zenon, <2>3
    <2> QED BY <2>3, <2>4, Zenon DEF rows
  <1>2. ASSUME NEW r \in saved
        PROVE  /\ Written(r) \in Rows
               /\ Written(r).launch = k.runs[r].launch
               /\ Written(r).direct = k.runs[r].direct
               /\ Written(r).cleanup = k.runs[r].cleanup
               /\ Written(r).stop_requested = j.rows[r].stop_requested
    <2>1. j.rows[r] \in Rows /\ k.runs[r] \in RunRecords(Specs)
      BY Zenon DEF JournalOK, KernelOK, RecordOK
    <2> QED BY <2>1, Zenon DEF Rows, RunRecords
  <1> HIDE DEF after, Written
  <1>3. DOMAIN after.rows = DOMAIN j.rows
    BY Zenon, <1>1
  <1>4. after.rows \in [DOMAIN after.rows -> Rows]
    BY <1>1, <1>2 DEF JournalOK
  <1>5. ASSUME NEW r \in DOMAIN j.rows
        PROVE  /\ FactsAdvance(j.rows[r], after.rows[r])
               /\ after.rows[r].stop_requested = j.rows[r].stop_requested
               /\ r \in saved => after.rows[r].cleanup = k.runs[r].cleanup
               /\ r \notin saved => after.rows[r] = j.rows[r]
               /\ r \in lv => FactsAdvance(after.rows[r], k.runs[r])
    <2>1. CASE r \in saved
      <3>1. after.rows[r] = Written(r)
        BY Zenon, <1>1, <2>1
      <3> QED BY Zenon, <1>2, <2>1, <3>1 DEF FactsAdvance, Complete, Exits
    <2>2. CASE r \notin saved
      <3>1. after.rows[r] = j.rows[r]
        BY Zenon, <1>1, <2>2
      <3> QED BY Zenon, <2>2, <3>1 DEF FactsAdvance, Exits
    <2> QED BY Zenon, <2>1, <2>2
  <1>6. JournalOK(after)
    BY Zenon, <1>1, <1>3, <1>4, <1>5 DEF JournalOK
  <1>7. JournalAdvances(j, after)
    BY Zenon, <1>1, <1>3, <1>5 DEF JournalAdvances
  <1>8. \A r \in lv : after.rows[r].cleanup \in {j.rows[r].cleanup, k.runs[r].cleanup}
    BY Zenon, <1>5
  <1>9. SavedWell(j, k, lv, saved, after)
    BY <1>1, <1>3, <1>5, <1>6, <1>7, <1>8, Zenon DEF SavedWell
  <1> QED BY <1>9, Zenon DEF after

\* What reconcile keeps of a journal j and a kernel k with the live Runs lv.
Keeps(j, k, lv, j2, k2) ==
    /\ DOMAIN j2.rows = DOMAIN j.rows
    /\ \A r \in DOMAIN j.rows : j2.rows[r].stop_requested = j.rows[r].stop_requested
    /\ \A r \in DOMAIN j.rows \ lv : j2.rows[r] = j.rows[r]
    /\ \A r \in lv : KeepsLaunch(k.runs[r], k2.runs[r])
    /\ j2.scope = j.scope \/ (j.scope = "Closing" /\ j2.scope \in Evidences)

\* Two finite sets, one in the other and of one size, are one set: how reconcile
\* knows that every accepted row has a live handle.
LEMMA SameSize ==
    ASSUME NEW S, NEW T, IsFiniteSet(S), T \subseteq S, Cardinality(S) = Cardinality(T)
    PROVE  S = T
  BY Zenon, FS_Subset

\* Runs::reconcile, with any fault: journal and kernel still agree, the journal
\* only advances, and the settled shortcut is taken only over a closed journal.
LEMMA ReconcileFromOK ==
    ASSUME now \in 0..MaxTime, settled \in BOOLEAN,
           NEW j, NEW k, NEW lv, JournalOK(j), KernelOK(k, lv, now), Agree(j, k, lv),
           settled => j.scope \in Evidences /\ k.state = j.scope,
           NEW reach \in Reaches(lv),
           NEW obs \in [DOMAIN k.runs -> Observations],
           NEW signalled \in [DOMAIN k.runs -> Signals],
           ReconcileFrom(j, k, lv, reach, obs, signalled)
    PROVE  /\ JournalOK(journal') /\ KernelOK(kernel', lv, now) /\ Agree(journal', kernel', lv)
           /\ settled' \in BOOLEAN
           /\ settled' => journal'.scope \in Evidences /\ kernel'.state = journal'.scope
           /\ JournalAdvances(j, journal')
           /\ Keeps(j, k, lv, journal', kernel')
  <1>1. CASE settled
    BY Zenon, <1>1, JournalStays DEF ReconcileFrom, Keeps, KeepsLaunch
  <1>2. CASE ~settled
    <2> DEFINE restored == Restored(j, k, reach)
               written == Saved(j, kernel', reach.saved)
    <2>1. /\ kernel' = Advanced(restored, obs, signalled)
          /\ journal' = IF Sealing(j, lv, reach)
                        THEN [written EXCEPT !.scope = kernel'.state] ELSE written
          /\ settled' = (/\ Sealing(j, lv, reach)
                         /\ reach.write = "done"
                         /\ kernel'.state \in Evidences)
      BY Zenon, <1>2 DEF ReconcileFrom
    <2>2. /\ KernelOK(restored, lv, now)
          /\ \A r \in lv : FactsAdvance(k.runs[r], restored.runs[r])
          /\ \A r \in lv : KeepsLaunch(k.runs[r], restored.runs[r])
          /\ restored.state # "Open" => j.scope # "Open"
          /\ j.scope # "Open" /\ reach.readable => restored.state # "Open"
          /\ k.state \in Evidences => restored.state = k.state
      <3>1. restored = Restored(j, k, reach)
        BY Zenon
      <3> HIDE DEF restored
      <3> QED BY Zenon, <3>1, RestoredOK
    <2>3. DOMAIN k.runs = lv
      BY Zenon DEF KernelOK
    <2> HIDE DEF restored
    <2>4. /\ KernelOK(kernel', lv, now)
          /\ \A r \in lv : FactsAdvance(restored.runs[r], kernel'.runs[r])
          /\ \A r \in lv : KeepsLaunch(restored.runs[r], kernel'.runs[r])
          /\ restored.state = "Open" <=> kernel'.state = "Open"
          /\ restored.state \in Evidences => kernel'.state = restored.state
      BY Zenon, <2>1, <2>2, <2>3, AdvancedOK
    <2>5. \A r \in lv : FactsAdvance(j.rows[r], kernel'.runs[r])
      BY Zenon, <2>2, <2>4, FactsAdvanceTransitive DEF Agree
    <2>6. /\ JournalOK(written)
          /\ written.scope = j.scope
          /\ DOMAIN written.rows = DOMAIN j.rows
          /\ JournalAdvances(j, written)
          /\ \A r \in lv : FactsAdvance(written.rows[r], kernel'.runs[r])
          /\ \A r \in reach.saved : written.rows[r].cleanup = kernel'.runs[r].cleanup
          /\ \A r \in DOMAIN j.rows \ lv : written.rows[r] = j.rows[r]
          /\ \A r \in DOMAIN j.rows : written.rows[r].stop_requested = j.rows[r].stop_requested
          /\ \A r \in lv : written.rows[r].cleanup \in {j.rows[r].cleanup, kernel'.runs[r].cleanup}
      <3>1. reach.saved \in SUBSET lv /\ lv \subseteq DOMAIN j.rows
        <4>1. reach.saved \in SUBSET lv
          BY Zenon, ReachType
        <4> QED BY Zenon, <4>1 DEF Agree
      <3>2. \A r \in DOMAIN j.rows \ lv : r \in DOMAIN j.rows \ reach.saved
        BY Zenon, <3>1
      <3>3. KernelOK(kernel', lv, now) /\ written = Saved(j, kernel', reach.saved)
        BY Zenon, <2>4
      <3>4. SavedWell(j, kernel', lv, reach.saved, Saved(j, kernel', reach.saved))
        BY Zenon, <2>5, <3>1, <3>3, SavedOK
      <3> HIDE DEF written
      <3>5. SavedWell(j, kernel', lv, reach.saved, written)
        BY Zenon, <3>3, <3>4
      <3> QED BY Zenon, <3>2, <3>5 DEF SavedWell
    <2> HIDE DEF written
    <2>7. j.scope \in Evidences => kernel'.state = j.scope
      BY Zenon, <2>2, <2>4 DEF Agree, Evidences
    <2>8. \A r \in lv : kernel'.state \in Evidences => kernel'.runs[r].cleanup = kernel'.state
      BY Zenon, <2>4 DEF KernelOK, RecordOK
    <2>9. kernel'.state # "Open" => j.scope # "Open"
      BY Zenon, <2>2, <2>4
    <2>10. CASE ~Sealing(j, lv, reach)
      <3>1. journal' = written /\ settled' = FALSE
        BY Zenon, <2>1, <2>10
      <3>2. Agree(written, kernel', lv)
        BY Zenon, <2>6, <2>7, <2>8, <2>9 DEF Agree
      <3>3. Keeps(j, k, lv, written, kernel')
        BY Zenon, <2>2, <2>4, <2>6 DEF Keeps, KeepsLaunch
      <3> QED BY <2>4, <2>6, <3>1, <3>2, <3>3, Zenon
    <2>11. CASE Sealing(j, lv, reach)
      <3>1. /\ journal'.scope = kernel'.state
            /\ journal'.rows = written.rows
            /\ journal' = [scope |-> journal'.scope, rows |-> journal'.rows]
        BY Zenon, <2>1, <2>6, <2>11 DEF JournalOK
      <3>2. DOMAIN j.rows = lv /\ reach.saved = lv /\ reach.readable
        BY Zenon, <2>11, SameSize, ReachType DEF Sealing, JournalOK, Agree
      <3>3. j.scope # "Open" => kernel'.state # "Open"
        BY Zenon, <2>2, <2>4, <3>2
      <3>4. JournalOK(journal')
        BY Zenon, <2>4, <2>6, <2>9, <3>1 DEF JournalOK, KernelOK
      <3>5. Agree(journal', kernel', lv)
        BY Zenon, <2>6, <2>8, <3>1, <3>2 DEF Agree
      <3>6. JournalAdvances(j, journal')
        BY Zenon, <2>6, <3>1, <3>3 DEF JournalAdvances
      <3>7. settled' \in BOOLEAN /\ (settled' => kernel'.state \in Evidences)
        BY Zenon, <2>1
      <3>8. journal'.scope = j.scope \/ (j.scope = "Closing" /\ journal'.scope \in Evidences)
        BY Zenon, <2>4, <2>7, <2>9, <3>1, <3>3 DEF JournalOK, KernelOK, ScopeStates
      <3>9. Keeps(j, k, lv, journal', kernel')
        BY Zenon, <2>2, <2>4, <2>6, <3>1, <3>8 DEF Keeps, KeepsLaunch
      <3> QED BY Zenon, <2>4, <3>1, <3>4, <3>5, <3>6, <3>7, <3>9
    <2> QED BY Zenon, <2>10, <2>11
  <1> QED BY Zenon, <1>1, <1>2

-----------------------------------------------------------------------------
(* The ledger a host sees.                                                 *)

\* What a well-formed guardian shows is truthful: nothing started that was not
\* executed, nothing complete before its direct process.
LEMMA ShowsTheTruth ==
    ASSUME NEW s \in Hosts, NEW j, NEW k, NEW lv, NEW t,
           JournalOK(j), KernelOK(k, lv, t), Agree(j, k, lv), NEW r \in DOMAIN j.rows
    PROVE  Ledger!Truthful(LedgerOf(s, j, k, lv).executed, r, JournalFacts(j.rows[r]))
  <1> DEFINE f == JournalFacts(j.rows[r])
             executed == {q \in lv : k.runs[q].launch # "NotStarted"}
  <1>1. LedgerOf(s, j, k, lv).executed = executed
    BY Zenon DEF LedgerOf
  <1>2. /\ f.launch = j.rows[r].launch
        /\ f.direct = j.rows[r].direct
        /\ f.cleanup = j.rows[r].cleanup
    BY Zenon DEF JournalFacts
  <1> HIDE DEF f
  <1>3. CASE r \in lv
    <2>1. FactsAdvance(j.rows[r], k.runs[r]) /\ EndsWithExit(k.runs[r])
      BY Zenon, <1>3 DEF Agree, KernelOK
    <2>2. f.launch = "Started" => k.runs[r].launch # "NotStarted"
      BY Zenon, <1>2, <2>1 DEF FactsAdvance
    <2>3. f.launch = "NotStarted" => k.runs[r].launch = "NotStarted"
      BY Zenon, <1>2, <2>1 DEF FactsAdvance
    <2>4. f.cleanup \in Evidences => f.direct \in {"NotStarted"} \cup Exits
      BY Zenon, <1>2, <2>1 DEF FactsAdvance, EndsWithExit, Complete
    <2> QED BY Zenon, <1>1, <1>3, <2>2, <2>3, <2>4
            DEF f, Ledger!Truthful, Ledger!Complete, Ledger!Evidences, Ledger!Exits,
                Ledger!Outcomes, Evidences, Exits, Outcomes
  <1>4. CASE r \notin lv
    <2>1. f = Unconfirmed
      BY Zenon, <1>4 DEF Agree, f
    <2> QED BY <1>1, <1>4, <2>1
            DEF f, Unconfirmed, Ledger!Truthful, Ledger!Complete, Ledger!Evidences
  <1> QED BY Zenon, <1>3, <1>4

\* Runs::reconcile is what the ledger calls following.
LEMMA FollowOK ==
    ASSUME NEW s \in Hosts, NEW j, NEW k, NEW j2, NEW k2, NEW lv, NEW t,
           JournalOK(j), JournalOK(j2), KernelOK(k2, lv, t), Agree(j2, k2, lv),
           JournalAdvances(j, j2), Keeps(j, k, lv, j2, k2)
    PROVE  LedgerOf(s, j2, k2, lv) \in Ledger!FollowUps(LedgerOf(s, j, k, lv))
  <1> DEFINE g == LedgerOf(s, j, k, lv)
             h == LedgerOf(s, j2, k2, lv)
             AllFacts == [launch : Launches, direct : Directs, cleanup : Cleanups]
  <1>1. /\ g.session = s.epoch /\ g.scope = j.scope /\ g.tracked = lv
        /\ g.executed = {r \in lv : k.runs[r].launch # "NotStarted"}
        /\ g.facts = [r \in DOMAIN j.rows |-> JournalFacts(j.rows[r])]
        /\ g.stops = {r \in DOMAIN j.rows : j.rows[r].stop_requested}
    BY Zenon DEF LedgerOf
  <1>2. /\ h.session = s.epoch /\ h.scope = j2.scope /\ h.tracked = lv
        /\ h.executed = {r \in lv : k2.runs[r].launch # "NotStarted"}
        /\ h.facts = [r \in DOMAIN j2.rows |-> JournalFacts(j2.rows[r])]
        /\ h.stops = {r \in DOMAIN j2.rows : j2.rows[r].stop_requested}
        /\ h = [session |-> h.session, scope |-> h.scope, tracked |-> h.tracked,
                executed |-> h.executed, facts |-> h.facts, stops |-> h.stops]
    BY Zenon DEF LedgerOf
  <1>3. \A r \in DOMAIN j2.rows :
          Ledger!Truthful(h.executed, r, JournalFacts(j2.rows[r]))
    BY Zenon, ShowsTheTruth
  <1> HIDE DEF g, h
  <1>4. /\ h.executed = g.executed
        /\ h.stops = g.stops
        /\ DOMAIN h.facts = DOMAIN g.facts
    BY <1>1, <1>2 DEF Keeps, KeepsLaunch
  <1>5. h.facts \in [DOMAIN g.facts -> AllFacts]
    <2>1. \A r \in DOMAIN j2.rows : JournalFacts(j2.rows[r]) \in AllFacts
      BY Zenon DEF JournalFacts, JournalOK, Rows
    <2> HIDE DEF AllFacts
    <2>2. h.facts \in [DOMAIN j2.rows -> AllFacts]
      BY Zenon, <1>2, <2>1
    <2>3. DOMAIN g.facts = DOMAIN j2.rows
      BY Zenon, <1>2, <1>4
    <2> QED BY Zenon, <2>2, <2>3
  <1>6. ASSUME NEW r \in DOMAIN g.facts
        PROVE  /\ Ledger!FactsAdvance(g.facts[r], h.facts[r])
               /\ Ledger!Truthful(g.executed, r, h.facts[r])
               /\ h.facts[r] # g.facts[r] => r \in g.tracked
    <2>1. r \in DOMAIN j.rows /\ r \in DOMAIN j2.rows
      BY Zenon, <1>1 DEF Keeps
    <2>2. g.facts[r] = JournalFacts(j.rows[r]) /\ h.facts[r] = JournalFacts(j2.rows[r])
      BY Zenon, <1>1, <1>2, <2>1
    <2>3. FactsAdvance(j.rows[r], j2.rows[r])
      BY Zenon, <2>1 DEF JournalAdvances
    <2>4. Ledger!FactsAdvance(JournalFacts(j.rows[r]), JournalFacts(j2.rows[r]))
      BY Zenon, <2>3 DEF JournalFacts, FactsAdvance, Complete, Evidences, Exits, Outcomes,
         Ledger!FactsAdvance, Ledger!Complete, Ledger!Evidences, Ledger!Exits, Ledger!Outcomes
    <2>5. r \notin lv => j2.rows[r] = j.rows[r]
      BY Zenon, <2>1 DEF Keeps
    <2> QED BY <1>1, <1>3, <1>4, <2>1, <2>2, <2>4, <2>5, Zenon
  <1>7. \/ h.scope = g.scope
        \/ /\ g.scope = "Closing" /\ h.scope \in Evidences
           /\ \A r \in DOMAIN h.facts : r \in g.tracked /\ h.facts[r].cleanup \in Evidences
    <2>1. h.scope \in Evidences =>
             DOMAIN j2.rows = lv /\ \A r \in lv : j2.rows[r].cleanup \in Evidences
      BY Zenon, <1>2 DEF Agree
    <2>2. \A r \in DOMAIN j2.rows : h.facts[r].cleanup = j2.rows[r].cleanup
      <3>1. \A r \in DOMAIN j2.rows : h.facts[r] = JournalFacts(j2.rows[r])
        BY Zenon, <1>2
      <3>2. \A x : JournalFacts(x).cleanup = x.cleanup
        BY Zenon DEF JournalFacts
      <3> HIDE DEF JournalFacts
      <3> QED BY Zenon, <3>1, <3>2
    <2>3. h.scope = g.scope \/ (g.scope = "Closing" /\ h.scope \in Evidences)
      BY Zenon, <1>1, <1>2 DEF Keeps
    <2>4. DOMAIN h.facts = DOMAIN j2.rows
      BY Zenon, <1>2
    <2> QED BY Zenon, <1>1, <2>1, <2>2, <2>3, <2>4
  <1>8. Ledger!Follows(g, h)
    BY Zenon, <1>6, <1>7 DEF Ledger!Follows, Ledger!Complete, Ledger!Evidences, Evidences
  <1>9. h.scope \in ScopeStates
    BY Zenon, <1>2 DEF JournalOK
  <1> HIDE DEF AllFacts
  <1>10. h \in [session : {g.session}, scope : ScopeStates, tracked : {g.tracked},
                executed : {g.executed}, facts : [DOMAIN g.facts -> AllFacts],
                stops : {g.stops}]
    BY Zenon, <1>1, <1>2, <1>4, <1>5, <1>9
  <1>11. h \in Ledger!FollowUps(g)
    BY Zenon, <1>8, <1>10 DEF Ledger!FollowUps, AllFacts, Ledger!ScopeStates, Ledger!Evidences,
       ScopeStates, Evidences
  <1> QED BY Zenon, <1>11 DEF g, h

\* A ledger field by field.
Fields(s, scope, tracked, executed, facts, stops) ==
    [session |-> s, scope |-> scope, tracked |-> tracked, executed |-> executed,
     facts |-> facts, stops |-> stops]

\* The facts of a ledger that has accepted r.
Grown(facts, r) ==
    [q \in DOMAIN facts \cup {r} |-> IF q = r THEN Ledger!Accepted ELSE facts[q]]

\* What the requests do to a ledger, field by field.
LEMMA LedgerFields ==
    ASSUME NEW s, NEW scope, NEW tracked, NEW executed, NEW facts, NEW stops
    PROVE  LET l == Fields(s, scope, tracked, executed, facts, stops) IN
           /\ \A e : [l EXCEPT !.session = e] = Fields(e, scope, tracked, executed, facts, stops)
           /\ \A r : Ledger!WithStop(l, r)
                       = Fields(s, scope, tracked, executed, facts, stops \cup {r})
           /\ Ledger!Sealed(l) = Fields(s, "Closing", tracked, executed, facts, DOMAIN facts)
           /\ \A r, t, e : Ledger!WithRun(l, r, t, e)
                = Fields(s, scope, tracked \cup t, executed \cup e, Grown(facts, r), stops)
  <1> DEFINE l == Fields(s, scope, tracked, executed, facts, stops)
  <1>1. \A e : [l EXCEPT !.session = e] = Fields(e, scope, tracked, executed, facts, stops)
    BY DEF Fields
  <1>2. \A r : Ledger!WithStop(l, r)
                 = Fields(s, scope, tracked, executed, facts, stops \cup {r})
    BY DEF Fields, Ledger!WithStop
  <1>3. /\ l.scope = scope /\ l.tracked = tracked /\ l.executed = executed
        /\ l.facts = facts /\ l.stops = stops
    BY Zenon DEF Fields
  <1>4. Ledger!Sealed(l) = Fields(s, "Closing", tracked, executed, facts, DOMAIN facts)
    <2> DEFINE after == [l EXCEPT !.scope = "Closing", !.stops = DOMAIN facts]
               Shape == [session : {s}, scope : {scope, "Closing"}, tracked : {tracked},
                         executed : {executed}, facts : {facts}, stops : {stops, DOMAIN facts}]
    <2>1. l \in Shape
      BY Zenon DEF Fields
    <2>2. Ledger!Sealed(l) = after
      BY Zenon, <1>3 DEF Ledger!Sealed
    <2> HIDE DEF l
    <2>3. after \in Shape /\ after.scope = "Closing" /\ after.stops = DOMAIN facts
      BY <2>1, Zenon
    <2> HIDE DEF after
    <2> QED BY Zenon, <2>2, <2>3 DEF Fields, l
  <1>5. ASSUME NEW r, NEW t, NEW e
        PROVE  Ledger!WithRun(l, r, t, e)
                 = Fields(s, scope, tracked \cup t, executed \cup e, Grown(facts, r), stops)
    <2> DEFINE known == Grown(facts, r)
               after == [l EXCEPT !.facts = known, !.tracked = @ \cup t, !.executed = @ \cup e]
               Shape == [session : {s}, scope : {scope}, tracked : {tracked, tracked \cup t},
                         executed : {executed, executed \cup e}, facts : {facts, known},
                         stops : {stops}]
    <2>1. l \in Shape
      BY Zenon DEF Fields
    <2>2. Ledger!WithRun(l, r, t, e) = after
      BY Zenon, <1>3 DEF Ledger!WithRun, Grown
    <2> HIDE DEF known, l
    <2>3. /\ after \in Shape /\ after.facts = known
          /\ after.tracked = tracked \cup t /\ after.executed = executed \cup e
      BY <1>3, <2>1, Zenon
    <2> HIDE DEF after
    <2> QED BY <2>2, <2>3, Zenon DEF Fields, l, known
  <1> QED BY Zenon, <1>1, <1>2, <1>4, <1>5

Executed(k, lv) == {r \in lv : k.runs[r].launch # "NotStarted"}
Shown(j) == [r \in DOMAIN j.rows |-> JournalFacts(j.rows[r])]
Stopping(j) == {r \in DOMAIN j.rows : j.rows[r].stop_requested}

\* What a host sees of a guardian, field by field.
LEMMA LedgerOfFields ==
    ASSUME NEW s, NEW j, NEW k, NEW lv
    PROVE  LedgerOf(s, j, k, lv) =
              Fields(s.epoch, j.scope, lv, Executed(k, lv), Shown(j), Stopping(j))
  BY Zenon DEF LedgerOf, Fields, Executed, Shown, Stopping

-----------------------------------------------------------------------------
(* The state machine.                                                      *)

\* What a host sees now.
View == LedgerOf(session, journal, kernel, live)

\* What each step must do: keep the invariant, only advance the journal, and be a
\* step of the ledger for whoever sees the view.
StepOK ==
    /\ IInv'
    /\ JournalAdvances(journal, journal')
    /\ Ledger!Next \/ UNCHANGED View

\* A fresh guardian satisfies the inductive invariant.
LEMMA InitOK == Init => IInv
  <1> SUFFICES ASSUME Init PROVE IInv
    BY Zenon
  <1>1. journal.scope = "Open" /\ DOMAIN journal.rows = {}
        /\ journal = [scope |-> journal.scope, rows |-> journal.rows]
        /\ journal.rows \in [{} -> Rows]
    BY Zenon DEF Init
  <1>2. kernel.state = "Open" /\ kernel.runs = [r \in {} |-> kernel.runs[r]]
        /\ kernel = [state |-> kernel.state, runs |-> kernel.runs]
    BY Zenon DEF Init
  <1>3. session \in Hosts /\ live = {} /\ wedged = FALSE /\ settled = FALSE /\ now = 0
        /\ spawns = [r \in Runs |-> 0]
    BY Zenon DEF Init
  <1>4. JournalOK(journal)
    BY Zenon, <1>1, FS_EmptySet DEF JournalOK, ScopeStates
  <1>5. KernelOK(kernel, live, now)
    BY Zenon, <1>2, <1>3 DEF KernelOK, ScopeStates, Evidences
  <1>6. Agree(journal, kernel, live)
    BY Zenon, <1>1, <1>2, <1>3 DEF Agree, Evidences
  <1>7. OneSpawn /\ SettledIsDurable /\ now \in 0..MaxTime /\ spawns \in [Runs -> Nat]
    BY <1>3, GuardianAssumption, MaxInstantAssumption DEF OneSpawn, SettledIsDurable
  <1> QED BY <1>3, <1>4, <1>5, <1>6, <1>7, Zenon DEF IInv

\* Bind touches the session alone.
LEMMA BindOK ==
    ASSUME IInv, NEW host \in Hosts, NEW write \in Transactions, Bind(host, write)
    PROVE  StepOK
  <1>1. session' \in Hosts /\ wedged' \in BOOLEAN
    BY Zenon DEF Bind, IInv
  <1>2. UNCHANGED <<journal, kernel, live, settled, now, spawns>>
    BY Zenon DEF Bind
  <1>3. IInv' /\ JournalAdvances(journal, journal')
    BY Zenon, <1>1, <1>2, JournalStays DEF IInv, OneSpawn, SettledIsDurable
  <1>4. CASE session' = session
    BY Zenon, <1>2, <1>3, <1>4 DEF StepOK, View
  <1>5. CASE session' # session
    <2>1. session' = host /\ host.epoch > session.epoch /\ host.epoch \in Epochs
      BY Zenon, <1>5 DEF Bind, Hosts
    <2>2. View' = [View EXCEPT !.session = host.epoch] /\ View.session = session.epoch
      <3>1. View' = LedgerOf(host, journal, kernel, live)
        BY Zenon, <1>2, <2>1 DEF View
      <3>2. View.session = session.epoch
        BY Zenon DEF View, LedgerOf
      <3>3. /\ View = Fields(session.epoch, journal.scope, live, Executed(kernel, live),
                             Shown(journal), Stopping(journal))
            /\ View' = Fields(host.epoch, journal.scope, live, Executed(kernel, live),
                              Shown(journal), Stopping(journal))
        BY Zenon, <3>1, LedgerOfFields DEF View
      <3> QED BY <3>2, <3>3, LedgerFields
    <2>3. Ledger!Takeover(host.epoch)
      BY Zenon, <2>1, <2>2 DEF Ledger!Takeover, View
    <2> QED BY Zenon, <1>3, <2>1, <2>3 DEF StepOK, Ledger!Next
  <1> QED BY Zenon, <1>4, <1>5

\* The acceptance of a new Run in an open journal: the row says nothing yet.
LEMMA InsertedOK ==
    ASSUME IInv, NEW r \in Runs, r \notin DOMAIN journal.rows, journal.scope = "Open",
           NEW spec \in Specs
    PROVE  LET after == Inserted(r, spec) IN
           /\ JournalOK(after)
           /\ after.scope = "Open"
           /\ DOMAIN after.rows = DOMAIN journal.rows \cup {r}
           /\ after.rows[r] = NewRow(spec)
           /\ \A q \in DOMAIN journal.rows : after.rows[q] = journal.rows[q]
           /\ JournalAdvances(journal, after)
  <1> DEFINE after == Inserted(r, spec)
             rows == [q \in DOMAIN journal.rows \cup {r} |->
                        IF q = r THEN NewRow(spec) ELSE journal.rows[q]]
  <1>1. after = [journal EXCEPT !.rows = rows]
    BY Zenon DEF Inserted
  <1>2. journal = [scope |-> journal.scope, rows |-> journal.rows]
    BY Zenon DEF IInv, JournalOK
  <1>3. NewRow(spec) \in Rows
    BY Zenon DEF NewRow, Rows, Launches, Directs, Cleanups
  <1>4. rows \in [DOMAIN journal.rows \cup {r} -> Rows]
    BY Zenon, <1>3 DEF IInv, JournalOK
  <1>5. DOMAIN rows = DOMAIN journal.rows \cup {r}
        /\ rows[r] = NewRow(spec) /\ \A q \in DOMAIN journal.rows : rows[q] = journal.rows[q]
    BY Zenon
  <1> HIDE DEF rows, after
  <1>6. after = [scope |-> journal.scope, rows |-> rows]
    BY Zenon, <1>1, <1>2
  <1>7. after.scope = "Open" /\ after.rows = rows
    BY Zenon, <1>6
  <1>8. IsFiniteSet(DOMAIN journal.rows \cup {r})
    BY Zenon, FS_AddElement DEF IInv, JournalOK
  <1>9. JournalOK(after)
    BY Zenon, <1>4, <1>5, <1>6, <1>7, <1>8 DEF JournalOK, IInv
  <1>10. JournalAdvances(journal, after)
    BY Zenon, <1>5, <1>7 DEF JournalAdvances, FactsAdvance, Exits
  <1> QED BY Zenon, <1>5, <1>7, <1>9, <1>10 DEF after

\* The row of a newly accepted Run, as the ledger shows it.
LEMMA RowFields ==
    ASSUME NEW j, NEW r, r \notin DOMAIN journal.rows, NEW spec,
           DOMAIN j.rows = DOMAIN journal.rows \cup {r}, j.rows[r] = NewRow(spec),
           \A q \in DOMAIN journal.rows : j.rows[q] = journal.rows[q]
    PROVE  /\ Shown(j) = Grown(Shown(journal), r)
           /\ Stopping(j) = Stopping(journal)
  <1>1. JournalFacts(NewRow(spec)) = Ledger!Accepted /\ ~NewRow(spec).stop_requested
    BY Zenon DEF JournalFacts, NewRow, Ledger!Accepted
  <1> QED BY Zenon, <1>1 DEF Shown, Stopping, Grown

\* What a row confirms is its three facts, whatever else it holds.
LEMMA SameFacts ==
    ASSUME NEW a, NEW b, NEW facts,
           a.launch = b.launch, a.direct = b.direct, a.cleanup = b.cleanup,
           FactsAdvance(b, facts)
    PROVE  FactsAdvance(a, facts)
  BY Zenon DEF FactsAdvance, Complete

\* A row that Start inserts confirms nothing of its Run.
LEMMA NewRowSaysNothing ==
    ASSUME NEW spec
    PROVE  /\ JournalFacts(NewRow(spec)) = Unconfirmed
           /\ \A facts : FactsAdvance(NewRow(spec), facts)
  <1>1. NewRow(spec).launch = "Unknown" /\ NewRow(spec).direct = "Unknown"
        /\ NewRow(spec).cleanup = "Pending"
    BY Zenon DEF NewRow
  <1>2. JournalFacts(NewRow(spec)) = Unconfirmed
    BY Zenon, <1>1 DEF JournalFacts, Unconfirmed
  <1>3. \A facts : FactsAdvance(NewRow(spec), facts)
    BY Zenon, <1>1 DEF FactsAdvance, Complete, Evidences, Outcomes
  <1> QED BY Zenon, <1>2, <1>3

\* Start: an accepted Run is executed once, after its row; an ambiguous commit
\* leaves a row that has no live handle.
LEMMA StartOK ==
    ASSUME IInv, NEW host \in Hosts, NEW r \in Runs, NEW spec \in Specs,
           NEW write \in Transactions, Start(host, r, spec, write)
    PROVE  StepOK
  <1> DEFINE row == Inserted(r, spec)
  <1>1. /\ r \notin DOMAIN journal.rows
        /\ journal.scope = "Open"
        /\ wedged' \in BOOLEAN
        /\ UNCHANGED <<session, now>>
    BY Zenon DEF Start
  <1>2. /\ JournalOK(row)
        /\ row.scope = "Open"
        /\ DOMAIN row.rows = DOMAIN journal.rows \cup {r}
        /\ row.rows[r] = NewRow(spec)
        /\ \A q \in DOMAIN journal.rows : row.rows[q] = journal.rows[q]
        /\ JournalAdvances(journal, row)
    BY Zenon, <1>1, InsertedOK
  <1>3. /\ live \subseteq DOMAIN journal.rows
        /\ live \subseteq Runs
        /\ kernel.state = "Open"
        /\ ~settled
    BY Zenon, <1>1 DEF IInv, Agree, JournalOK, SettledIsDurable, Evidences
  <1>4. CASE write = "done"
    <2>1. PICK outcome \in {"Started", "NotStarted", "Unknown"} :
             LET record == Spawned(Registered(spec), outcome, Guarantee)
                 k == [kernel EXCEPT !.runs = [q \in DOMAIN kernel.runs \cup {r} |->
                          IF q = r THEN record ELSE kernel.runs[q]]]
             IN  Reconciling(row, k, live')
      BY Zenon, <1>4 DEF Start
    <2>2. live' = live \cup {r} /\ spawns' = [spawns EXCEPT ![r] = @ + 1]
      BY Zenon, <1>4 DEF Start
    <2> DEFINE record == Spawned(Registered(spec), outcome, Guarantee)
               runs == [q \in DOMAIN kernel.runs \cup {r} |->
                          IF q = r THEN record ELSE kernel.runs[q]]
               k == [kernel EXCEPT !.runs = runs]
    <2>3. RecordOK(record, Specs, Guarantee, now) /\ EndsWithExit(record)
      BY SpawnedOK, ClockType, Zenon
      DEF IInv, EndsWithExit, Spawned, Registered, Complete, Evidences
    <2>4. DOMAIN kernel.runs = live
      BY Zenon DEF IInv, KernelOK
    <2>5. /\ runs = [q \in live' |-> runs[q]]
          /\ \A q \in live' : RecordOK(runs[q], Specs, Guarantee, now) /\ EndsWithExit(runs[q])
      BY Zenon, <2>2, <2>3, <2>4 DEF IInv, KernelOK
    <2>6. \A q \in live : runs[q] = kernel.runs[q]
      BY Zenon, <1>1, <1>3, <2>4
    <2>7. kernel = [state |-> kernel.state, runs |-> kernel.runs]
      BY Zenon DEF IInv, KernelOK
    <2>8. Reconciling(row, k, live')
      BY Zenon, <2>1
    <2> HIDE DEF runs, record, row
    <2>9. k = [state |-> "Open", runs |-> runs]
      BY <1>3, <2>7
    <2> HIDE DEF k
    <2>10. KernelOK(k, live', now)
      BY Zenon, <2>5, <2>9 DEF KernelOK, ScopeStates, Evidences
    <2>11. Agree(row, k, live')
      <3>1. \A q \in live : FactsAdvance(row.rows[q], k.runs[q])
        BY <1>2, <1>3, <2>6, <2>9, Zenon DEF IInv, Agree
      <3>2. FactsAdvance(row.rows[r], k.runs[r])
        BY <1>2, NewRowSaysNothing, Zenon
      <3> QED BY Zenon, <1>2, <1>3, <2>2, <2>9, <3>1, <3>2 DEF IInv, Agree, Evidences
    <2>12. PICK reach \in Reaches(live'), obs \in [DOMAIN k.runs -> Observations],
                signalled \in [DOMAIN k.runs -> Signals] :
                   ReconcileFrom(row, k, live', reach, obs, signalled)
      BY Zenon, <2>8 DEF Reconciling
    <2>13. now \in 0..MaxTime /\ settled \in BOOLEAN
      BY Zenon DEF IInv
    <2>14. /\ JournalOK(journal') /\ KernelOK(kernel', live', now)
           /\ Agree(journal', kernel', live')
           /\ settled' \in BOOLEAN
           /\ settled' => journal'.scope \in Evidences /\ kernel'.state = journal'.scope
           /\ JournalAdvances(row, journal')
           /\ Keeps(row, k, live', journal', kernel')
      BY Zenon, <1>2, <1>3, <2>10, <2>11, <2>12, <2>13, ReconcileFromOK
    <2>15. OneSpawn' /\ spawns' \in [Runs -> Nat]
      <3>1. live' \subseteq DOMAIN journal'.rows
        BY <2>14, Zenon DEF Agree
      <3>2. /\ spawns \in [Runs -> Nat]
            /\ \A q \in Runs : spawns[q] = IF q \in live THEN 1 ELSE 0
        BY Zenon DEF IInv, OneSpawn
      <3>3. r \notin live
        BY Zenon, <1>1, <1>3
      <3>4. spawns' \in [Runs -> Nat]
        BY <2>2, <3>2
      <3>5. \A q \in Runs : spawns'[q] = IF q \in live' THEN 1 ELSE 0
        BY <2>2, <3>2, <3>3
      <3> QED BY Zenon, <3>1, <3>4, <3>5 DEF OneSpawn
    <2>16. JournalAdvances(journal, journal')
      BY <1>1, <1>2, <2>14, FactsAdvanceTransitive, Zenon DEF JournalAdvances
    <2>17. LedgerOf(session, journal', kernel', live')
              \in Ledger!FollowUps(LedgerOf(session, row, k, live'))
      BY Zenon, <1>2, <2>14, FollowOK DEF IInv
    <2>18. LedgerOf(session, row, k, live') = Ledger!WithRun(View, r, {r},
                 IF record.launch # "NotStarted" THEN {r} ELSE {})
      <3>1. Executed(k, live') = Executed(kernel, live) \cup
               IF record.launch # "NotStarted" THEN {r} ELSE {}
        <4>1. \A q \in live : k.runs[q] = kernel.runs[q]
          BY Zenon, <2>6, <2>9
        <4>2. k.runs[r] = record
          BY Zenon, <2>9 DEF runs
        <4> QED BY Zenon, <2>2, <4>1, <4>2 DEF Executed
      <3>2. Shown(row) = Grown(Shown(journal), r) /\ Stopping(row) = Stopping(journal)
        BY <1>1, <1>2, RowFields, Zenon
      <3>3. View = Fields(session.epoch, journal.scope, live, Executed(kernel, live),
                          Shown(journal), Stopping(journal))
        BY Zenon, LedgerOfFields DEF View
      <3>4. LedgerOf(session, row, k, live')
              = Fields(session.epoch, journal.scope, live \cup {r}, Executed(k, live'),
                       Shown(row), Stopping(row))
        BY <1>1, <1>2, <2>2, LedgerOfFields, Zenon
      <3> QED BY <3>1, <3>2, <3>3, <3>4, LedgerFields
    <2>19. Ledger!Accept(r)
      <3>1. View.scope = "Open" /\ r \notin DOMAIN View.facts
        BY Zenon, <1>1 DEF View, LedgerOf
      <3>2. View' = LedgerOf(session, journal', kernel', live')
        BY Zenon, <1>1 DEF View
      <3>3. /\ {r} \in SUBSET {r}
            /\ (IF record.launch # "NotStarted" THEN {r} ELSE {}) \in SUBSET {r}
        BY Zenon
      <3> QED BY Zenon, <2>17, <2>18, <3>1, <3>2, <3>3 DEF Ledger!Accept, View
    <2> QED BY Zenon, <1>1, <2>14, <2>15, <2>16, <2>19 DEF IInv, SettledIsDurable, StepOK, Ledger!Next
  <1>5. CASE write # "done"
    <2>1. journal' \in {row, journal} /\ UNCHANGED <<kernel, live, settled, spawns>>
      BY Zenon, <1>5 DEF Start
    <2>2. JournalOK(journal') /\ JournalAdvances(journal, journal')
      BY Zenon, <1>2, <2>1, JournalStays DEF IInv
    <2> HIDE DEF row
    <2>3. JournalFacts(row.rows[r]) = Unconfirmed
      BY <1>2, NewRowSaysNothing, Zenon
    <2>4. Agree(row, kernel, live)
      <3>1. Agree(journal, kernel, live)
        BY Zenon DEF IInv
      <3>2. \A q \in live : FactsAdvance(row.rows[q], kernel.runs[q])
        <4>1. \A q \in live : row.rows[q] = journal.rows[q]
          BY Zenon, <1>2, <1>3
        <4> QED BY Zenon, <3>1, <4>1 DEF Agree
      <3>3. \A q \in DOMAIN row.rows \ live : JournalFacts(row.rows[q]) = Unconfirmed
        <4> SUFFICES ASSUME NEW q \in DOMAIN row.rows \ live, q # r
                     PROVE  JournalFacts(row.rows[q]) = Unconfirmed
          BY Zenon, <2>3
        <4>1. q \in DOMAIN journal.rows \ live /\ row.rows[q] = journal.rows[q]
          BY Zenon, <1>2
        <4> QED BY Zenon, <3>1, <4>1 DEF Agree
      <3> QED BY Zenon, <1>2, <1>3, <3>2, <3>3 DEF Agree, Evidences
    <2>5. Agree(journal', kernel', live')
      BY Zenon, <2>1, <2>4 DEF IInv
    <2>6. OneSpawn' /\ SettledIsDurable'
      BY <1>3, <2>1, <2>5, Zenon DEF IInv, OneSpawn, SettledIsDurable, Agree
    <2>7. IInv'
      BY Zenon, <1>1, <2>1, <2>2, <2>5, <2>6 DEF IInv
    <2>8. CASE journal' = journal
      BY Zenon, <1>1, <2>1, <2>2, <2>7, <2>8 DEF StepOK, View
    <2>9. CASE journal' = row
      <3>1. JournalAdvances(row, row) /\ Keeps(row, kernel, live, row, kernel)
        BY Zenon, JournalStays DEF Keeps, KeepsLaunch
      <3>2. LedgerOf(session, row, kernel, live)
              \in Ledger!FollowUps(LedgerOf(session, row, kernel, live))
        BY Zenon, <1>2, <2>4, <3>1, FollowOK DEF IInv
      <3>3. LedgerOf(session, row, kernel, live) = Ledger!WithRun(View, r, {}, {})
        <4>1. Shown(row) = Grown(Shown(journal), r) /\ Stopping(row) = Stopping(journal)
          BY <1>1, <1>2, RowFields, Zenon
        <4>2. View = Fields(session.epoch, journal.scope, live, Executed(kernel, live),
                            Shown(journal), Stopping(journal))
          BY Zenon, LedgerOfFields DEF View
        <4>3. LedgerOf(session, row, kernel, live)
                = Fields(session.epoch, journal.scope, live, Executed(kernel, live),
                         Shown(row), Stopping(row))
          BY Zenon, <1>1, <1>2, LedgerOfFields
        <4>4. live \cup {} = live /\ Executed(kernel, live) \cup {} = Executed(kernel, live)
          BY Zenon
        <4> QED BY <4>1, <4>2, <4>3, <4>4, LedgerFields
      <3>4. Ledger!Accept(r)
        <4>1. View.scope = "Open" /\ r \notin DOMAIN View.facts
          BY <1>1, Zenon DEF View, LedgerOf
        <4>2. View' = LedgerOf(session, row, kernel, live)
          BY Zenon, <1>1, <2>1, <2>9 DEF View
        <4>3. {} \in SUBSET {r} /\ {} \in SUBSET {}
          BY Zenon
        <4> QED BY Zenon, <3>2, <3>3, <4>1, <4>2, <4>3 DEF Ledger!Accept, View
      <3> QED BY Zenon, <2>2, <2>7, <3>4 DEF StepOK, Ledger!Next
    <2> QED BY Zenon, <2>1, <2>8, <2>9
  <1> QED BY Zenon, <1>4, <1>5

\* What a request that reconciles a journal j leaves behind, when j is the journal
\* with more stop intents or a seal.
LEMMA RequestOK ==
    ASSUME IInv, NEW j, JournalOK(j), Agree(j, kernel, live), JournalAdvances(journal, j),
           settled => j.scope \in Evidences /\ kernel.state = j.scope,
           NEW reach \in Reaches(live),
           NEW obs \in [DOMAIN kernel.runs -> Observations],
           NEW signalled \in [DOMAIN kernel.runs -> Signals],
           ReconcileFrom(j, kernel, live, reach, obs, signalled),
           UNCHANGED <<session, live, now, spawns>>, wedged' \in BOOLEAN
    PROVE  /\ IInv' /\ JournalAdvances(journal, journal')
           /\ View' \in Ledger!FollowUps(LedgerOf(session, j, kernel, live))
  <1>1. now \in 0..MaxTime /\ settled \in BOOLEAN /\ KernelOK(kernel, live, now)
    BY Zenon DEF IInv
  <1>2. /\ JournalOK(journal') /\ KernelOK(kernel', live, now) /\ Agree(journal', kernel', live)
        /\ settled' \in BOOLEAN
        /\ settled' => journal'.scope \in Evidences /\ kernel'.state = journal'.scope
        /\ JournalAdvances(j, journal')
        /\ Keeps(j, kernel, live, journal', kernel')
    BY <1>1, ReconcileFromOK, Zenon
  <1>3. JournalAdvances(journal, journal')
    BY <1>2, FactsAdvanceTransitive, Zenon DEF JournalAdvances
  <1>4. OneSpawn'
    BY <1>2, Zenon DEF IInv, OneSpawn, Agree
  <1>5. View' \in Ledger!FollowUps(LedgerOf(session, j, kernel, live))
    <2>1. LedgerOf(session, journal', kernel', live)
            \in Ledger!FollowUps(LedgerOf(session, j, kernel, live))
      BY <1>2, FollowOK, Zenon DEF IInv
    <2> QED BY Zenon, <2>1 DEF View
  <1> QED BY <1>2, <1>3, <1>4, <1>5, Zenon DEF IInv, SettledIsDurable

\* A request whose commit reported an error: the journal is j or what it was.
LEMMA FaultOK ==
    ASSUME IInv, NEW j, JournalOK(j), Agree(j, kernel, live), JournalAdvances(journal, j),
           settled => j.scope \in Evidences /\ kernel.state = j.scope,
           journal' \in {j, journal},
           UNCHANGED <<session, kernel, live, settled, now, spawns>>, wedged' \in BOOLEAN
    PROVE  /\ IInv' /\ JournalAdvances(journal, journal')
           /\ \/ View' \in Ledger!FollowUps(LedgerOf(session, j, kernel, live))
              \/ UNCHANGED View
  <1>1. JournalOK(journal') /\ Agree(journal', kernel', live')
    BY Zenon DEF IInv
  <1>2. JournalAdvances(journal, journal')
    BY Zenon, JournalStays
  <1>3. OneSpawn' /\ SettledIsDurable'
    BY <1>1, Zenon DEF IInv, OneSpawn, SettledIsDurable, Agree
  <1>4. CASE journal' = journal
    BY Zenon, <1>1, <1>2, <1>3, <1>4 DEF IInv, View
  <1>5. CASE journal' = j
    <2>1. JournalAdvances(j, j) /\ Keeps(j, kernel, live, j, kernel)
      BY Zenon, JournalStays DEF Keeps, KeepsLaunch
    <2>2. LedgerOf(session, j, kernel, live)
            \in Ledger!FollowUps(LedgerOf(session, j, kernel, live))
      BY <2>1, FollowOK, Zenon DEF IInv
    <2> QED BY <1>1, <1>2, <1>3, <1>5, <2>2, Zenon DEF IInv, View
  <1> QED BY Zenon, <1>4, <1>5

\* Stop: the intent is durable before it is carried out.
LEMMA StopOK ==
    ASSUME IInv, NEW host \in Hosts, NEW r \in Runs, NEW write \in Writes, Stop(host, r, write)
    PROVE  StepOK
  <1> DEFINE rows == [journal.rows EXCEPT ![r] = [@ EXCEPT !.stop_requested = TRUE]]
             j == [journal EXCEPT !.rows[r].stop_requested = TRUE]
  <1>1. /\ r \in DOMAIN journal.rows
        /\ UNCHANGED <<session, wedged, live, now, spawns>>
        /\ IF write = "done" THEN Reconciling(j, kernel, live)
           ELSE /\ journal' = IF write = "lost" THEN j ELSE journal
                /\ UNCHANGED <<kernel, settled>>
    BY Zenon DEF Stop
  <1>2. journal.rows \in [DOMAIN journal.rows -> Rows]
        /\ journal = [scope |-> journal.scope, rows |-> journal.rows]
    BY Zenon DEF IInv, JournalOK
  <1>3. DOMAIN rows = DOMAIN journal.rows /\ rows \in [DOMAIN journal.rows -> Rows]
        /\ \A q \in DOMAIN rows :
              /\ rows[q].launch = journal.rows[q].launch
              /\ rows[q].direct = journal.rows[q].direct
              /\ rows[q].cleanup = journal.rows[q].cleanup
              /\ rows[q].stop_requested <=> q = r \/ journal.rows[q].stop_requested
    BY <1>1, <1>2, Zenon DEF Rows
  <1>4. j = [journal EXCEPT !.rows = rows]
    BY Zenon
  <1> HIDE DEF rows, j
  <1>5. j = [scope |-> journal.scope, rows |-> rows]
    BY Zenon, <1>2, <1>4
  <1>6. j.scope = journal.scope /\ j.rows = rows
    BY Zenon, <1>5
  <1>7. JournalOK(j)
    BY Zenon, <1>3, <1>5, <1>6 DEF IInv, JournalOK
  <1>8. JournalAdvances(journal, j)
    BY <1>3, <1>6, Zenon DEF JournalAdvances, FactsAdvance, Complete, Exits
  <1>9. Agree(j, kernel, live)
    <2>1. Agree(journal, kernel, live)
      BY Zenon DEF IInv
    <2>2. \A q \in DOMAIN rows : JournalFacts(j.rows[q]) = JournalFacts(journal.rows[q])
      BY <1>3, <1>6, Zenon DEF JournalFacts
    <2>3. \A q \in live : FactsAdvance(j.rows[q], kernel.runs[q])
      <3> SUFFICES ASSUME NEW q \in live PROVE FactsAdvance(j.rows[q], kernel.runs[q])
        BY Zenon
      <3>1. q \in DOMAIN rows /\ FactsAdvance(journal.rows[q], kernel.runs[q])
        BY Zenon, <1>3, <2>1 DEF Agree
      <3>2. /\ j.rows[q].launch = journal.rows[q].launch
            /\ j.rows[q].direct = journal.rows[q].direct
            /\ j.rows[q].cleanup = journal.rows[q].cleanup
        BY Zenon, <1>3, <1>6, <3>1
      <3> QED BY Zenon, <3>1, <3>2, SameFacts
    <2>4. live \subseteq DOMAIN j.rows /\ (kernel.state # "Open" => j.scope # "Open")
      BY Zenon, <1>3, <1>6, <2>1 DEF Agree
    <2>5. \A q \in DOMAIN j.rows \ live : JournalFacts(j.rows[q]) = Unconfirmed
      BY Zenon, <1>3, <1>6, <2>1, <2>2 DEF Agree
    <2>6. j.scope \in Evidences =>
            /\ kernel.state = j.scope /\ DOMAIN j.rows = live
            /\ \A q \in live : j.rows[q].cleanup = j.scope
      BY Zenon, <1>3, <1>6, <2>1 DEF Agree
    <2> QED BY <2>3, <2>4, <2>5, <2>6, Zenon DEF Agree
  <1>10. settled => j.scope \in Evidences /\ kernel.state = j.scope
    BY Zenon, <1>6 DEF IInv, SettledIsDurable
  <1>11. wedged' \in BOOLEAN
    BY Zenon, <1>1 DEF IInv
  <1>12. /\ IInv' /\ JournalAdvances(journal, journal')
         /\ \/ View' \in Ledger!FollowUps(LedgerOf(session, j, kernel, live))
            \/ UNCHANGED View
    <2>1. CASE write = "done"
      <3>1. Reconciling(j, kernel, live)
        BY Zenon, <1>1, <2>1
      <3> QED BY <1>1, <1>7, <1>8, <1>9, <1>10, <1>11, <3>1, RequestOK, Zenon DEF Reconciling
    <2>2. CASE write # "done"
      BY <1>1, <1>7, <1>8, <1>9, <1>10, <1>11, <2>2, FaultOK, Zenon
    <2> QED BY Zenon, <2>1, <2>2
  <1>13. LedgerOf(session, j, kernel, live) = Ledger!WithStop(View, r)
    <2>1. Shown(j) = Shown(journal)
      BY Zenon, <1>3, <1>6 DEF Shown, JournalFacts
    <2>2. Stopping(j) = Stopping(journal) \cup {r}
      BY Zenon, <1>1, <1>3, <1>6 DEF Stopping
    <2>3. /\ View = Fields(session.epoch, journal.scope, live, Executed(kernel, live),
                           Shown(journal), Stopping(journal))
          /\ LedgerOf(session, j, kernel, live)
               = Fields(session.epoch, journal.scope, live, Executed(kernel, live),
                        Shown(journal), Stopping(journal) \cup {r})
      BY Zenon, <1>6, <2>1, <2>2, LedgerOfFields DEF View
    <2> QED BY <2>3, LedgerFields
  <1>14. View.facts = [q \in DOMAIN journal.rows |-> JournalFacts(journal.rows[q])]
    BY Zenon DEF View, LedgerOf
  <1>15. View' \in Ledger!FollowUps(LedgerOf(session, j, kernel, live)) => Ledger!Stop(r)
    BY <1>1, <1>13, <1>14, Zenon DEF Ledger!Stop, View
  <1> QED BY Zenon, <1>12, <1>15 DEF StepOK, Ledger!Next

\* Close: the seal and the stop intents are one transaction.
LEMMA CloseOK ==
    ASSUME IInv, NEW host \in Hosts, NEW write \in Transactions, Close(host, write)
    PROVE  StepOK
  <1> DEFINE rows == [r \in DOMAIN journal.rows |->
                        [journal.rows[r] EXCEPT !.stop_requested = TRUE]]
             j == [scope |-> "Closing", rows |-> rows]
  <1>1. /\ journal.scope = "Open"
        /\ UNCHANGED <<session, live, now, spawns>>
        /\ wedged' \in BOOLEAN
        /\ IF write = "done" THEN Reconciling(j, kernel, live)
           ELSE /\ journal' = IF write = "lost" THEN j ELSE journal
                /\ UNCHANGED <<kernel, settled>>
    BY Zenon DEF Close
  <1>2. journal.rows \in [DOMAIN journal.rows -> Rows]
    BY Zenon DEF IInv, JournalOK
  <1>3. DOMAIN rows = DOMAIN journal.rows /\ rows \in [DOMAIN journal.rows -> Rows]
        /\ \A q \in DOMAIN rows :
              /\ rows[q].launch = journal.rows[q].launch
              /\ rows[q].direct = journal.rows[q].direct
              /\ rows[q].cleanup = journal.rows[q].cleanup
              /\ rows[q].stop_requested
    BY <1>2, Zenon DEF Rows
  <1> HIDE DEF rows
  <1>4. j.scope = "Closing" /\ j.rows = rows
    BY Zenon
  <1>5. JournalOK(j)
    BY Zenon, <1>3, <1>4 DEF IInv, JournalOK, ScopeStates
  <1>6. JournalAdvances(journal, j)
    BY Zenon, <1>1, <1>3, <1>4 DEF JournalAdvances, FactsAdvance, Complete, Exits
  <1>7. Agree(j, kernel, live)
    <2>1. Agree(journal, kernel, live)
      BY Zenon DEF IInv
    <2>2. \A q \in DOMAIN rows : JournalFacts(j.rows[q]) = JournalFacts(journal.rows[q])
      BY Zenon, <1>1, <1>3, <1>4 DEF JournalFacts
    <2>3. \A q \in live : FactsAdvance(j.rows[q], kernel.runs[q])
      <3> SUFFICES ASSUME NEW q \in live PROVE FactsAdvance(j.rows[q], kernel.runs[q])
        BY Zenon
      <3>1. q \in DOMAIN rows /\ FactsAdvance(journal.rows[q], kernel.runs[q])
        BY Zenon, <1>3, <2>1 DEF Agree
      <3>2. /\ j.rows[q].launch = journal.rows[q].launch
            /\ j.rows[q].direct = journal.rows[q].direct
            /\ j.rows[q].cleanup = journal.rows[q].cleanup
        BY Zenon, <1>1, <1>3, <1>4, <3>1
      <3> QED BY Zenon, <3>1, <3>2, SameFacts
    <2> QED BY Zenon, <1>1, <1>3, <1>4, <2>1, <2>2, <2>3 DEF Agree, Evidences
  <1>8. ~settled
    BY Zenon, <1>1 DEF IInv, SettledIsDurable, Evidences
  <1> HIDE DEF j
  <1>9. /\ IInv' /\ JournalAdvances(journal, journal')
        /\ \/ View' \in Ledger!FollowUps(LedgerOf(session, j, kernel, live))
           \/ UNCHANGED View
    <2>1. CASE write = "done"
      <3>1. Reconciling(j, kernel, live)
        BY Zenon, <1>1, <2>1
      <3> QED BY Zenon, <1>1, <1>5, <1>6, <1>7, <1>8, <3>1, RequestOK DEF Reconciling
    <2>2. CASE write # "done"
      BY Zenon, <1>1, <1>5, <1>6, <1>7, <1>8, <2>2, FaultOK
    <2> QED BY Zenon, <2>1, <2>2
  <1>10. LedgerOf(session, j, kernel, live) = Ledger!Sealed(View)
    <2>1. Shown(j) = Shown(journal)
      BY <1>3, <1>4, Zenon DEF Shown, JournalFacts
    <2>2. Stopping(j) = DOMAIN Shown(journal)
      BY Zenon, <1>3, <1>4 DEF Stopping, Shown
    <2>3. /\ View = Fields(session.epoch, journal.scope, live, Executed(kernel, live),
                           Shown(journal), Stopping(journal))
          /\ LedgerOf(session, j, kernel, live)
               = Fields(session.epoch, "Closing", live, Executed(kernel, live),
                        Shown(journal), DOMAIN Shown(journal))
      BY Zenon, <1>4, <2>1, <2>2, LedgerOfFields DEF View
    <2> QED BY <2>3, LedgerFields
  <1>11. View.scope = "Open"
    BY <1>1, Zenon DEF View, LedgerOf
  <1>12. View' \in Ledger!FollowUps(LedgerOf(session, j, kernel, live)) => Ledger!Close
    BY Zenon, <1>10, <1>11 DEF Ledger!Close, View
  <1> QED BY Zenon, <1>9, <1>12 DEF StepOK, Ledger!Next

\* The timer.
LEMMA ReconcileOK ==
    ASSUME IInv, Reconcile
    PROVE  StepOK
  <1>1. PICK reach \in Reaches(live), obs \in [DOMAIN kernel.runs -> Observations],
             signalled \in [DOMAIN kernel.runs -> Signals] :
                ReconcileFrom(journal, kernel, live, reach, obs, signalled)
    BY Zenon DEF Reconcile
  <1>2. UNCHANGED <<session, wedged, live, now, spawns>>
    BY Zenon DEF Reconcile
  <1>3. /\ JournalOK(journal) /\ Agree(journal, kernel, live) /\ wedged' \in BOOLEAN
        /\ settled => journal.scope \in Evidences /\ kernel.state = journal.scope
    BY Zenon, <1>2 DEF IInv, SettledIsDurable
  <1>4. /\ IInv' /\ JournalAdvances(journal, journal')
        /\ View' \in Ledger!FollowUps(LedgerOf(session, journal, kernel, live))
    BY <1>1, <1>2, <1>3, JournalStays, RequestOK, Zenon
  <1> QED BY Zenon, <1>4 DEF StepOK, Ledger!Next, Ledger!Follow, View

\* The passing of time.
LEMMA TickOK ==
    ASSUME IInv, Tick
    PROVE  StepOK
  <1>1. now' \in 0..MaxTime /\ now' >= now /\ now \in Nat /\ now' \in Nat
    BY GuardianAssumption, MaxInstantAssumption DEF Tick, IInv
  <1>2. UNCHANGED <<session, journal, wedged, kernel, live, settled, spawns>>
    BY Zenon DEF Tick
  <1>3. KernelOK(kernel, live, now')
    BY Zenon, <1>1, RecordLater DEF IInv, KernelOK
  <1> QED BY <1>1, <1>2, <1>3, JournalStays, Zenon
          DEF StepOK, View, IInv, OneSpawn, SettledIsDurable

\* Every step of the guardian preserves the inductive invariant, only advances the
\* journal, and is a step of the ledger.
LEMMA NextOK ==
    ASSUME IInv, [Next]_vars
    PROVE  StepOK
  <1>1. ASSUME UNCHANGED vars PROVE StepOK
    BY Zenon, <1>1, JournalStays DEF StepOK, View, vars, IInv, OneSpawn, SettledIsDurable
  <1> QED BY Zenon, <1>1, BindOK, StartOK, StopOK, CloseOK, ReconcileOK, TickOK DEF Next

-----------------------------------------------------------------------------
(* Theorems.                                                               *)

\* The inductive invariant holds in every reachable state of the guardian.
THEOREM Invariance == Spec => []IInv
  BY InitOK, NextOK, PTL DEF Spec, StepOK

\* The guardian is type correct, its kernel records included (Runs in guardian/runs.rs).
THEOREM TypeCorrect == Spec => []TypeOK
  <1>1. IInv => TypeOK
    BY Zenon DEF IInv, TypeOK, JournalOK, KernelOK, RecordOK, Agree
  <1> QED BY Invariance, <1>1, PTL

\* A Run is executed at most once and only after its acceptance is durable
\* (Runs::start_run inserts and commits before runtime.start).
THEOREM SpawnedOnce == Spec => []OneSpawn
  <1>1. IInv => OneSpawn
    BY Zenon DEF IInv
  <1> QED BY Invariance, <1>1, PTL

\* The kernel never seals admission before the journal (the order inside close).
THEOREM KernelNeverLeads == Spec => []KernelFollowsJournal
  <1>1. IInv => KernelFollowsJournal
    BY Zenon DEF IInv, Agree, KernelFollowsJournal
  <1> QED BY Invariance, <1>1, PTL

\* The journal never says more than the kernel confirmed (Runs::reconcile writes
\* snapshots after the kernel produced them).
THEOREM JournalNeverLeads == Spec => []JournalIsConfirmed
  <1>1. IInv => JournalIsConfirmed
    BY Zenon DEF IInv, Agree, JournalIsConfirmed
  <1> QED BY Invariance, <1>1, PTL

\* A journal that says Closed has only complete rows, each followed to its end (the
\* count of the rows before the scope state is written).
THEOREM ClosedJournalsAreClean == Spec => []ClosedJournalIsClean
  <1>1. IInv => ClosedJournalIsClean
    BY Zenon DEF IInv, Agree, ClosedJournalIsClean
  <1> QED BY Invariance, <1>1, PTL

\* Every row of a sealed journal carries its stop intent (the transaction of close).
THEOREM SealStopsEveryRow == Spec => []SealedRowsAreStopping
  <1>1. IInv => SealedRowsAreStopping
    BY Zenon DEF IInv, JournalOK, SealedRowsAreStopping
  <1> QED BY Invariance, <1>1, PTL

\* The settled shortcut is taken only over a durably closed scope (Runs::reconcile).
THEOREM SettledOnlyWhenDurable == Spec => []SettledIsDurable
  <1>1. IInv => SettledIsDurable
    BY Zenon DEF IInv
  <1> QED BY Invariance, <1>1, PTL

\* Confirmed facts and stop intents of the journal are final, and no accepted Run is
\* forgotten, whatever storage fails.
THEOREM JournalFactsStayFinal == Spec => JournalFactsAreFinal
  <1>1. IInv /\ [Next]_vars =>
            [\A r \in DOMAIN journal.rows :
                /\ r \in DOMAIN journal'.rows
                /\ FactsAdvance(journal.rows[r], journal'.rows[r])
                /\ journal.rows[r].stop_requested => journal'.rows[r].stop_requested]_vars
    BY Zenon, NextOK DEF StepOK, JournalAdvances
  <1> QED BY Invariance, <1>1, PTL DEF Spec, JournalFactsAreFinal

\* A sealed journal stays sealed (the Open check of start_run against close).
THEOREM SealedForGood == Spec => AdmissionStaysSealed
  <1>1. IInv /\ [Next]_vars =>
            [journal.scope # "Open" =>
                /\ journal'.scope # "Open"
                /\ DOMAIN journal'.rows = DOMAIN journal.rows]_vars
    BY Zenon, NextOK DEF StepOK, JournalAdvances
  <1> QED BY Invariance, <1>1, PTL DEF Spec, AdmissionStaysSealed

\* Every guardian step, whatever storage fails, is a step of the ledger its hosts rely
\* on or changes nothing they can see.
THEOREM GuardianImplementsLedger == Spec => ImplementsLedger
  <1>1. Init => Ledger!Init
    <2> SUFFICES ASSUME Init PROVE Ledger!Init
      BY Zenon
    <2>1. session.epoch \in Epochs
      BY Zenon DEF Init, Hosts
    <2>2. LedgerOf(session, journal, kernel, live) = Ledger!EmptyLedger(session.epoch)
      BY Zenon DEF Init, LedgerOf, Ledger!EmptyLedger
    <2> QED BY Zenon, <2>1, <2>2 DEF Ledger!Init
  <1>2. IInv /\ [Next]_vars => [Ledger!Next]_(LedgerOf(session, journal, kernel, live))
    BY Zenon, NextOK DEF StepOK, View
  <1> QED BY <1>1, <1>2, Invariance, PTL DEF Spec, ImplementsLedger, Ledger!Spec
=============================================================================
