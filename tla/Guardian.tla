------------------------------ MODULE Guardian ------------------------------
(***************************************************************************)
(* The guardian of one scope (crates/process-runtime/src/guardian/): the   *)
(* run ledger it keeps in SQLite (runs.rs), the host session that fences   *)
(* its callers (management.rs), and the ScopeRuntime kernel it drives over *)
(* the rootless Linux platform.  One mutex makes every request and every   *)
(* 50 ms reconciliation atomic; storage may fail at each statement of them.*)
(*                                                                         *)
(* A write is "done", "lost" (committed although an error is reported),    *)
(* "failed" (no effect) or, for a transaction, "wedged": the rollback      *)
(* failed too and the connection never returns to autocommit.              *)
(*                                                                         *)
(* Query, Scope, a replayed Start and a repeated Close write nothing of    *)
(* their own and then reconcile: they are the steps of Reconcile.  Refused *)
(* requests and Output change nothing.                                     *)
(***************************************************************************)
EXTENDS ScopeKernel, FiniteSets

CONSTANTS
    Runs,        \* RunIds
    Graces,      \* graces of the descendant policy, WaitForAll included
    Epochs,      \* host epochs
    Instances,   \* host instances
    RunLimit,    \* GUARDIAN_RUN_LIMIT
    Observations, \* the answers of the platform's observe
    Signals,     \* whether the platform's signal succeeds
    MaxTime      \* bound on the clock

\* What LinuxBestEffort::observe can answer: Empty only after the direct exit.
LinuxObservations ==
    {[ok |-> TRUE, direct |-> "Running", containment |-> "Occupied"],
     [ok |-> TRUE, direct |-> "Code", containment |-> "Occupied"],
     [ok |-> TRUE, direct |-> "Code", containment |-> "Empty"],
     [ok |-> FALSE, direct |-> "Unknown", containment |-> "Unknown"]}

ASSUME GuardianAssumption ==
    /\ Graces \subseteq Nat \cup {WaitForAll}
    /\ Epochs \subseteq Nat \ {0} /\ Epochs # {}
    /\ Instances # {}
    /\ RunLimit \in Nat
    /\ Observations \subseteq LinuxObservations
    /\ Signals \subseteq BOOLEAN
    /\ MaxTime \in 0..MaxInstant

VARIABLES
    session,     \* guardian_host_session
    journal,     \* guardian_run_scope and guardian_runs
    wedged,      \* the connection is not in autocommit mode
    kernel,      \* Runs.runtime: the state and the records of ScopeRuntime
    live,        \* Runs.live
    settled,     \* Runs.settled
    now,         \* the instant the next call reads
    spawns       \* how often each Run crossed Platform::spawn (a history variable)

vars == <<session, journal, wedged, kernel, live, settled, now, spawns>>

Hosts == [epoch : Epochs, instance : Instances]
Specs == [grace : Graces]
Rows == [spec : Specs, launch : Launches, direct : Directs, cleanup : Cleanups,
         stop_requested : BOOLEAN]

Guarantee == "BestEffort"
Writes == {"done", "lost", "failed"}
Transactions == Writes \cup {"wedged"}
Applied(write) == write \in {"done", "lost"}

Init ==
    /\ session \in Hosts
    /\ journal = [scope |-> "Open", rows |-> [r \in {} |-> [stop_requested |-> FALSE]]]
    /\ wedged = FALSE
    /\ kernel = [state |-> "Open", runs |-> [r \in {} |-> Registered([grace |-> WaitForAll])]]
    /\ live = {}
    /\ settled = FALSE
    /\ now = 0
    /\ spawns = [r \in Runs |-> 0]

-----------------------------------------------------------------------------
(* Runs::reconcile, as the effect it has on a journal j, a kernel k and    *)
(* the live Runs lv that the request before it left behind.                *)

\* How far reconcile gets before storage fails it: whether the scope state could
\* be read, the Runs whose stop intent was read, the Runs whose snapshot was
\* written (the code walks live in order; any subset is allowed here), and the
\* write of the scope state, which a failed count of the rows prevents too.
Reaches(lv) ==
    {[readable |-> FALSE, restored |-> {}, saved |-> {}, write |-> "failed"]}
    \cup [readable : {TRUE}, restored : (SUBSET lv) \ {lv}, saved : {{}}, write : {"failed"}]
    \cup [readable : {TRUE}, restored : {lv}, saved : (SUBSET lv) \ {lv}, write : {"failed"}]
    \cup [readable : {TRUE}, restored : {lv}, saved : {lv}, write : Writes]

\* Mutant: only the closing of the scope is restored, not the stop of one Run.
Restored_MOnlyClose(j, k, reach) ==
    LET closing == reach.readable /\ j.scope # "Open" /\ k.state \notin Evidences
    IN  [state |-> IF closing THEN "Closing" ELSE k.state,
         runs |-> [r \in DOMAIN k.runs |->
                     IF closing THEN Stopped(k.runs[r], ForceRequest, now) ELSE k.runs[r]]]

\* Mutant: the closing of the scope is not restored.
Restored_MOnlyStops(j, k, reach) ==
    [state |-> k.state,
     runs |-> [r \in DOMAIN k.runs |->
                 IF r \in reach.restored /\ j.rows[r].stop_requested
                 THEN Stopped(k.runs[r], ForceRequest, now) ELSE k.runs[r]]]

\* restore_stop_intents
Restored(j, k, reach) ==
    LET closing == reach.readable /\ j.scope # "Open" /\ k.state \notin Evidences
    IN  [state |-> IF closing THEN "Closing" ELSE k.state,
         runs |-> [r \in DOMAIN k.runs |->
                     IF closing \/ (r \in reach.restored /\ j.rows[r].stop_requested)
                     THEN Stopped(k.runs[r], ForceRequest, now)
                     ELSE k.runs[r]]]

\* ScopeRuntime::reconcile: it runs whether or not the intents were restored.
Advanced(k, obs, signalled) ==
    LET runs == [r \in DOMAIN k.runs |->
                   Reconciled(k.runs[r], obs[r], signalled[r], Guarantee, now)]
    IN  [state |-> ScopeAfter(k.state, runs, Guarantee), runs |-> runs]

\* The snapshots of the Runs in saved are written.
Saved(j, k, saved) ==
    [j EXCEPT !.rows = [r \in DOMAIN j.rows |->
        IF r \in saved
        THEN [j.rows[r] EXCEPT !.launch = k.runs[r].launch, !.direct = k.runs[r].direct,
                               !.cleanup = k.runs[r].cleanup]
        ELSE j.rows[r]]]

\* Mutant: rows without a live handle are not counted.
Sealing_MIgnoresLostRows(j, lv, reach) == reach.saved = lv /\ Applied(reach.write)

\* The scope state is written last, and only when every accepted row has a live
\* handle: an attempt without one prevents claiming completed cleanup.
Sealing(j, lv, reach) ==
    reach.saved = lv /\ Applied(reach.write) /\ Cardinality(DOMAIN j.rows) = Cardinality(lv)

\* Mutant: a storage failure returns before the kernel reconciles.
ReconcileFrom_MGivesUp(j, k, lv, reach, obs, signalled) ==
    IF settled \/ ~reach.readable THEN journal' = j /\ kernel' = k /\ UNCHANGED settled
    ELSE /\ kernel' = Advanced(Restored(j, k, reach), obs, signalled)
         /\ journal' = LET written == Saved(j, kernel', reach.saved) IN
                       IF Sealing(j, lv, reach)
                       THEN [written EXCEPT !.scope = kernel'.state] ELSE written
         /\ settled' = /\ Sealing(j, lv, reach)
                       /\ reach.write = "done"
                       /\ kernel'.state \in Evidences

ReconcileFrom(j, k, lv, reach, obs, signalled) ==
    IF settled THEN journal' = j /\ kernel' = k /\ UNCHANGED settled
    ELSE /\ kernel' = Advanced(Restored(j, k, reach), obs, signalled)
         /\ journal' = LET written == Saved(j, kernel', reach.saved) IN
                       IF Sealing(j, lv, reach)
                       THEN [written EXCEPT !.scope = kernel'.state] ELSE written
         /\ settled' = /\ Sealing(j, lv, reach)
                       /\ reach.write = "done"
                       /\ kernel'.state \in Evidences

\* Reconcile with any fault and any answers of the platform.
Reconciling(j, k, lv) ==
    \E reach \in Reaches(lv), obs \in [DOMAIN k.runs -> Observations],
       signalled \in [DOMAIN k.runs -> Signals] :
          ReconcileFrom(j, k, lv, reach, obs, signalled)

-----------------------------------------------------------------------------
(* Requests.  Every run request is fenced by the current host session.     *)

\* Bind: a later epoch takes over; an equal epoch is idempotent or conflicting.
Bind(host, write) ==
    /\ ~wedged
    /\ host.epoch > session.epoch
    /\ session' = IF Applied(write) THEN host ELSE session
    /\ wedged' = (write = "wedged")
    /\ UNCHANGED <<journal, kernel, live, settled, now, spawns>>

NewRow(spec) ==
    [spec |-> spec, launch |-> "Unknown", direct |-> "Unknown", cleanup |-> "Pending",
     stop_requested |-> FALSE]

Inserted(r, spec) ==
    [journal EXCEPT !.rows = [q \in DOMAIN journal.rows \cup {r} |->
                                IF q = r THEN NewRow(spec) ELSE journal.rows[q]]]

\* Start of a new RunId: the row is committed, then the kernel starts it.  After an
\* ambiguous commit the row exists without a live handle and is never started.
\* (runtime.start has no refusal to model: KernelFollowsJournal and OneSpawn.)
Start(host, r, spec, write) ==
    /\ ~wedged /\ host = session
    /\ r \notin DOMAIN journal.rows
    /\ journal.scope = "Open"
    /\ Cardinality(DOMAIN journal.rows) < RunLimit
    /\ IF write = "done"
       THEN /\ live' = live \cup {r}
            /\ spawns' = [spawns EXCEPT ![r] = @ + 1]
            /\ \E outcome \in {"Started", "NotStarted", "Unknown"} :
                 LET record == Spawned(Registered(spec), outcome, Guarantee)
                     k == [kernel EXCEPT !.runs = [q \in DOMAIN kernel.runs \cup {r} |->
                              IF q = r THEN record ELSE kernel.runs[q]]]
                 IN  Reconciling(Inserted(r, spec), k, live')
       ELSE /\ journal' = IF write = "lost" THEN Inserted(r, spec) ELSE journal
            /\ UNCHANGED <<kernel, live, settled, spawns>>
    /\ wedged' = (write = "wedged")
    /\ UNCHANGED <<session, now>>

\* Stop: the intent is committed, then reconciled.
Stop(host, r, write) ==
    /\ ~wedged /\ host = session
    /\ r \in DOMAIN journal.rows
    /\ LET j == [journal EXCEPT !.rows[r].stop_requested = TRUE] IN
       IF write = "done" THEN Reconciling(j, kernel, live)
       ELSE /\ journal' = IF write = "lost" THEN j ELSE journal
            /\ UNCHANGED <<kernel, settled>>
    /\ UNCHANGED <<session, wedged, live, now, spawns>>

\* Mutant: the kernel is sealed before the transaction.
Close_MKernelFirst(host, write) ==
    /\ ~wedged /\ host = session
    /\ journal.scope = "Open"
    /\ kernel' = [kernel EXCEPT !.state = "Closing"]
    /\ journal' = [journal EXCEPT !.scope = IF Applied(write) THEN "Closing" ELSE @]
    /\ wedged' = (write = "wedged")
    /\ UNCHANGED <<session, settled, live, now, spawns>>

\* Close of an open scope: one transaction seals admission and stops every row.
Close(host, write) ==
    /\ ~wedged /\ host = session
    /\ journal.scope = "Open"
    /\ LET j == [scope |-> "Closing",
                 rows |-> [r \in DOMAIN journal.rows |->
                             [journal.rows[r] EXCEPT !.stop_requested = TRUE]]] IN
       IF write = "done" THEN Reconciling(j, kernel, live)
       ELSE /\ journal' = IF write = "lost" THEN j ELSE journal
            /\ UNCHANGED <<kernel, settled>>
    /\ wedged' = (write = "wedged")
    /\ UNCHANGED <<session, live, now, spawns>>

\* The 50 ms timer.  A wedged connection reads nothing, yet the kernel advances.
Reconcile ==
    /\ \E reach \in Reaches(live), obs \in [DOMAIN kernel.runs -> Observations],
          signalled \in [DOMAIN kernel.runs -> Signals] :
             /\ wedged => ~reach.readable
             /\ ReconcileFrom(journal, kernel, live, reach, obs, signalled)
    /\ UNCHANGED <<session, wedged, live, now, spawns>>

Tick ==
    /\ now < MaxTime
    /\ now' = now + 1
    /\ UNCHANGED <<session, journal, wedged, kernel, live, settled, spawns>>

Next ==
    \/ \E host \in Hosts, write \in Transactions : Bind(host, write)
    \/ \E host \in Hosts, r \in Runs, spec \in Specs, write \in Transactions :
          Start(host, r, spec, write)
    \/ \E host \in Hosts, r \in Runs, write \in Writes : Stop(host, r, write)
    \/ \E host \in Hosts, write \in Transactions : Close(host, write)
    \/ Reconcile
    \/ Tick

Spec == Init /\ [][Next]_vars

-----------------------------------------------------------------------------
(* Safety.                                                                 *)

TypeOK ==
    /\ session \in Hosts
    /\ journal.scope \in ScopeStates
    /\ DOMAIN journal.rows \subseteq Runs
    /\ journal.rows \in [DOMAIN journal.rows -> Rows]
    /\ wedged \in BOOLEAN /\ settled \in BOOLEAN
    /\ kernel.state \in ScopeStates
    /\ live \subseteq Runs
    /\ kernel.runs \in [live -> RunRecords(Specs)]
    /\ now \in 0..MaxTime
    /\ spawns \in [Runs -> Nat]

\* A Run is executed at most once, and only after its acceptance is durable:
\* replays, ambiguous commits and host takeovers never execute it again, and a row
\* left without a live handle is never executed at all.
OneSpawn ==
    /\ live \subseteq DOMAIN journal.rows
    /\ \A r \in Runs : spawns[r] = IF r \in live THEN 1 ELSE 0

\* The kernel seals admission only after the journal has: a journal that still
\* says Open never faces a kernel that refuses the Run it has just accepted.
KernelFollowsJournal == kernel.state # "Open" => journal.scope # "Open"

\* The journal never says more than the kernel has confirmed.
JournalIsConfirmed ==
    \A r \in live : FactsAdvance(journal.rows[r], kernel.runs[r])

\* Closed in the journal means that every accepted row is complete and has been
\* followed by a live handle to its end; a lost row keeps the scope from closing.
ClosedJournalIsClean ==
    journal.scope \in Evidences =>
        /\ DOMAIN journal.rows = live
        /\ \A r \in live : journal.rows[r].cleanup = journal.scope

\* Sealing admission and stopping the accepted Runs is one fact: no crash, fault or
\* late Start leaves a row of a sealed scope without its stop intent.
SealedRowsAreStopping ==
    journal.scope # "Open" => \A r \in DOMAIN journal.rows : journal.rows[r].stop_requested

\* The shortcut of reconcile is taken only when there is nothing left to write.
SettledIsDurable == settled => journal.scope \in Evidences /\ kernel.state = journal.scope

\* What the journal confirmed is final, and no accepted Run is forgotten.
JournalFactsAreFinal ==
    [][\A r \in DOMAIN journal.rows :
          /\ r \in DOMAIN journal'.rows
          /\ FactsAdvance(journal.rows[r], journal'.rows[r])
          /\ journal.rows[r].stop_requested => journal'.rows[r].stop_requested]_vars

\* A sealed journal never reopens and accepts no Run, whatever storage fails.
AdmissionStaysSealed ==
    [][journal.scope # "Open" =>
          /\ journal'.scope # "Open"
          /\ DOMAIN journal'.rows = DOMAIN journal.rows]_vars

-----------------------------------------------------------------------------
(* The guardian implements the ledger its hosts rely on.                   *)

JournalFacts(row) == [launch |-> row.launch, direct |-> row.direct, cleanup |-> row.cleanup]

\* What a host sees of a session s, a journal j and a kernel k with live Runs lv.
LedgerOf(s, j, k, lv) ==
    [session |-> s.epoch,
     scope |-> j.scope,
     tracked |-> lv,
     executed |-> {r \in lv : k.runs[r].launch # "NotStarted"},
     facts |-> [r \in DOMAIN j.rows |-> JournalFacts(j.rows[r])],
     stops |-> {r \in DOMAIN j.rows : j.rows[r].stop_requested}]

Ledger == INSTANCE RunLedger WITH
    Facts <- [launch : Launches, direct : Directs, cleanup : Cleanups],
    ledger <- LedgerOf(session, journal, kernel, live)

\* Every guardian step, with any storage fault, is a step of the abstract ledger or
\* changes nothing a host can see.
ImplementsLedger == Ledger!Spec

-----------------------------------------------------------------------------
(* Liveness.  The timer fires every 50 ms; time passes; storage faults and *)
(* failed signals are transient unless the connection is wedged; a         *)
(* workload that has been sent SIGKILL is eventually observed as gone.     *)

HealthyReach == [readable |-> TRUE, restored |-> live, saved |-> live, write |-> "done"]

HealthyReconcile ==
    /\ ~wedged
    /\ \E obs \in [DOMAIN kernel.runs -> Observations] :
          /\ \A r \in DOMAIN kernel.runs :
                kernel.runs[r].stop.forced => obs[r].containment = "Empty"
          /\ ReconcileFrom(journal, kernel, live, HealthyReach, obs,
                           [r \in DOMAIN kernel.runs |-> TRUE])
    /\ UNCHANGED <<session, wedged, live, now, spawns>>

\* The timer with any storage fault, its signals delivered.
DeliveringReconcile ==
    /\ \E reach \in Reaches(live), obs \in [DOMAIN kernel.runs -> Observations] :
          /\ wedged => ~reach.readable
          /\ ReconcileFrom(journal, kernel, live, reach, obs,
                           [r \in DOMAIN kernel.runs |-> TRUE])
    /\ UNCHANGED <<session, wedged, live, now, spawns>>

FairSpec ==
    /\ Spec
    /\ WF_vars(Tick) /\ WF_vars(HealthyReconcile) /\ WF_vars(DeliveringReconcile)

\* A journal that fails for good never cancels a stop the kernel has accepted: the
\* Run is sent Force, or is clean before that.
StorageNeverCancelsStops ==
    \A r \in Runs :
        (r \in live /\ kernel.runs[r].stop.planned)
            ~> (r \in live /\ (Complete(kernel.runs[r]) \/ kernel.runs[r].stop.forced))

\* A durable stop intent is carried out without any caller: the Run it names is
\* eventually complete in the journal.
StopsComplete ==
    \A r \in Runs :
        (r \in live /\ journal.rows[r].stop_requested)
            ~> (wedged \/ (r \in live /\ Complete(journal.rows[r])))

\* A sealed scope whose rows all have live handles eventually closes.
CloseCompletes ==
    (journal.scope # "Open" /\ live = DOMAIN journal.rows)
        ~> (wedged \/ journal.scope \in Evidences)
=============================================================================
