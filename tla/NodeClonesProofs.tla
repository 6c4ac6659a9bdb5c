-------------------------- MODULE NodeClonesProofs --------------------------
(***************************************************************************)
(* The Node implements its ledger, and its journal of process Runs is true *)
(* of the host, for any number of executions, steps, restarts and faults.  *)
(*                                                                         *)
(* A crash may fall between any two transactions, so nothing in memory can *)
(* be relied on across one: what licenses a step must be readable from the *)
(* durable records.  NodeInv says that an execution which is past          *)
(* Reserved, or which the worker or the executor is busy with, was         *)
(* licensed when it got there, and a license is never withdrawn.           *)
(* JournalInv says that no row is cleaned before its Scope is closed,      *)
(* although the closing, the ending and the cleanup are separate steps.    *)
(***************************************************************************)
EXTENDS NodeClones, TLAPS

Recs == [mode : {"Absent", "Pending", "Unknown", "Completed"}, phase : Phases, n : Nat,
         result : Results \cup {None}]
Kinds == {"Fetch", "Backoff", "Dispatch", "Settle", "Inspect"}
Answers == {"none", "busy", "Ready", "Failed", "Unavailable", "Stopped", "Elapsed", "error",
            "unverified", "base", "other"} \cup Ended
Todos == {"continue", "evidence", "dispatch", "clean", "settle", "fail", "remove"}
Flights == [exec : Execs, kind : Kinds, seen : Answers]
Works == [exec : Execs, todo : Todos, with : Answers \cup Failures \cup {""}]

Open(e) == rec[e].mode \in {"Pending", "Unknown"}
Past(e) == rec[e].mode = "Unknown" \/ rec[e].phase # "Reserved"
Licensed(e) == e \in started \/ (permit[e] = None /\ (controlled => Past(e)))

MemoryTypeOK ==
    /\ controlled \in BOOLEAN /\ started \subseteq Execs /\ queue \subseteq Execs
    /\ permit \in [Execs -> {None} \cup Ledger!Permits]
    /\ rec \in [Execs -> Recs] /\ inc \in Ledger!Incarnations /\ inc \in Nat
    /\ flight \in {Idle} \cup Flights /\ work \in {Idle} \cup Works

\* The records: only a Completed one has a result, and one past Reserved was licensed.
RecordsInv ==
    \A e \in Execs :
        /\ rec[e].mode # "Completed" => rec[e].result = None
        /\ Open(e) /\ Past(e) => Licensed(e)
        /\ e \in queue => Open(e)

\* The executor is busy with an open, licensed execution that is not queued.
FlightInv ==
    flight # Idle =>
        /\ flight.exec \notin queue /\ Open(flight.exec) /\ Licensed(flight.exec)

\* So is the worker; only a refusal may end an execution that was never licensed.
WorkInv ==
    work # Idle =>
        /\ flight = Idle /\ work.exec \notin queue
        /\ work.todo # "remove" => Open(work.exec)
        /\ work.todo \notin {"fail", "remove"} => Licensed(work.exec)
        /\ work.todo = "fail" =>
              work.with \in Failures /\ (Licensed(work.exec) \/ work.with = "OperationFailed")

NodeInv == MemoryTypeOK /\ RecordsInv /\ FlightInv /\ WorkInv

-----------------------------------------------------------------------------
(* What a write of a record looks like in the ledger.                       *)

\* What is shown of a record.
StateOf(r) ==
    CASE r.mode = "Pending" /\ r.phase = "Reserved" -> "Accepted"
      [] r.mode = "Pending" /\ r.phase # "Reserved" -> "Running"
      [] OTHER -> r.mode

\* Shown, execution by execution: CloneProgress::state of each record.
LEMMA ShownOf == Shown = [e \in Execs |-> [state |-> StateOf(rec[e]), result |-> rec[e].result]]
  BY Zenon DEF Shown, State, StateOf

\* Writing one record changes what is shown of that execution only.
LEMMA ShownMoves ==
    ASSUME rec \in [Execs -> Recs], NEW e \in Execs, NEW r, rec' = [rec EXCEPT ![e] = r]
    PROVE  Shown' = [Shown EXCEPT ![e] = [state |-> StateOf(r), result |-> r.result]]
  <1>1. rec' = [d \in Execs |-> IF d = e THEN r ELSE rec[d]]
    BY Zenon
  <1>2. Shown' = [d \in Execs |-> [state |-> StateOf(rec'[d]), result |-> rec'[d].result]]
    BY Zenon DEF Shown, State, StateOf
  <1>3. Shown = [d \in Execs |-> [state |-> StateOf(rec[d]), result |-> rec[d].result]]
    BY Zenon, ShownOf
  <1> HIDE DEF StateOf, Shown
  <1> QED
    BY Zenon, <1>1, <1>2, <1>3

\* The states that count as open.
LEMMA OpenStates ==
    ASSUME rec \in [Execs -> Recs], NEW e \in Execs
    PROVE  /\ Shown[e].state = StateOf(rec[e]) /\ Shown[e].result = rec[e].result
           /\ Open(e) <=> Shown[e].state \in {"Accepted", "Running", "Unknown"}
           /\ rec[e].mode = "Completed" <=> Shown[e].state = "Completed"
           /\ rec[e].mode = "Absent" <=> Shown[e].state = "Absent"
  <1>1. Shown[e].state = StateOf(rec[e]) /\ Shown[e].result = rec[e].result
    BY Zenon, ShownOf
  <1>2. rec[e].mode \in {"Absent", "Pending", "Unknown", "Completed"} /\ rec[e].phase \in Phases
    BY Zenon DEF Recs
  <1> QED
    BY Zenon, <1>1, <1>2 DEF StateOf, Open

\* What the records license, the ledger does.
LEMMA LicenseShown ==
    ASSUME rec \in [Execs -> Recs], NEW e \in Execs, Open(e), Licensed(e)
    PROVE  Ledger!Licensed(e)
  <1>1. Shown[e].state = StateOf(rec[e])
    BY Zenon, OpenStates
  <1>2. Past(e) => StateOf(rec[e]) # "Accepted"
    BY Zenon DEF Past, StateOf, Open
  <1> QED
    BY Zenon, <1>1, <1>2 DEF Licensed, Ledger!Licensed, None, Ledger!None

\* advance_clone and unknown_clone are work of a licensed execution.
LEMMA WritesAreWork ==
    ASSUME NodeInv, NEW e \in Execs, Open(e), Licensed(e), NEW r \in Recs,
           r.mode = "Unknown" \/ (r.mode = "Pending" /\ r.phase # "Reserved"), r.result = None,
           rec' = [rec EXCEPT ![e] = r],
           UNCHANGED <<controlled, binding, permit, started, outbox, inc, stopping>>
    PROVE  Ledger!Work(e)
  <1>1. rec \in [Execs -> Recs] /\ rec[e].result = None
    BY Zenon DEF NodeInv, MemoryTypeOK, RecordsInv, Open
  <1>2. Shown' = [Shown EXCEPT ![e] = [state |-> StateOf(r), result |-> r.result]]
    BY Zenon, <1>1, ShownMoves
  <1>3. StateOf(r) \in {"Running", "Unknown"}
    BY Zenon DEF StateOf
  <1>4. Shown[e] = [state |-> StateOf(rec[e]), result |-> None]
    BY Zenon, <1>1, ShownOf
  <1>5. [Shown EXCEPT ![e] = [state |-> StateOf(r), result |-> r.result]]
        = [Shown EXCEPT ![e].state = StateOf(r)]
    <2>1. [Shown[e] EXCEPT !.state = StateOf(r)] = [state |-> StateOf(r), result |-> r.result]
      BY <1>4
    <2> QED
      BY Zenon, <2>1
  <1>6. Shown[e].state \in {"Accepted", "Running", "Unknown"}
    BY Zenon, <1>1, OpenStates
  <1>7. Ledger!Licensed(e)
    BY Zenon, <1>1, LicenseShown
  <1> QED
    BY Zenon, <1>2, <1>3, <1>5, <1>6, <1>7 DEF Ledger!Work

\* complete_clone ends an open execution; without a license only as refused.
LEMMA CompletionsAreComplete ==
    ASSUME NodeInv, NEW e \in Execs, Open(e), NEW r \in Results, Licensed(e) \/ r \in Refusals,
           CompleteClone(e, r),
           UNCHANGED <<controlled, binding, permit, started, inc, stopping>>
    PROVE  Ledger!Complete(e)
  <1>1. rec \in [Execs -> Recs]
    BY Zenon DEF NodeInv, MemoryTypeOK
  <1> DEFINE d == [rec[e] EXCEPT !.mode = "Completed", !.result = r]
  <1>2. rec' = [rec EXCEPT ![e] = d] /\ outbox' = outbox \cup {e}
    BY Zenon, <1>1 DEF CompleteClone
  <1>3. d.mode = "Completed" /\ d.result = r
    BY Zenon, <1>1 DEF Recs
  <1>4. Shown' = [Shown EXCEPT ![e] = [state |-> StateOf(d), result |-> d.result]]
    BY Zenon, <1>1, <1>2, ShownMoves
  <1>5. StateOf(d) = "Completed"
    BY Zenon, <1>3 DEF StateOf
  <1>6. Shown[e].state \in {"Accepted", "Running", "Unknown"}
    BY Zenon, <1>1, OpenStates
  <1>7. Ledger!Licensed(e) \/ r \in Refusals
    BY Zenon, <1>1, LicenseShown
  <1> HIDE DEF d
  <1> QED
    BY Zenon, <1>2, <1>3, <1>4, <1>5, <1>6, <1>7 DEF Ledger!Complete

\* No write, no change.
LEMMA ShownStays == rec' = rec => Shown' = Shown
  BY Zenon DEF Shown, State

-----------------------------------------------------------------------------
(* The invariant.                                                           *)

\* A handler of e writes nothing, or a record that stays open and past Reserved.
Writes(e) ==
    \/ rec' = rec
    \/ \E r \in Recs : /\ rec' = [rec EXCEPT ![e] = r] /\ r.result = None
                       /\ r.mode = "Unknown" \/ (r.mode = "Pending" /\ r.phase # "Reserved")

\* It ends, goes on with e, or hands a step of e to the executor.
Hands(e) ==
    \/ work' = Idle /\ flight' = Idle
    \/ /\ flight' = Idle
       /\ \E todo \in Todos, with \in Answers \cup Failures \cup {""} :
             /\ work' = Do(e, todo, with)
             /\ todo = "fail" => with \in Failures
    \/ work' = Idle /\ \E kind \in Kinds : flight' = Submitted(e, kind)

\* A license outlives every write of its execution.
LEMMA LicenseStays ==
    ASSUME NodeInv, NEW e \in Execs, Licensed(e), Writes(e), UNCHANGED <<controlled, permit, started>>
    PROVE  Licensed(e)'
  <1>1. rec \in [Execs -> Recs]
    BY Zenon DEF NodeInv, MemoryTypeOK
  <1>2. Past(e) => Past(e)'
    BY Zenon, <1>1 DEF Writes, Past
  <1> QED
    BY Zenon, <1>2 DEF Licensed

\* An open execution that is licensed stays within the invariant.
LEMMA HandlersKeepInv ==
    ASSUME NodeInv, NEW e \in Execs, Open(e), Licensed(e)', Writes(e), Hands(e),
           started \subseteq started', started' \subseteq Execs,
           UNCHANGED <<controlled, permit, inc>>,
           queue' \subseteq queue, e \notin queue'
    PROVE  NodeInv'
  <1>a. MemoryTypeOK /\ RecordsInv
    BY Zenon DEF NodeInv
  <1>b. \A d \in Execs : rec'[d] = rec[d] /\ Licensed(d) => Licensed(d)'
    BY Zenon DEF Licensed, Past
  <1>1. /\ rec' \in [Execs -> Recs] /\ Open(e)'
        /\ rec'[e].result = None
        /\ \A d \in Execs : d # e => rec'[d] = rec[d]
    <2>1. CASE rec' = rec
      BY Zenon, <1>a, <2>1 DEF MemoryTypeOK, RecordsInv, Open
    <2>2. ASSUME NEW r \in Recs, rec' = [rec EXCEPT ![e] = r], r.result = None,
                 r.mode = "Unknown" \/ (r.mode = "Pending" /\ r.phase # "Reserved")
          PROVE  /\ rec' \in [Execs -> Recs] /\ Open(e)'
                 /\ rec'[e].result = None
                 /\ \A d \in Execs : d # e => rec'[d] = rec[d]
      BY Zenon, <1>a, <2>2 DEF MemoryTypeOK, Open
    <2> QED
      BY Zenon, <2>1, <2>2 DEF Writes
  <1>2. RecordsInv'
    <2> SUFFICES ASSUME NEW d \in Execs
                 PROVE  /\ rec'[d].mode # "Completed" => rec'[d].result = None
                        /\ Open(d)' /\ Past(d)' => Licensed(d)'
                        /\ d \in queue' => Open(d)'
      BY Zenon DEF RecordsInv
    <2>1. CASE d = e
      BY Zenon, <1>1, <2>1
    <2>2. CASE d # e
      BY Zenon, <1>a, <1>b, <1>1, <2>2 DEF RecordsInv, Open, Past
    <2> QED
      BY Zenon, <2>1, <2>2
  <1> DEFINE Keeps == /\ flight' \in {Idle} \cup Flights /\ work' \in {Idle} \cup Works
                      /\ FlightInv' /\ WorkInv'
  <1>3. ASSUME work' = Idle, flight' = Idle PROVE Keeps
    BY Zenon, <1>3 DEF FlightInv, WorkInv
  <1>4. ASSUME NEW todo \in Todos, NEW with \in Answers \cup Failures \cup {""}, flight' = Idle,
               work' = Do(e, todo, with), todo = "fail" => with \in Failures
        PROVE  Keeps
    <2>1. work' \in Works
      BY Zenon, <1>4 DEF Works, Do
    <2>2. work'.exec = e /\ work'.todo = todo /\ work'.with = with
      BY Zenon, <1>4 DEF Do
    <2>3. FlightInv'
      BY Zenon, <1>4 DEF FlightInv
    <2>4. WorkInv'
      BY Zenon, <1>1, <1>4, <2>2 DEF WorkInv, Open, Licensed, Past
    <2> QED
      BY Zenon, <1>4, <2>1, <2>3, <2>4
  <1>5. ASSUME NEW kind \in Kinds, work' = Idle, flight' = Submitted(e, kind)
        PROVE  Keeps
    <2>1. flight' \in Flights
      BY Zenon, <1>5 DEF Flights, Submitted, Answers
    <2>2. flight'.exec = e
      BY Zenon, <1>5 DEF Submitted
    <2>3. FlightInv'
      BY Zenon, <1>1, <2>2 DEF FlightInv, Open, Licensed, Past
    <2>4. WorkInv'
      BY Zenon, <1>5 DEF WorkInv
    <2> QED
      BY Zenon, <1>5, <2>1, <2>3, <2>4
  <1>6. Keeps
    BY Zenon, <1>3, <1>4, <1>5 DEF Hands
  <1>7. MemoryTypeOK'
    BY Zenon, <1>a, <1>1, <1>6 DEF MemoryTypeOK
  <1> QED
    BY Zenon, <1>2, <1>6, <1>7 DEF NodeInv

\* Seen from the session such a step is work, or nothing.
LEMMA HandlersWork ==
    ASSUME NodeInv, NEW e \in Execs, Open(e), Licensed(e), Writes(e),
           UNCHANGED <<controlled, binding, permit, started, outbox, inc, stopping>>
    PROVE  [Ledger!Next]_(Ledger!ledgerVars)
  <1>1. CASE rec' = rec
    BY Zenon, <1>1, ShownStays DEF Ledger!ledgerVars
  <1>2. CASE rec' # rec
    <2>1. Ledger!Work(e)
      BY Zenon, <1>2, WritesAreWork DEF Writes
    <2> QED
      BY Zenon, <2>1 DEF Ledger!Next
  <1> QED
    BY Zenon, <1>1, <1>2

KeepsLedger == [Ledger!Next]_(Ledger!ledgerVars)

\* advance_clone and unknown_clone are such writes.
LEMMA WritesOf ==
    ASSUME NodeInv, NEW e \in Execs, Open(e)
    PROVE  /\ \A phase \in Phases \ {"Reserved"}, n \in Nat :
                 Advance(e, phase, n) => Writes(e) /\ outbox' = outbox
           /\ BecomesUnknown(e) => Writes(e) /\ outbox' = outbox
  <1>1. rec \in [Execs -> Recs] /\ rec[e].result = None
    BY Zenon DEF NodeInv, MemoryTypeOK, RecordsInv, Open
  <1>2. ASSUME NEW phase \in Phases \ {"Reserved"}, NEW n \in Nat, Advance(e, phase, n)
        PROVE  Writes(e) /\ outbox' = outbox
    <2>1. Pending(phase, n) \in Recs
      BY Zenon DEF Recs, Pending
    <2> QED
      BY Zenon, <1>2, <2>1 DEF Advance, Writes, Pending
  <1>3. ASSUME BecomesUnknown(e) PROVE Writes(e) /\ outbox' = outbox
    <2> DEFINE r == [rec[e] EXCEPT !.mode = "Unknown"]
    <2>1. r \in Recs /\ r.mode = "Unknown" /\ r.result = None
      BY Zenon, <1>1 DEF Recs
    <2>2. rec' = [rec EXCEPT ![e] = r] /\ outbox' = outbox
      BY Zenon, <1>1, <1>3 DEF BecomesUnknown
    <2>3. PICK q \in Recs : q = r
      BY Zenon, <2>1
    <2>4. q.mode = "Unknown" /\ q.result = None /\ rec' = [rec EXCEPT ![e] = q]
      BY Zenon, <2>1, <2>2, <2>3
    <2>5. Writes(e)
      BY Zenon, <2>4 DEF Writes
    <2> QED
      BY Zenon, <2>2, <2>5
  <1> QED
    BY Zenon, <1>2, <1>3

\* The ways a handler ends.
LEMMA HandsOf ==
    ASSUME NEW e \in Execs, flight = Idle
    PROVE  /\ Rests => Hands(e)
           /\ \A todo \in Todos \ {"fail"}, with \in Answers \cup Failures \cup {""} :
                 Goes(e, todo, with) => Hands(e)
           /\ \A kind \in Kinds : Submits(e, kind) => Hands(e)
           /\ \A kind \in Failures : Fails(e, kind) => Hands(e)
  <1>1. Rests => Hands(e)
    BY Zenon DEF Rests, Hands
  <1>2. ASSUME NEW todo \in Todos \ {"fail"}, NEW with \in Answers \cup Failures \cup {""},
               Goes(e, todo, with)
        PROVE  Hands(e)
    BY Zenon, <1>2 DEF Goes, Hands
  <1>3. ASSUME NEW kind \in Kinds, Submits(e, kind) PROVE Hands(e)
    BY Zenon, <1>3 DEF Submits, Hands
  <1>4. ASSUME NEW kind \in Failures, Fails(e, kind) PROVE Hands(e)
    <2>1. "fail" \in Todos
      BY Zenon DEF Todos
    <2> QED
      BY Zenon, <1>4, <2>1 DEF Fails, Goes, Hands
  <1> QED
    BY Zenon, <1>1, <1>2, <1>3, <1>4

\* The worker's transactions between taking an execution and its end: drive.rs.
LEMMA WorkerSteps ==
    ASSUME NodeInv,
           \/ MakeDirectory \/ RecordDirectory \/ ContinueClone \/ DispatchStep
           \/ RecordCleanup \/ SettleClone
    PROVE  NodeInv' /\ KeepsLedger
  <1> DEFINE e == work.exec
  <1>1. work # Idle /\ work.todo \in {"continue", "evidence", "dispatch", "clean", "settle"}
    BY Zenon DEF MakeDirectory, RecordDirectory, ContinueClone, DispatchStep, RecordCleanup, SettleClone,
           Working
  <1>2. work \in Works /\ flight = Idle /\ e \in Execs /\ e \notin queue /\ Open(e) /\ Licensed(e)
    BY Zenon, <1>1 DEF NodeInv, MemoryTypeOK, WorkInv, Works
  <1>3. rec[e].n \in Nat /\ rec[e].n + 1 \in Nat
    BY <1>2 DEF NodeInv, MemoryTypeOK, Recs
  <1>4. UNCHANGED <<controlled, binding, permit, started, inc, stopping, queue>>
    BY Zenon DEF MakeDirectory, RecordDirectory, ContinueClone, DispatchStep, RecordCleanup, SettleClone,
           control
  <1>5. /\ \A phase \in Phases \ {"Reserved"}, n \in Nat :
              Advance(e, phase, n) => Writes(e) /\ outbox' = outbox
        /\ BecomesUnknown(e) => Writes(e) /\ outbox' = outbox
        /\ UNCHANGED progress => Writes(e) /\ outbox' = outbox
    BY Zenon, <1>2, WritesOf DEF Writes, progress
  <1>6. /\ Rests => Hands(e)
        /\ \A todo \in Todos \ {"fail"}, with \in Answers \cup Failures \cup {""} :
              Goes(e, todo, with) => Hands(e)
        /\ \A kind \in Kinds : Submits(e, kind) => Hands(e)
        /\ \A kind \in Failures : Fails(e, kind) => Hands(e)
    BY Zenon, <1>2, HandsOf
  <1>7. Writes(e) /\ outbox' = outbox /\ Hands(e)
    <2> HIDE DEF e
    <2> USE DEF Uncertain, Phases, Todos, Kinds, Failures, Answers
    <2>1. CASE MakeDirectory
      BY Zenon, <1>5, <1>6, <2>1 DEF MakeDirectory, e
    <2>2. CASE RecordDirectory
      BY Zenon, <1>5, <1>6, <2>2 DEF RecordDirectory, e
    <2>3. CASE ContinueClone
      BY Zenon, <1>3, <1>5, <1>6, <2>3 DEF ContinueClone, CountFetch, e
    <2>4. CASE DispatchStep
      BY Zenon, <1>5, <1>6, <2>4 DEF DispatchStep, e
    <2>5. CASE SettleClone
      BY Zenon, <1>3, <1>5, <1>6, <2>5 DEF SettleClone, e
    <2>6. CASE RecordCleanup
      <3>1. work.with \in Answers \cup Failures \cup {""}
        BY Zenon, <1>2 DEF Works
      <3> QED
        BY Zenon, <1>5, <1>6, <2>6, <3>1 DEF RecordCleanup, e
    <2> QED
      BY Zenon, <2>1, <2>2, <2>3, <2>4, <2>5, <2>6
  <1>8. PICK d \in Execs : d = e
    BY Zenon, <1>2
  <1>9. Open(d) /\ Licensed(d) /\ d \notin queue /\ Writes(d) /\ Hands(d)
    BY Zenon, <1>2, <1>7, <1>8
  <1>10. Licensed(d)' /\ started' = started /\ started \subseteq Execs
    BY Zenon, <1>4, <1>9, LicenseStays DEF NodeInv, MemoryTypeOK
  <1>11. NodeInv'
    BY Zenon, <1>4, <1>9, <1>10, HandlersKeepInv
  <1>12. KeepsLedger
    BY Zenon, <1>4, <1>7, <1>9, HandlersWork DEF KeepsLedger
  <1> QED
    BY Zenon, <1>11, <1>12

\* The worker takes an answer of the executor: resume_clone, persist_settlement.
LEMMA AnswersTaken ==
    ASSUME NodeInv,
           \/ ResumeFetch \/ ResumeBackoff \/ RecordEnding
    PROVE  NodeInv' /\ KeepsLedger
  <1> DEFINE e == flight.exec
  <1>1. work = Idle /\ flight # Idle
    BY Zenon DEF ResumeFetch, ResumeBackoff, RecordEnding, Seen
  <1>2. flight \in Flights /\ e \in Execs /\ e \notin queue /\ Open(e) /\ Licensed(e)
    BY Zenon, <1>1 DEF NodeInv, MemoryTypeOK, FlightInv, Flights
  <1>3. UNCHANGED <<controlled, binding, permit, started, inc, stopping, queue>>
    BY Zenon DEF ResumeFetch, ResumeBackoff, RecordEnding, control
  <1>4. /\ \A phase \in Phases \ {"Reserved"}, n \in Nat :
              Advance(e, phase, n) => Writes(e) /\ outbox' = outbox
        /\ BecomesUnknown(e) => Writes(e) /\ outbox' = outbox
        /\ UNCHANGED progress => Writes(e) /\ outbox' = outbox
    BY Zenon, <1>2, WritesOf DEF Writes, progress
  <1>5. flight.seen \in Answers
    BY Zenon, <1>2 DEF Flights
  <1>6. /\ \A todo \in Todos \ {"fail"}, with \in Answers \cup Failures \cup {""} :
              flight' = Idle /\ work' = Do(e, todo, with) => Hands(e)
        /\ \A kind \in Failures : flight' = Idle /\ work' = Do(e, "fail", kind) => Hands(e)
        /\ \A kind \in Kinds : flight' = Submitted(e, kind) /\ work' = work => Hands(e)
        /\ flight' = Idle /\ work' = work => Hands(e)
    <2>1. "fail" \in Todos
      BY Zenon DEF Todos
    <2> QED
      BY Zenon, <1>1, <2>1 DEF Hands
  <1>7. Writes(e) /\ outbox' = outbox /\ Hands(e)
    <2> HIDE DEF e
    <2> USE DEF Phases, Todos, Kinds, Failures
    <2>1. CASE ResumeFetch
      BY Zenon, <1>4, <1>6, <2>1 DEF ResumeFetch, e
    <2>2. CASE ResumeBackoff
      BY Zenon, <1>4, <1>6, <2>2 DEF ResumeBackoff, e
    <2>3. CASE RecordEnding
      BY Zenon, <1>4, <1>5, <1>6, <2>3 DEF RecordEnding, e
    <2> QED
      BY Zenon, <2>1, <2>2, <2>3
  <1>8. PICK d \in Execs : d = e
    BY Zenon, <1>2
  <1>9. Open(d) /\ Licensed(d) /\ d \notin queue /\ Writes(d) /\ Hands(d)
    BY Zenon, <1>2, <1>7, <1>8
  <1>10. Licensed(d)' /\ started' = started /\ started \subseteq Execs
    BY Zenon, <1>3, <1>9, LicenseStays DEF NodeInv, MemoryTypeOK
  <1>11. NodeInv'
    BY Zenon, <1>3, <1>9, <1>10, HandlersKeepInv
  <1>12. KeepsLedger
    BY Zenon, <1>3, <1>7, <1>9, HandlersWork DEF KeepsLedger
  <1> QED
    BY Zenon, <1>11, <1>12

\* A completed execution leaves the worker, except for its transport repository.
LEMMA CompletionsKeepInv ==
    ASSUME NodeInv, NEW e \in Execs, Open(e), NEW r \in Results, CompleteClone(e, r),
           UNCHANGED <<controlled, permit, started, inc>>, queue' \subseteq queue, e \notin queue',
           flight' = Idle, work' = Idle \/ work' = Do(e, "remove", "")
    PROVE  NodeInv'
  <1>a. MemoryTypeOK /\ RecordsInv
    BY Zenon DEF NodeInv
  <1>1. /\ rec' \in [Execs -> Recs] /\ rec'[e].mode = "Completed"
        /\ \A d \in Execs : d # e => rec'[d] = rec[d]
    BY Zenon, <1>a DEF MemoryTypeOK, CompleteClone, Recs
  <1>2. RecordsInv'
    <2> SUFFICES ASSUME NEW d \in Execs
                 PROVE  /\ rec'[d].mode # "Completed" => rec'[d].result = None
                        /\ Open(d)' /\ Past(d)' => Licensed(d)'
                        /\ d \in queue' => Open(d)'
      BY Zenon DEF RecordsInv
    <2>1. CASE d = e
      BY Zenon, <1>1, <2>1 DEF Open
    <2>2. CASE d # e
      BY Zenon, <1>a, <1>1, <2>2 DEF RecordsInv, Open, Licensed, Past
    <2> QED
      BY Zenon, <2>1, <2>2
  <1>3. work' \in {Idle} \cup Works
    <2>1. Do(e, "remove", "") \in Works
      BY Zenon DEF Works, Do, Todos
    <2> QED
      BY Zenon, <2>1
  <1>4. MemoryTypeOK'
    BY Zenon, <1>a, <1>1, <1>3 DEF MemoryTypeOK
  <1>5. FlightInv'
    BY Zenon DEF FlightInv
  <1>6. WorkInv'
    <2>1. Do(e, "remove", "").todo = "remove" /\ Do(e, "remove", "").exec = e
      BY Zenon DEF Do
    <2> QED
      BY Zenon, <2>1 DEF WorkInv
  <1> QED
    BY Zenon, <1>2, <1>4, <1>5, <1>6 DEF NodeInv

\* A result the Node makes is one of Results, and a refusal one of Refusals.
LEMMA ResultsMade ==
    ASSUME NodeInv, NEW e \in Execs, NEW kind \in Failures \cup {"Ready"}
    PROVE  Result(e, kind) \in Results /\ (kind = "OperationFailed" => Result(e, kind) \in Refusals)
  BY Zenon DEF NodeInv, MemoryTypeOK, Result, Results, Refusals, Ledger!Incarnations

\* The ends of an execution: fail_clone, finish_clone and the refusal of begin_clone.
LEMMA Endings ==
    ASSUME NodeInv, FailClone \/ FinishClone \/ \E e \in Execs : RefuseReserved(e)
    PROVE  NodeInv' /\ KeepsLedger
  <1>1. CASE FailClone
    <2>1. work # Idle /\ work.todo = "fail" /\ Working("fail")
      BY Zenon, <1>1 DEF FailClone, Working
    <2>2. PICK e \in Execs : e = work.exec
      BY Zenon, <2>1 DEF NodeInv, MemoryTypeOK, Works
    <2>3. /\ flight = Idle /\ e \notin queue /\ Open(e) /\ work.with \in Failures
          /\ Licensed(e) \/ work.with = "OperationFailed"
      BY Zenon, <2>1, <2>2 DEF NodeInv, WorkInv
    <2>4. PICK r \in Results : CompleteClone(e, r) /\ (Licensed(e) \/ r \in Refusals)
      BY Zenon, <1>1, <2>2, <2>3, ResultsMade DEF FailClone
    <2>5. UNCHANGED <<controlled, binding, permit, started, inc, stopping, queue>>
          /\ work' = Idle /\ flight' = Idle
      BY Zenon, <1>1, <2>3 DEF FailClone, Rests, control
    <2>6. NodeInv'
      BY Zenon, <2>3, <2>4, <2>5, CompletionsKeepInv
    <2>7. Ledger!Complete(e)
      BY Zenon, <2>3, <2>4, <2>5, CompletionsAreComplete
    <2> QED
      BY Zenon, <2>6, <2>7 DEF KeepsLedger, Ledger!Next
  <1>2. CASE FinishClone
    <2>1. flight # Idle /\ work = Idle
      BY Zenon, <1>2 DEF FinishClone, Seen
    <2>2. PICK e \in Execs : e = flight.exec
      BY Zenon, <2>1 DEF NodeInv, MemoryTypeOK, Flights
    <2>3. e \notin queue /\ Open(e) /\ Licensed(e)
      BY Zenon, <2>1, <2>2 DEF NodeInv, FlightInv
    <2>4. UNCHANGED <<controlled, binding, permit, started, inc, stopping, queue>>
          /\ work' = Do(e, "remove", "") /\ flight' = Idle
      BY Zenon, <1>2, <2>2 DEF FinishClone, control
    <2>5. CASE CompleteClone(e, Result(e, "Ready"))
      <3>1. PICK r \in Results : CompleteClone(e, r)
        BY Zenon, <2>5, ResultsMade
      <3>2. NodeInv'
        BY Zenon, <2>3, <2>4, <3>1, CompletionsKeepInv
      <3>3. Ledger!Complete(e)
        BY Zenon, <2>3, <2>4, <3>1, CompletionsAreComplete
      <3> QED
        BY Zenon, <3>2, <3>3 DEF KeepsLedger, Ledger!Next
    <2>6. CASE BecomesUnknown(e)
      <3>1. Writes(e) /\ outbox' = outbox
        BY Zenon, <2>3, <2>6, WritesOf
      <3>2. Hands(e)
        BY Zenon, <2>4 DEF Hands, Todos
      <3>3. Licensed(e)' /\ started' = started /\ started \subseteq Execs
        BY Zenon, <2>3, <2>4, <3>1, LicenseStays DEF NodeInv, MemoryTypeOK
      <3>4. NodeInv'
        BY Zenon, <2>3, <2>4, <3>1, <3>2, <3>3, HandlersKeepInv
      <3>5. KeepsLedger
        BY Zenon, <2>3, <2>4, <3>1, HandlersWork DEF KeepsLedger
      <3> QED
        BY Zenon, <3>4, <3>5
    <2> QED
      BY Zenon, <1>2, <2>2, <2>5, <2>6 DEF FinishClone
  <1>3. ASSUME NEW e \in Execs, RefuseReserved(e) PROVE NodeInv' /\ KeepsLedger
    <2>1. flight = Idle /\ e \in queue /\ queue' = queue \ {e} /\ Open(e)
      BY Zenon, <1>3 DEF RefuseReserved, Takes, Open
    <2>2. PICK r \in Results : CompleteClone(e, r) /\ r \in Refusals
      BY Zenon, <1>3, ResultsMade DEF RefuseReserved, Failures
    <2>3. UNCHANGED <<controlled, binding, permit, started, inc, stopping>>
          /\ work' = Idle /\ flight' = Idle
      BY Zenon, <1>3, <2>1 DEF RefuseReserved, Takes, Rests, control
    <2>4. NodeInv'
      BY Zenon, <2>1, <2>2, <2>3, CompletionsKeepInv
    <2>5. Ledger!Complete(e)
      BY Zenon, <2>1, <2>2, <2>3, CompletionsAreComplete
    <2> QED
      BY Zenon, <2>4, <2>5 DEF KeepsLedger, Ledger!Next
  <1> QED
    BY Zenon, <1>1, <1>2, <1>3

\* begin_clone takes an execution from the queue: allowed, it is licensed from here
\* on; refused, it may only fail; with a Run of its own, it is licensed already.
LEMMA Beginnings ==
    ASSUME NodeInv, NEW e \in Execs, RefuseStarted(e) \/ BeginClone(e)
    PROVE  NodeInv' /\ KeepsLedger
  <1>1. /\ work = Idle /\ flight = Idle /\ e \in queue /\ queue' = queue \ {e}
        /\ UNCHANGED <<controlled, binding, permit, rec, outbox, inc, stopping>>
    BY Zenon DEF RefuseStarted, BeginClone, Takes, control, progress
  <1>2. Open(e) /\ rec[e].result = None
    BY Zenon, <1>1 DEF NodeInv, RecordsInv, Open
  <1>3. Shown' = Shown
    BY Zenon, <1>1, ShownStays
  <1>4. CASE RefuseStarted(e)
    <2>1. started' = started
      BY Zenon, <1>4 DEF RefuseStarted
    <2>2. KeepsLedger
      BY Zenon, <1>1, <1>3, <2>1 DEF KeepsLedger, Ledger!ledgerVars
    <2>3. /\ flight' = Idle
          /\ work' = Idle \/ work' = Do(e, "fail", "OperationFailed")
      BY Zenon, <1>1, <1>4 DEF RefuseStarted, Fails, Goes, Rests
    <2>4. RecordsInv' /\ FlightInv'
      BY Zenon, <1>1, <2>1, <2>3 DEF NodeInv, RecordsInv, FlightInv, Open, Licensed, Past
    <2>5. WorkInv'
      BY <1>1, <1>2, <2>3 DEF WorkInv, Do, Open, Failures
    <2>6. work' \in {Idle} \cup Works
      <3>1. "OperationFailed" \in Failures /\ "fail" \in Todos
        BY Zenon DEF Failures, Todos
      <3>2. Do(e, "fail", "OperationFailed") \in Works
        BY Zenon, <3>1 DEF Works, Do
      <3> QED
        BY Zenon, <2>3, <3>2
    <2> QED
      BY Zenon, <1>1, <2>1, <2>2, <2>3, <2>4, <2>5, <2>6 DEF NodeInv, MemoryTypeOK
  <1>5. CASE BeginClone(e)
    <2>1. PICK allowed \in Ledger!MayStart(e) :
             /\ Starts(e, allowed)
             /\ \/ rec[e].phase # "Dispatched" /\ allowed /\ Goes(e, "continue", "")
                \/ rec[e].phase = "Dispatched" /\ allowed /\ Goes(e, "continue", "")
                \/ rec[e].phase = "Dispatched" /\ Rests
                \/ rec[e].phase = "Dispatched" /\ Submits(e, "Settle")
      BY Zenon, <1>5 DEF BeginClone
    <2>2. allowed \in BOOLEAN
      BY Zenon, <2>1 DEF Ledger!MayStart, NodeInv, MemoryTypeOK
    <2>3. started' = started \/ (started' = started \cup {e} /\ allowed /\ permit[e] # None)
      BY Zenon, <2>1 DEF Starts
    <2>4. allowed => Licensed(e)'
      <3>1. CASE permit[e] = None
        <4>1. ~controlled <=> allowed
          BY Zenon, <2>1, <2>2, <3>1 DEF Ledger!MayStart, Ledger!None, None
        <4> QED
          BY Zenon, <1>1, <3>1, <4>1 DEF Licensed
      <3>2. CASE permit[e] # None
        BY Zenon, <2>1, <3>2 DEF Starts, Licensed
      <3> QED
        BY Zenon, <3>1, <3>2
    <2>5. rec[e].phase = "Dispatched" => Licensed(e)'
      BY Zenon, <1>1, <1>2, <2>3 DEF NodeInv, RecordsInv, Licensed, Past
    <2>6. Licensed(e)'
      BY Zenon, <2>1, <2>4, <2>5
    <2>7. Hands(e)
      BY Zenon, <1>1, <2>1, HandsOf DEF Todos, Kinds
    <2>8. Writes(e) /\ started \subseteq started' /\ started' \subseteq Execs
      BY Zenon, <1>1, <2>3 DEF Writes, NodeInv, MemoryTypeOK
    <2>9. NodeInv'
      BY Zenon, <1>1, <1>2, <2>6, <2>7, <2>8, HandlersKeepInv
    <2>10. KeepsLedger
      <3>1. CASE started' = started
        BY Zenon, <1>1, <1>3, <3>1 DEF KeepsLedger, Ledger!ledgerVars
      <3>2. CASE started' = started \cup {e} /\ allowed /\ permit[e] # None
        <4>1. Shown[e].state \notin {"Absent", "Completed"}
          BY Zenon, <1>2, OpenStates DEF NodeInv, MemoryTypeOK
        <4>2. TRUE \in Ledger!MayStart(e)
          BY Zenon, <2>1, <2>2, <3>2
        <4>3. Ledger!Start(e)
          BY Zenon, <1>1, <1>3, <3>2, <4>1, <4>2 DEF Ledger!Start, Ledger!None, None
        <4> QED
          BY Zenon, <4>3 DEF KeepsLedger, Ledger!Next
      <3> QED
        BY Zenon, <2>3, <3>1, <3>2
    <2> QED
      BY Zenon, <2>9, <2>10
  <1> QED
    BY Zenon, <1>4, <1>5

\* What the executor, the host and the file system do changes no record of the Node.
LEMMA OutsideSteps ==
    ASSUME NodeInv,
           \/ Executing \/ RemoveTransport \/ RecoveryPass
           \/ \E e \in Execs : HostStarts(e) \/ RunEnds(e) \/ Disturb(e)
    PROVE  NodeInv' /\ KeepsLedger
  <1> USE DEF control, progress, journal, files
  <1>1. UNCHANGED <<controlled, binding, permit, started, rec, outbox, inc, stopping>>
    BY Zenon DEF Executing, BeginFetch, EndFetch, EndBackoff, SendStart, SettleRun, InspectClone, Observes,
           RemoveTransport, RecoveryPass, HostStarts, RunEnds, Disturb
  <1>2. KeepsLedger
    BY Zenon, <1>1, ShownStays DEF KeepsLedger, Ledger!ledgerVars
  <1>3. MemoryTypeOK /\ RecordsInv /\ FlightInv /\ WorkInv
    BY Zenon DEF NodeInv
  <1>4. CASE RemoveTransport
    <2>1. work' = Idle /\ UNCHANGED <<flight, queue>>
      BY Zenon, <1>4 DEF RemoveTransport, Rests
    <2> QED
      BY Zenon, <1>1, <1>2, <1>3, <2>1
      DEF NodeInv, MemoryTypeOK, RecordsInv, FlightInv, WorkInv, Open, Licensed, Past
  <1>5. CASE RecoveryPass
    <2>1. /\ work = Idle /\ flight = Idle /\ UNCHANGED <<flight, work>>
          /\ queue' = {e \in Execs : Open(e)}
      BY Zenon, <1>5 DEF RecoveryPass, Open
    <2>2. queue' \subseteq Execs /\ \A e \in queue' : Open(e)
      BY Zenon, <2>1
    <2>3. RecordsInv'
      BY Zenon, <1>1, <1>3, <2>2 DEF RecordsInv, Open, Licensed, Past
    <2> QED
      BY Zenon, <1>1, <1>2, <1>3, <2>1, <2>2, <2>3 DEF NodeInv, MemoryTypeOK, FlightInv, WorkInv
  <1>6. ASSUME UNCHANGED <<flight, work, queue>> PROVE NodeInv'
    BY Zenon, <1>1, <1>3, <1>6
    DEF NodeInv, MemoryTypeOK, RecordsInv, FlightInv, WorkInv, Open, Licensed, Past
  <1>7. ASSUME NEW seen \in Answers, flight # Idle, Observes(seen) PROVE NodeInv'
    <2>1. flight' = [flight EXCEPT !.seen = seen] /\ UNCHANGED <<work, queue>>
      BY Zenon, <1>7 DEF Observes
    <2>2. flight \in Flights /\ work = Idle
      BY Zenon, <1>3, <1>7 DEF MemoryTypeOK, WorkInv
    <2>3. flight' \in Flights /\ flight'.exec = flight.exec
      BY Zenon, <2>1, <2>2 DEF Flights
    <2>4. FlightInv' /\ WorkInv'
      BY <1>1, <1>3, <1>7, <2>1, <2>2, <2>3 DEF FlightInv, WorkInv, Open, Licensed, Past
    <2> QED
      BY Zenon, <1>1, <1>3, <2>1, <2>3, <2>4 DEF NodeInv, MemoryTypeOK, RecordsInv, Open, Licensed, Past
  <1>8. CASE Executing
    <2>1. CASE SendStart
      BY Zenon, <1>6, <2>1, <1>2 DEF SendStart
    <2>2. CASE BeginFetch \/ EndFetch \/ EndBackoff \/ SettleRun \/ InspectClone
      <3>1. PICK seen \in Answers : flight # Idle /\ Observes(seen)
        BY Zenon, <2>2 DEF BeginFetch, EndFetch, EndBackoff, SettleRun, InspectClone, Outstanding, Answers
      <3> QED
        BY Zenon, <1>2, <1>7, <3>1
    <2> QED
      BY Zenon, <1>8, <2>1, <2>2 DEF Executing
  <1>9. CASE \E e \in Execs : HostStarts(e) \/ RunEnds(e) \/ Disturb(e)
    BY Zenon, <1>2, <1>6, <1>9 DEF HostStarts, RunEnds, Disturb
  <1> QED
    BY Zenon, <1>4, <1>5, <1>8, <1>9

\* The requests of the session: worker.rs handle.
LEMMA Requests ==
    ASSUME NodeInv, HandleRequest
    PROVE  NodeInv' /\ KeepsLedger
  <1> USE DEF control, progress
  <1>a. MemoryTypeOK /\ RecordsInv /\ FlightInv /\ WorkInv
    BY Zenon DEF NodeInv
  <1>1. ASSUME NEW b \in Ledger!Bindings, BindRuntime(b) PROVE NodeInv' /\ KeepsLedger
    <2>1. UNCHANGED <<controlled, permit, started, rec, outbox, inc, stopping, queue, flight, work>>
      BY Zenon, <1>1 DEF BindRuntime
    <2>2. NodeInv'
      BY Zenon, <1>a, <2>1 DEF NodeInv, MemoryTypeOK, RecordsInv, FlightInv, WorkInv, Open, Licensed, Past
    <2>3. Ledger!Unfinished \subseteq Unfinished
      BY Zenon, <1>a, OpenStates DEF Ledger!Unfinished, Unfinished, MemoryTypeOK, Recs
    <2>4. Ledger!Binds(b, Ledger!Unfinished)
      <3>1. Ledger!Binds(b, Unfinished)
        BY Zenon, <1>1 DEF BindRuntime
      <3>2. Unfinished = {} => Ledger!Unfinished = {}
        BY Zenon, <2>3
      <3> QED
        BY Zenon, <3>1, <3>2 DEF Ledger!Binds
    <2>5. Ledger!Bind(b)
      BY Zenon, <1>1, <2>1, <2>4, ShownStays DEF BindRuntime, Ledger!Bind
    <2> QED
      BY Zenon, <2>2, <2>5 DEF KeepsLedger, Ledger!Next
  <1>2. ASSUME NEW e \in Execs, NEW p \in Ledger!Permits \cup {None}, AcceptClone(e, p)
        PROVE  NodeInv' /\ KeepsLedger
    <2>1. /\ UNCHANGED <<controlled, binding, started, outbox, inc, stopping, flight, work>>
          /\ rec' = [rec EXCEPT ![e] = Pending("Reserved", 0)] /\ queue' = queue \cup {e}
          /\ Ledger!Accepts(e, p, Unfinished) /\ permit' = [permit EXCEPT ![e] = p]
      BY Zenon, <1>2 DEF AcceptClone
    <2>2. Shown[e].state = "Absent"
      BY Zenon, <2>1 DEF Ledger!Accepts
    <2>3. rec[e].mode = "Absent" /\ rec[e].result = None
      BY Zenon, <1>a, <2>2, OpenStates DEF MemoryTypeOK, RecordsInv
    <2>4. Pending("Reserved", 0) \in Recs
      BY Zenon DEF Recs, Pending, Phases
    <2>5. /\ rec' \in [Execs -> Recs] /\ rec'[e] = Pending("Reserved", 0)
          /\ \A d \in Execs : d # e => rec'[d] = rec[d]
      BY Zenon, <1>a, <2>1, <2>4 DEF MemoryTypeOK
    <2>6. /\ Pending("Reserved", 0).mode = "Pending" /\ Pending("Reserved", 0).phase = "Reserved"
          /\ Pending("Reserved", 0).result = None
      BY Zenon DEF Pending
    <2>a. \A d \in Execs : d # e => permit'[d] = permit[d]
      BY Zenon, <1>a, <2>1 DEF MemoryTypeOK
    <2>b. ASSUME NEW d \in Execs, d # e, Licensed(d) PROVE Licensed(d)'
      BY Zenon, <2>1, <2>5, <2>a, <2>b DEF Licensed, Past
    <2>7. RecordsInv'
      <3>1. ASSUME NEW d \in Execs
            PROVE  /\ rec'[d].mode # "Completed" => rec'[d].result = None
                   /\ Open(d)' /\ Past(d)' => Licensed(d)'
                   /\ d \in queue' => Open(d)'
        <4>1. CASE d = e
          BY Zenon, <2>5, <2>6, <4>1 DEF Open, Past
        <4>2. CASE d # e
          <5>1. /\ rec[d].mode # "Completed" => rec[d].result = None
                /\ Open(d) /\ Past(d) => Licensed(d)
                /\ d \in queue => Open(d)
            BY Zenon, <1>a DEF RecordsInv
          <5>2. (Open(d)' <=> Open(d)) /\ (Past(d)' <=> Past(d)) /\ (d \in queue' => d \in queue)
            BY Zenon, <2>1, <2>5, <4>2 DEF Open, Past
          <5> QED
            BY Zenon, <2>5, <2>b, <4>2, <5>1, <5>2
        <4> QED
          BY Zenon, <4>1, <4>2
      <3> QED
        BY Zenon, <3>1 DEF RecordsInv
    <2>8. FlightInv'
      <3>1. CASE flight = Idle
        BY Zenon, <2>1, <3>1 DEF FlightInv
      <3>2. CASE flight # Idle
        <4>1. PICK d \in Execs : d = flight.exec /\ d # e /\ d \notin queue /\ Open(d) /\ Licensed(d)
          BY Zenon, <1>a, <2>3, <3>2 DEF MemoryTypeOK, Flights, FlightInv, Open
        <4>2. d \notin queue' /\ Open(d)' /\ Licensed(d)' /\ d = flight'.exec
          BY Zenon, <2>1, <2>5, <2>b, <4>1 DEF Open
        <4> QED
          BY Zenon, <4>2 DEF FlightInv, Open, Licensed, Past
      <3> QED
        BY Zenon, <3>1, <3>2
    <2>9. WorkInv'
      <3>1. work = Idle
        BY Zenon DEF HandleRequest
      <3> QED
        BY Zenon, <2>1, <3>1 DEF WorkInv
    <2>10. NodeInv'
      BY Zenon, <1>a, <2>1, <2>5, <2>7, <2>8, <2>9 DEF NodeInv, MemoryTypeOK
    <2>11. Shown' = [Shown EXCEPT ![e].state = "Accepted"]
      <3>1. Shown' = [Shown EXCEPT ![e] = [state |-> StateOf(Pending("Reserved", 0)),
                                           result |-> Pending("Reserved", 0).result]]
        BY Zenon, <1>a, <2>1, ShownMoves DEF MemoryTypeOK
      <3>2. StateOf(Pending("Reserved", 0)) = "Accepted"
        BY Zenon, <2>6 DEF StateOf
      <3>3. Shown[e] = [state |-> StateOf(rec[e]), result |-> None]
        BY Zenon, <2>3, ShownOf
      <3>4. [Shown[e] EXCEPT !.state = "Accepted"] = [state |-> "Accepted", result |-> None]
        BY <3>3
      <3> QED
        BY Zenon, <2>6, <3>1, <3>2, <3>4
    <2>12. Ledger!Accepts(e, p, Ledger!Unfinished)
      <3>1. Ledger!Unfinished \subseteq Unfinished
        BY Zenon, <1>a, OpenStates DEF Ledger!Unfinished, Unfinished, MemoryTypeOK, Recs
      <3> QED
        BY Zenon, <2>1, <3>1 DEF Ledger!Accepts
    <2>13. Ledger!Accept(e, p)
      BY Zenon, <2>1, <2>11, <2>12 DEF Ledger!Accept
    <2>14. p \in Ledger!Permits \cup {Ledger!None}
      BY Zenon DEF None, Ledger!None
    <2> QED
      BY Zenon, <2>10, <2>13, <2>14 DEF KeepsLedger, Ledger!Next
  <1>3. ASSUME NEW e \in Execs, Acknowledge(e) PROVE NodeInv' /\ KeepsLedger
    <2>1. /\ UNCHANGED <<controlled, binding, permit, started, rec, inc, stopping, queue, flight, work>>
          /\ outbox' = outbox \ {e} /\ rec[e].mode = "Completed"
      BY Zenon, <1>3 DEF Acknowledge
    <2>2. NodeInv'
      BY Zenon, <1>a, <2>1 DEF NodeInv, MemoryTypeOK, RecordsInv, FlightInv, WorkInv, Open, Licensed, Past
    <2>3. Shown[e].state = "Completed" /\ Shown' = Shown
      BY Zenon, <1>a, <2>1, OpenStates, ShownStays DEF MemoryTypeOK
    <2>4. Ledger!Acknowledge(e)
      BY Zenon, <2>1, <2>3 DEF Ledger!Acknowledge
    <2> QED
      BY Zenon, <2>2, <2>4 DEF KeepsLedger, Ledger!Next
  <1> QED
    BY Zenon, <1>1, <1>2, <1>3 DEF HandleRequest

\* The process stops, and another one starts with an empty memory.
LEMMA ProcessSteps ==
    ASSUME NodeInv, Stop \/ Exit \/ Crash
    PROVE  NodeInv' /\ KeepsLedger
  <1> USE CloneAssumption DEF control, progress
  <1>a. MemoryTypeOK /\ RecordsInv /\ FlightInv /\ WorkInv
    BY Zenon DEF NodeInv
  <1>1. CASE Stop
    <2>1. /\ inc <= MaxRestarts /\ ~stopping /\ stopping' = TRUE
          /\ UNCHANGED <<controlled, binding, permit, started, rec, outbox, inc, queue, flight, work>>
      BY Zenon, <1>1 DEF Stop
    <2>2. NodeInv'
      BY Zenon, <1>a, <2>1 DEF NodeInv, MemoryTypeOK, RecordsInv, FlightInv, WorkInv, Open, Licensed, Past
    <2>3. Ledger!Stop
      BY Zenon, <2>1, ShownStays DEF Ledger!Stop
    <2> QED
      BY Zenon, <2>2, <2>3 DEF KeepsLedger, Ledger!Next
  <1>2. CASE Exit \/ Crash
    <2>1. Restarts
      BY Zenon, <1>2 DEF Exit, Crash
    <2>2. /\ inc <= MaxRestarts /\ inc' = inc + 1 /\ stopping' = FALSE
          /\ queue' = {} /\ flight' = Idle /\ work' = Idle
          /\ binding' = IF binding = None THEN None ELSE [binding EXCEPT !.closed = TRUE]
          /\ controlled' \in {controlled, TRUE}
          /\ UNCHANGED <<permit, started, rec, outbox>>
      BY Zenon, <2>1 DEF Restarts
    <2>3. inc' \in Ledger!Incarnations /\ inc' \in Nat
      BY <1>a, <2>2 DEF MemoryTypeOK, Ledger!Incarnations
    <2>4. RecordsInv' /\ FlightInv' /\ WorkInv'
      BY Zenon, <1>a, <2>2 DEF RecordsInv, FlightInv, WorkInv, Open, Licensed, Past
    <2>5. NodeInv'
      BY Zenon, <1>a, <2>2, <2>3, <2>4 DEF NodeInv, MemoryTypeOK
    <2>6. Ledger!Restart
      BY Zenon, <2>2, ShownStays DEF Ledger!Restart, Ledger!None, None
    <2> QED
      BY Zenon, <2>5, <2>6 DEF KeepsLedger, Ledger!Next
  <1> QED
    BY Zenon, <1>1, <1>2

\* The invariant holds, and every step is one of the ledger's or changes nothing in it.
LEMMA NodeSteps == NodeInv /\ [Next]_vars => NodeInv' /\ KeepsLedger
  <1> SUFFICES ASSUME NodeInv, [Next]_vars PROVE NodeInv' /\ KeepsLedger
    BY Zenon
  <1>1. CASE HandleRequest
    BY Zenon, <1>1, Requests
  <1>2. CASE RecoveryPass \/ Executing
    BY Zenon, <1>2, OutsideSteps
  <1>3. CASE Starting
    BY Zenon, <1>3, Beginnings, Endings DEF Starting
  <1>4. CASE Handling
    BY Zenon, <1>4, WorkerSteps, AnswersTaken, Endings, OutsideSteps DEF Handling
  <1>5. CASE \E e \in Execs : HostStarts(e) \/ RunEnds(e) \/ Disturb(e)
    BY Zenon, <1>5, OutsideSteps
  <1>6. CASE Stop \/ Exit \/ Crash
    BY Zenon, <1>6, ProcessSteps
  <1>7. CASE UNCHANGED vars
    <2>1. UNCHANGED <<controlled, binding, permit, started, rec, outbox, inc, stopping, queue, flight, work>>
      BY Zenon, <1>7 DEF vars, control, progress
    <2> QED
      BY Zenon, <2>1, ShownStays
      DEF KeepsLedger, Ledger!ledgerVars, NodeInv, MemoryTypeOK, RecordsInv, FlightInv, WorkInv,
          Open, Licensed, Past
  <1> QED
    BY Zenon, <1>1, <1>2, <1>3, <1>4, <1>5, <1>6, <1>7 DEF Next

\* A new home has no executions.
LEMMA NodeStarts == Init => NodeInv /\ Ledger!Init
  <1> SUFFICES ASSUME Init PROVE NodeInv /\ Ledger!Init
    BY Zenon
  <1> USE CloneAssumption
  <1>1. rec = [e \in Execs |-> Absent] /\ Absent \in Recs
    BY Zenon DEF Init, Absent, Recs, Phases
  <1>2. \A e \in Execs : rec[e].mode = "Absent" /\ rec[e].result = None
    BY Zenon, <1>1 DEF Absent
  <1>3. inc \in Ledger!Incarnations /\ inc \in Nat
    BY DEF Init, Ledger!Incarnations
  <1>4. NodeInv
    BY Zenon, <1>1, <1>2, <1>3 DEF Init, NodeInv, MemoryTypeOK, RecordsInv, FlightInv, WorkInv, Open
  <1>5. Shown = [e \in Execs |-> [state |-> "Absent", result |-> None]]
    <2>1. StateOf(Absent) = "Absent" /\ Absent.result = None
      BY Zenon DEF StateOf, Absent
    <2> QED
      BY Zenon, <1>1, <2>1, ShownOf
  <1>6. Ledger!Init
    BY Zenon, <1>5 DEF Init, Ledger!Init, Ledger!None, None
  <1> QED
    BY Zenon, <1>4, <1>6

-----------------------------------------------------------------------------
(* Writes of one record.                                                    *)

\* A record that is not written.
LEMMA SameRecord ==
    ASSUME NodeInv, NEW e \in Execs, rec' = rec
    PROVE  rec' = [rec EXCEPT ![e] = rec[e]]
  BY Zenon DEF NodeInv, MemoryTypeOK

\* complete_clone and unknown_clone as writes of one record.
LEMMA RecordWrites ==
    ASSUME NodeInv, NEW e \in Execs
    PROVE  /\ rec[e] \in Recs
           /\ BecomesUnknown(e) => rec' = [rec EXCEPT ![e] = [rec[e] EXCEPT !.mode = "Unknown"]]
           /\ \A result : CompleteClone(e, result) =>
                 /\ rec' = [rec EXCEPT ![e] = [rec[e] EXCEPT !.mode = "Completed", !.result = result]]
                 /\ \A i \in DOMAIN attempts[e] : attempts[e][i].cleaned
  BY Zenon DEF NodeInv, MemoryTypeOK, BecomesUnknown, CompleteClone, Attributable

-----------------------------------------------------------------------------
(* Epochs.                                                                  *)

\* An epoch that was left has only finished executions.
EpochsInv ==
    /\ binding \in {None} \cup Ledger!Bindings
    /\ permit \in [Execs -> {None} \cup Ledger!Permits]
    /\ \A e \in Execs : permit[e] # None =>
          /\ binding \in Ledger!Bindings /\ rec[e].mode # "Absent"
          /\ binding.epoch > permit[e].epoch => rec[e].mode = "Completed"

\* A binding and a permit are not the absence of one.
LEMMA NoneIsNothing == None \notin Ledger!Bindings /\ None \notin Ledger!Permits
  <1>1. \A b \in Ledger!Bindings : DOMAIN b = {"epoch", "closed", "inc"}
    BY Zenon DEF Ledger!Bindings
  <1>2. \A p \in Ledger!Permits : DOMAIN p = {"epoch", "inc"}
    BY Zenon DEF Ledger!Permits
  <1>3. DOMAIN None = {"none"}
    BY Zenon DEF None
  <1>4. "epoch" \notin {"none"}
    BY Zenon
  <1> QED
    BY Zenon, <1>1, <1>2, <1>3, <1>4

\* A mode is what is shown of it, before and after a step.
LEMMA ModesShown ==
    ASSUME rec \in [Execs -> Recs], rec' \in [Execs -> Recs], NEW e \in Execs
    PROVE  /\ rec[e].mode = "Completed" <=> Shown[e].state = "Completed"
           /\ rec[e].mode = "Absent" <=> Shown[e].state = "Absent"
           /\ rec'[e].mode = "Completed" <=> Shown'[e].state = "Completed"
           /\ rec'[e].mode = "Absent" <=> Shown'[e].state = "Absent"
  <1>1. /\ rec[e].mode = "Completed" <=> Shown[e].state = "Completed"
        /\ rec[e].mode = "Absent" <=> Shown[e].state = "Absent"
    BY Zenon, OpenStates
  <1>2. Shown'[e].state = StateOf(rec'[e])
    BY Zenon DEF Shown, State, StateOf
  <1>3. rec'[e].mode \in {"Absent", "Pending", "Unknown", "Completed"}
    BY Zenon DEF Recs
  <1> QED
    BY Zenon, <1>1, <1>2, <1>3 DEF StateOf

\* Seen in the ledger: bind_runtime leaves an epoch only when nothing of it is open.
LEMMA EpochSteps ==
    ASSUME NodeInv, NodeInv', EpochsInv, KeepsLedger
    PROVE  EpochsInv'
  <1> USE CloneAssumption
  <1>1. rec \in [Execs -> Recs] /\ rec' \in [Execs -> Recs]
    BY Zenon DEF NodeInv, MemoryTypeOK
  <1> DEFINE S(e) == Shown[e].state
             T(e) == Shown'[e].state
  <1>2. Shown \in [Execs -> [state : {"Absent", "Accepted", "Running", "Unknown", "Completed"},
                             result : Results \cup {None}]]
    <2>1. \A e \in Execs : StateOf(rec[e]) \in {"Absent", "Accepted", "Running", "Unknown", "Completed"}
      BY Zenon, <1>1 DEF StateOf, Recs
    <2>2. \A e \in Execs : rec[e].result \in Results \cup {None}
      BY Zenon, <1>1 DEF Recs
    <2> HIDE DEF StateOf
    <2> QED
      BY Zenon, <2>1, <2>2, ShownOf
  \* What every step leaves alone.
  <1>3. ASSUME \A e \in Execs : S(e) # "Absent" => T(e) # "Absent",
               \A e \in Execs : S(e) = "Completed" => T(e) = "Completed",
               permit' = permit, binding' \in {None} \cup Ledger!Bindings,
               binding \in Ledger!Bindings =>
                  binding' \in Ledger!Bindings /\ binding'.epoch = binding.epoch
        PROVE  EpochsInv'
    <2> SUFFICES ASSUME NEW e \in Execs, permit[e] # None
                 PROVE  /\ binding' \in Ledger!Bindings /\ rec'[e].mode # "Absent"
                        /\ binding'.epoch > permit[e].epoch => rec'[e].mode = "Completed"
      BY Zenon, <1>3 DEF EpochsInv
    <2>1. /\ binding \in Ledger!Bindings /\ rec[e].mode # "Absent"
          /\ binding.epoch > permit[e].epoch => rec[e].mode = "Completed"
      BY Zenon DEF EpochsInv
    <2>2. (rec[e].mode # "Absent" => rec'[e].mode # "Absent")
          /\ (rec[e].mode = "Completed" => rec'[e].mode = "Completed")
      BY Zenon, <1>1, <1>3, ModesShown
    <2> QED
      BY Zenon, <1>3, <2>1, <2>2
  <1>4. ASSUME NEW b \in Ledger!Bindings, Ledger!Bind(b) PROVE EpochsInv'
    <2>1. /\ binding' = b /\ permit' = permit /\ Shown' = Shown
          /\ Ledger!Binds(b, Ledger!Unfinished)
      BY Zenon, <1>4 DEF Ledger!Bind
    <2> SUFFICES ASSUME NEW e \in Execs, permit[e] # None
                 PROVE  /\ binding' \in Ledger!Bindings /\ rec'[e].mode # "Absent"
                        /\ binding'.epoch > permit[e].epoch => rec'[e].mode = "Completed"
      BY Zenon, <2>1 DEF EpochsInv
    <2>2. /\ binding \in Ledger!Bindings /\ rec[e].mode # "Absent"
          /\ binding.epoch > permit[e].epoch => rec[e].mode = "Completed"
      BY Zenon DEF EpochsInv
    <2>3. /\ rec[e].mode = "Absent" <=> rec'[e].mode = "Absent"
          /\ rec[e].mode = "Completed" <=> rec'[e].mode = "Completed"
      BY Zenon, <1>1, <2>1, ModesShown
    <2>4. binding # Ledger!None
      BY Zenon, <2>2, NoneIsNothing DEF None, Ledger!None
    <2>5. b.epoch > binding.epoch => rec[e].mode = "Completed"
      <3>1. b.epoch > binding.epoch => Ledger!Unfinished = {}
        BY Zenon, <2>1, <2>4 DEF Ledger!Binds
      <3>2. Ledger!Unfinished = {} => S(e) \in {"Absent", "Completed"}
        BY Zenon, <1>2 DEF Ledger!Unfinished
      <3> QED
        BY Zenon, <1>1, <2>2, <3>1, <3>2, OpenStates
    <2>6. b.epoch >= binding.epoch /\ b.epoch \in Nat /\ binding.epoch \in Nat
      <3>1. b.epoch \in Epochs /\ binding.epoch \in Epochs
        BY Zenon, <2>2 DEF Ledger!Bindings
      <3> QED
        BY Zenon, <2>1, <2>4, <3>1 DEF Ledger!Binds
    <2>7. b.epoch = binding.epoch \/ b.epoch > binding.epoch
      BY <2>6
    <2> QED
      BY Zenon, <2>1, <2>2, <2>3, <2>5, <2>7
  <1>5. ASSUME NEW e \in Execs, NEW p \in Ledger!Permits \cup {Ledger!None}, Ledger!Accept(e, p)
        PROVE  EpochsInv'
    <2>1. /\ binding' = binding /\ permit' = [permit EXCEPT ![e] = p]
          /\ Shown' = [Shown EXCEPT ![e].state = "Accepted"]
          /\ Ledger!Accepts(e, p, Ledger!Unfinished)
      BY Zenon, <1>5 DEF Ledger!Accept
    <2>2. p \in {None} \cup Ledger!Permits
      BY Zenon DEF None, Ledger!None
    <2>3. permit' \in [Execs -> {None} \cup Ledger!Permits] /\ permit'[e] = p
      BY Zenon, <2>1, <2>2 DEF EpochsInv
    <2>4. p # None => binding \in Ledger!Bindings /\ p.epoch = binding.epoch
      BY Zenon, <2>1 DEF EpochsInv, Ledger!Accepts, Ledger!PermitHolds, None, Ledger!None
    <2>5. p # None => binding.epoch \in Nat
      BY Zenon, <2>4 DEF Ledger!Bindings
    <2>6. T(e) = "Accepted" /\ \A d \in Execs : d # e => T(d) = S(d)
      BY Zenon, <1>2, <2>1
    <2> SUFFICES ASSUME NEW d \in Execs, permit'[d] # None
                 PROVE  /\ binding' \in Ledger!Bindings /\ rec'[d].mode # "Absent"
                        /\ binding'.epoch > permit'[d].epoch => rec'[d].mode = "Completed"
      BY Zenon, <2>1, <2>3 DEF EpochsInv
    <2>7. CASE d = e
      <3>1. rec'[e].mode # "Absent"
        BY Zenon, <1>1, <2>6, ModesShown
      <3>2. ~(binding.epoch > p.epoch)
        BY <2>3, <2>4, <2>5, <2>7
      <3> QED
        BY Zenon, <2>1, <2>3, <2>4, <2>7, <3>1, <3>2
    <2>8. CASE d # e
      <3>1. permit'[d] = permit[d]
        BY Zenon, <2>1, <2>8 DEF EpochsInv
      <3>2. /\ binding \in Ledger!Bindings /\ rec[d].mode # "Absent"
            /\ binding.epoch > permit[d].epoch => rec[d].mode = "Completed"
        BY Zenon, <3>1 DEF EpochsInv
      <3>3. (rec[d].mode # "Absent" => rec'[d].mode # "Absent")
            /\ (rec[d].mode = "Completed" => rec'[d].mode = "Completed")
        BY Zenon, <1>1, <2>6, <2>8, ModesShown
      <3> QED
        BY Zenon, <2>1, <3>1, <3>2, <3>3
    <2> QED
      BY Zenon, <2>7, <2>8
  <1>6. binding \in {None} \cup Ledger!Bindings
    BY Zenon DEF EpochsInv
  <1>7. ASSUME NEW e \in Execs, Ledger!Work(e) PROVE EpochsInv'
    <2>1. /\ binding' = binding /\ permit' = permit /\ S(e) \in {"Accepted", "Running", "Unknown"}
      BY Zenon, <1>7 DEF Ledger!Work
    <2>2. PICK s \in {"Running", "Unknown"} : Shown' = [Shown EXCEPT ![e].state = s]
      BY Zenon, <1>7 DEF Ledger!Work
    <2>3. T(e) = s /\ \A d \in Execs : d # e => T(d) = S(d)
      BY Zenon, <1>2, <2>2
    <2> QED
      BY Zenon, <1>3, <1>6, <2>1, <2>3
  <1>8. ASSUME NEW e \in Execs, Ledger!Complete(e) PROVE EpochsInv'
    <2>1. binding' = binding /\ permit' = permit
      BY Zenon, <1>8 DEF Ledger!Complete
    <2>2. PICK r : Shown' = [Shown EXCEPT ![e] = [state |-> "Completed", result |-> r]]
      BY Zenon, <1>8 DEF Ledger!Complete
    <2>3. T(e) = "Completed" /\ \A d \in Execs : d # e => T(d) = S(d)
      BY Zenon, <1>2, <2>2
    <2> QED
      BY Zenon, <1>3, <1>6, <2>1, <2>3
  <1>9. ASSUME Shown' = Shown, permit' = permit,
               \/ binding' = binding
               \/ binding' = IF binding = Ledger!None THEN Ledger!None ELSE [binding EXCEPT !.closed = TRUE]
        PROVE  EpochsInv'
    <2>1. /\ \A e \in Execs : S(e) # "Absent" => T(e) # "Absent"
          /\ \A e \in Execs : S(e) = "Completed" => T(e) = "Completed"
      BY Zenon, <1>9
    <2>2. CASE binding' = binding
      BY Zenon, <1>3, <1>6, <1>9, <2>1, <2>2
    <2>3. CASE binding \in Ledger!Bindings /\ binding' = [binding EXCEPT !.closed = TRUE]
      <3>1. binding' \in Ledger!Bindings /\ binding'.epoch = binding.epoch
        BY Zenon, <2>3 DEF Ledger!Bindings
      <3> QED
        BY Zenon, <1>3, <1>9, <2>1, <3>1
    <2> QED
      BY Zenon, <1>6, <1>9, <2>2, <2>3 DEF None, Ledger!None
  <1>10. CASE \E e \in Execs : Ledger!Start(e) \/ Ledger!Acknowledge(e)
    BY Zenon, <1>9, <1>10 DEF Ledger!Start, Ledger!Acknowledge
  <1>11. CASE Ledger!Stop \/ Ledger!Restart
    BY Zenon, <1>9, <1>11 DEF Ledger!Stop, Ledger!Restart
  <1>12. CASE UNCHANGED Ledger!ledgerVars
    BY Zenon, <1>9, <1>12 DEF Ledger!ledgerVars
  <1> QED
    BY Zenon, <1>4, <1>5, <1>7, <1>8, <1>10, <1>11, <1>12 DEF KeepsLedger, Ledger!Next

\* Before an epoch is opened, what was accepted outside runtime control has ended.
LocalInv ==
    /\ binding # None => controlled
    /\ binding # None /\ ~binding.closed =>
          \A e \in Execs : permit[e] = None => rec[e].mode \in {"Absent", "Completed"}

\* Seen in the ledger: the first open binding needs that nothing is open, and under
\* runtime control nothing is accepted without a permit.
LEMMA LocalSteps ==
    ASSUME NodeInv, NodeInv', EpochsInv, LocalInv, KeepsLedger
    PROVE  LocalInv'
  <1> USE CloneAssumption
  <1>1. rec \in [Execs -> Recs] /\ rec' \in [Execs -> Recs]
    BY Zenon DEF NodeInv, MemoryTypeOK
  <1> DEFINE S(e) == Shown[e].state
             T(e) == Shown'[e].state
             Done == {"Absent", "Completed"}
             Opened == binding # None /\ ~binding.closed
  <1>2. Shown \in [Execs -> [state : {"Absent", "Accepted", "Running", "Unknown", "Completed"},
                             result : Results \cup {None}]]
    <2>1. \A e \in Execs : StateOf(rec[e]) \in {"Absent", "Accepted", "Running", "Unknown", "Completed"}
      BY Zenon, <1>1 DEF StateOf, Recs
    <2>2. \A e \in Execs : rec[e].result \in Results \cup {None}
      BY Zenon, <1>1 DEF Recs
    <2> HIDE DEF StateOf
    <2> QED
      BY Zenon, <2>1, <2>2, ShownOf
  <1>3. Opened => \A e \in Execs : permit[e] = None => S(e) \in Done
    BY Zenon, <1>1, ModesShown DEF LocalInv
  \* What is left to show, in the states that are shown.
  <1>4. ASSUME binding' # None => controlled',
               binding' # None /\ ~binding'.closed =>
                  \A e \in Execs : permit'[e] = None => T(e) \in Done
        PROVE  LocalInv'
    BY Zenon, <1>1, <1>4, ModesShown DEF LocalInv
  <1>5. ASSUME NEW b \in Ledger!Bindings, Ledger!Bind(b) PROVE LocalInv'
    <2>1. /\ binding' = b /\ permit' = permit /\ Shown' = Shown /\ controlled /\ controlled' = controlled
          /\ Ledger!Binds(b, Ledger!Unfinished)
      BY Zenon, <1>5 DEF Ledger!Bind
    <2>2. Ledger!Unfinished = {} => \A e \in Execs : S(e) \in Done
      BY Zenon, <1>2 DEF Ledger!Unfinished
    <2>3. ~b.closed => Ledger!Unfinished = {} \/ Opened
      <3>1. CASE binding = None
        BY Zenon, <2>1, <3>1 DEF Ledger!Binds, None, Ledger!None
      <3>2. CASE binding # None
        <4>1. b.epoch \in Nat /\ binding.epoch \in Nat /\ binding # Ledger!None
          BY Zenon, <3>2 DEF EpochsInv, Ledger!Bindings, None, Ledger!None
        <4>2. /\ b.epoch >= binding.epoch
              /\ b.epoch = binding.epoch /\ binding.closed => b.closed
              /\ b.epoch > binding.epoch => Ledger!Unfinished = {}
          BY Zenon, <2>1, <4>1 DEF Ledger!Binds
        <4>3. b.epoch = binding.epoch \/ b.epoch > binding.epoch
          BY <4>1, <4>2
        <4> QED
          BY Zenon, <3>2, <4>2, <4>3
      <3> QED
        BY Zenon, <3>1, <3>2
    <2> QED
      BY Zenon, <1>3, <1>4, <2>1, <2>2, <2>3
  <1>6. ASSUME NEW e \in Execs, NEW p \in Ledger!Permits \cup {Ledger!None}, Ledger!Accept(e, p)
        PROVE  LocalInv'
    <2>1. /\ binding' = binding /\ controlled' = controlled /\ permit' = [permit EXCEPT ![e] = p]
          /\ Shown' = [Shown EXCEPT ![e].state = "Accepted"]
          /\ controlled => p # None
      BY Zenon, <1>6 DEF Ledger!Accept, Ledger!Accepts, None, Ledger!None
    <2>2. permit'[e] = p /\ \A d \in Execs : d # e => permit'[d] = permit[d] /\ T(d) = S(d)
      BY Zenon, <1>2, <2>1 DEF EpochsInv
    <2>3. binding # None => controlled
      BY Zenon DEF LocalInv
    <2> QED
      BY Zenon, <1>3, <1>4, <2>1, <2>2, <2>3
  <1>7. ASSUME NEW e \in Execs, Ledger!Work(e) \/ Ledger!Complete(e) PROVE LocalInv'
    <2>1. /\ binding' = binding /\ permit' = permit /\ controlled' = controlled
          /\ S(e) \in {"Accepted", "Running", "Unknown"}
      BY Zenon, <1>7 DEF Ledger!Work, Ledger!Complete
    <2>2. \A d \in Execs : d # e => T(d) = S(d)
      BY Zenon, <1>2, <1>7 DEF Ledger!Work, Ledger!Complete
    <2>3. Opened => permit[e] # None
      BY Zenon, <1>3, <2>1
    <2>4. binding # None => controlled
      BY Zenon DEF LocalInv
    <2> QED
      BY Zenon, <1>3, <1>4, <2>1, <2>2, <2>3, <2>4
  <1>8. ASSUME Shown' = Shown, permit' = permit, controlled => controlled',
               \/ binding' = binding
               \/ binding' = IF binding = Ledger!None THEN Ledger!None ELSE [binding EXCEPT !.closed = TRUE]
        PROVE  LocalInv'
    <2>1. binding # None => controlled
      BY Zenon DEF LocalInv
    <2>2. CASE binding' = binding
      BY Zenon, <1>3, <1>4, <1>8, <2>1, <2>2
    <2>3. CASE binding # None /\ binding' = [binding EXCEPT !.closed = TRUE]
      <3>1. binding'.closed
        BY Zenon, <2>3 DEF EpochsInv, Ledger!Bindings
      <3> QED
        BY Zenon, <1>4, <1>8, <2>1, <2>3, <3>1
    <2>4. None = Ledger!None
      BY Zenon DEF None, Ledger!None
    <2>5. CASE binding = None
      <3>1. binding' = binding
        BY Zenon, <1>8, <2>4, <2>5
      <3> QED
        BY Zenon, <2>2, <3>1
    <2>6. CASE binding # None
      <3>1. binding' = binding \/ binding' = [binding EXCEPT !.closed = TRUE]
        BY Zenon, <1>8, <2>4, <2>6
      <3> QED
        BY Zenon, <2>2, <2>3, <2>6, <3>1
    <2> QED
      BY Zenon, <2>5, <2>6
  <1>9. CASE \E e \in Execs : Ledger!Start(e) \/ Ledger!Acknowledge(e)
    <2>1. UNCHANGED <<controlled, binding, permit>> /\ Shown' = Shown
      BY Zenon, <1>9 DEF Ledger!Start, Ledger!Acknowledge
    <2> QED
      BY Zenon, <1>8, <2>1
  <1>10. CASE Ledger!Stop \/ Ledger!Restart
    <2>1. controlled => controlled'
      BY Zenon, <1>10 DEF Ledger!Stop, Ledger!Restart
    <2> QED
      BY Zenon, <1>8, <1>10, <2>1 DEF Ledger!Stop, Ledger!Restart
  <1>11. CASE UNCHANGED Ledger!ledgerVars
    BY Zenon, <1>8, <1>11 DEF Ledger!ledgerVars
  <1> QED
    BY Zenon, <1>5, <1>6, <1>7, <1>9, <1>10, <1>11 DEF KeepsLedger, Ledger!Next

-----------------------------------------------------------------------------
(* Types.                                                                   *)

\* How far a phase counts.
Bound(phase) ==
    CASE phase = "Dispatched" -> WorkloadSteps - 1
      [] phase = "Fetching" -> MaxFetches
      [] OTHER -> 0

Fits(r) ==
    r.n \in 0..Bound(r.phase) /\ r.result \in IF r.mode = "Completed" THEN Results ELSE {None}

OutsideTypes ==
    /\ outbox \subseteq Execs /\ transports \subseteq Execs
    /\ dirs \in [Execs -> {"none", "ours", "other"}] /\ fetched \in [Execs -> Nat]
    /\ stopping \in BOOLEAN

\* One record is written, with one that fits.
LEMMA FittingWrite ==
    ASSUME NodeInv, \A d \in Execs : Fits(rec[d]), NEW e \in Execs, NEW r, Fits(r),
           rec' = [rec EXCEPT ![e] = r]
    PROVE  \A d \in Execs : Fits(rec'[d])
  <1>1. rec \in [Execs -> Recs]
    BY Zenon DEF NodeInv, MemoryTypeOK
  <1>2. \A d \in Execs : rec'[d] = IF d = e THEN r ELSE rec[d]
    BY Zenon, <1>1
  <1> QED
    BY Zenon, <1>2

\* advance_clone, unknown_clone and complete_clone write records that fit.
LEMMA WritesFit ==
    ASSUME NodeInv, \A d \in Execs : Fits(rec[d]), NEW e \in Execs
    PROVE  /\ rec' = rec => \A d \in Execs : Fits(rec'[d])
           /\ \A phase \in Phases : \A n \in 0..Bound(phase) :
                 rec' = [rec EXCEPT ![e] = Pending(phase, n)] => \A d \in Execs : Fits(rec'[d])
           /\ Open(e) /\ BecomesUnknown(e) => \A d \in Execs : Fits(rec'[d])
           /\ \A result \in Results : CompleteClone(e, result) => \A d \in Execs : Fits(rec'[d])
  <1>1. rec[e] \in Recs /\ Fits(rec[e])
    BY Zenon, RecordWrites
  <1>2. ASSUME NEW phase \in Phases, NEW n \in 0..Bound(phase) PROVE Fits(Pending(phase, n))
    <2>1. /\ Pending(phase, n).phase = phase /\ Pending(phase, n).n = n
          /\ Pending(phase, n).mode = "Pending" /\ Pending(phase, n).result = None
      BY Zenon DEF Pending
    <2> QED
      BY Zenon, <2>1 DEF Fits
  <1>3. ASSUME Open(e) PROVE Fits([rec[e] EXCEPT !.mode = "Unknown"])
    <2> DEFINE q == [rec[e] EXCEPT !.mode = "Unknown"]
    <2>1. q.mode = "Unknown" /\ q.n = rec[e].n /\ q.phase = rec[e].phase /\ q.result = rec[e].result
      BY Zenon, <1>1 DEF Recs
    <2> HIDE DEF q
    <2>2. Fits(q)
      BY Zenon, <1>1, <1>3, <2>1 DEF Fits, Open
    <2> QED
      BY Zenon, <2>2 DEF q
  <1>4. ASSUME NEW result \in Results
        PROVE  Fits([rec[e] EXCEPT !.mode = "Completed", !.result = result])
    <2> DEFINE q == [rec[e] EXCEPT !.mode = "Completed", !.result = result]
    <2>1. q.mode = "Completed" /\ q.n = rec[e].n /\ q.phase = rec[e].phase /\ q.result = result
      BY Zenon, <1>1 DEF Recs
    <2> HIDE DEF q
    <2>2. Fits(q)
      BY Zenon, <1>1, <2>1 DEF Fits
    <2> QED
      BY Zenon, <2>2 DEF q
  <1> HIDE DEF Fits
  <1>5. rec' = rec => \A d \in Execs : Fits(rec'[d])
    BY Zenon
  <1>6. ASSUME NEW phase \in Phases, NEW n \in 0..Bound(phase),
               rec' = [rec EXCEPT ![e] = Pending(phase, n)]
        PROVE  \A d \in Execs : Fits(rec'[d])
    BY Zenon, <1>2, <1>6, FittingWrite
  <1>7. ASSUME Open(e), BecomesUnknown(e) PROVE \A d \in Execs : Fits(rec'[d])
    BY Zenon, <1>3, <1>7, RecordWrites, FittingWrite
  <1>8. ASSUME NEW result \in Results, CompleteClone(e, result)
        PROVE  \A d \in Execs : Fits(rec'[d])
    BY Zenon, <1>4, <1>8, RecordWrites, FittingWrite
  <1> QED
    BY Zenon, <1>5, <1>6, <1>7, <1>8

\* The bounds of the phases.
LEMMA BoundsOf ==
    /\ Bound("Reserved") = 0 /\ Bound("DirectoryCreated") = 0
    /\ Bound("Fetching") = MaxFetches /\ Bound("Dispatched") = WorkloadSteps - 1
    /\ 0 \in 0..Bound("Dispatched") /\ 1 \in 0..Bound("Fetching")
  <1>1. /\ Bound("Reserved") = 0 /\ Bound("DirectoryCreated") = 0
        /\ Bound("Fetching") = MaxFetches /\ Bound("Dispatched") = WorkloadSteps - 1
    BY Zenon DEF Bound
  <1> QED
    BY <1>1, CloneAssumption DEF TransportStep

\* Every record fits after every step.
LEMMA RecordsFit ==
    ASSUME NodeInv, \A d \in Execs : Fits(rec[d]), [Next]_vars
    PROVE  \A d \in Execs : Fits(rec'[d])
  <1> USE DEF progress
  <1> DEFINE Goal == \A d \in Execs : Fits(rec'[d])
  <1>1. CASE rec' = rec
    BY Zenon, <1>1
  <1>2. ASSUME NEW e \in Execs, NEW p, AcceptClone(e, p) PROVE Goal
    <2>1. rec' = [rec EXCEPT ![e] = Pending("Reserved", 0)]
      BY Zenon, <1>2 DEF AcceptClone
    <2>2. "Reserved" \in Phases /\ 0 \in 0..Bound("Reserved")
      BY BoundsOf DEF Phases
    <2> HIDE DEF Fits
    <2> QED
      BY Zenon, <2>1, <2>2, WritesFit
  <1>3. ASSUME NEW e \in Execs, RefuseReserved(e) PROVE Goal
    <2>1. CompleteClone(e, Result(e, "OperationFailed"))
      BY Zenon, <1>3 DEF RefuseReserved
    <2>2. Result(e, "OperationFailed") \in Results
      BY Zenon, ResultsMade DEF Failures
    <2> HIDE DEF Fits
    <2> QED
      BY Zenon, <2>1, <2>2, WritesFit
  <1>4. ASSUME work # Idle, work.todo # "remove" PROVE work.exec \in Execs /\ Open(work.exec)
    BY Zenon, <1>4 DEF NodeInv, MemoryTypeOK, WorkInv, Works
  <1>5. CASE MakeDirectory \/ RecordDirectory \/ ContinueClone \/ DispatchStep \/ SettleClone
    <2>1. work # Idle /\ work.todo # "remove"
      BY Zenon, <1>5 DEF MakeDirectory, RecordDirectory, ContinueClone, DispatchStep, SettleClone, Working
    <2>2. PICK e \in Execs : e = work.exec /\ Open(e)
      BY Zenon, <1>4, <2>1
    <2>3. ASSUME NEW phase \in Phases, NEW n \in 0..Bound(phase), Advance(e, phase, n) PROVE Goal
      <3>1. rec' = [rec EXCEPT ![e] = Pending(phase, n)]
        BY Zenon, <2>3 DEF Advance
      <3> HIDE DEF Fits
      <3> QED
        BY Zenon, <3>1, WritesFit
    <2>4. ASSUME Uncertain(e) PROVE Goal
      <3>1. BecomesUnknown(e)
        BY Zenon, <2>4 DEF Uncertain
      <3> HIDE DEF Fits
      <3> QED
        BY Zenon, <2>2, <3>1, WritesFit
    <2>5. rec[e].n \in Nat
      BY Zenon, RecordWrites DEF Recs
    <2>6. CASE MakeDirectory
      BY Zenon, <1>1, <2>2, <2>4, <2>6 DEF MakeDirectory
    <2>7. CASE RecordDirectory
      <3>1. "DirectoryCreated" \in Phases /\ 0 \in 0..Bound("DirectoryCreated")
        BY BoundsOf DEF Phases
      <3> QED
        BY Zenon, <2>2, <2>3, <2>4, <2>7, <3>1 DEF RecordDirectory
    <2>8. CASE ContinueClone
      <3>1. "Fetching" \in Phases /\ 1 \in 0..Bound("Fetching")
        BY Zenon, BoundsOf DEF Phases
      <3>2. rec[e].n < MaxFetches => rec[e].n + 1 \in 0..Bound("Fetching")
        BY <2>5, BoundsOf, CloneAssumption
      <3>3. \/ Uncertain(e) \/ CountFetch(e, 1)
            \/ rec[e].n < MaxFetches /\ CountFetch(e, rec[e].n + 1)
            \/ rec' = rec
        BY Zenon, <2>2, <2>8 DEF ContinueClone
      <3>4. ASSUME NEW n, CountFetch(e, n) PROVE Advance(e, "Fetching", n)
        BY Zenon, <3>4 DEF CountFetch
      <3>5. CASE CountFetch(e, 1)
        BY Zenon, <2>3, <3>1, <3>4, <3>5
      <3>6. CASE rec[e].n < MaxFetches /\ CountFetch(e, rec[e].n + 1)
        <4>1. PICK n \in 0..Bound("Fetching") : n = rec[e].n + 1
          BY Zenon, <3>2, <3>6
        <4>2. Advance(e, "Fetching", n)
          BY Zenon, <3>4, <3>6, <4>1
        <4> QED
          BY Zenon, <2>3, <3>1, <4>2
      <3>7. CASE rec' = rec
        BY Zenon, <1>1, <3>7
      <3> HIDE DEF Fits
      <3> QED
        BY Zenon, <2>4, <3>3, <3>5, <3>6, <3>7
    <2>9. CASE DispatchStep
      BY Zenon, <1>1, <2>2, <2>4, <2>9 DEF DispatchStep
    <2>10. CASE SettleClone
      <3>1. "Dispatched" \in Phases
        BY Zenon DEF Phases
      <3>2. rec[e].n + 1 < WorkloadSteps => rec[e].n + 1 \in 0..Bound("Dispatched")
        BY <2>5, BoundsOf, CloneAssumption
      <3> QED
        BY Zenon, <1>1, <2>2, <2>3, <2>4, <2>10, <3>1, <3>2 DEF SettleClone
    <2> QED
      BY Zenon, <1>5, <2>6, <2>7, <2>8, <2>9, <2>10
  <1>6. CASE FailClone
    <2>1. work # Idle /\ work.todo = "fail"
      BY Zenon, <1>6 DEF FailClone, Working
    <2>2. PICK e \in Execs : e = work.exec
      BY Zenon, <1>4, <2>1
    <2>3. CompleteClone(e, Result(e, work.with)) /\ work.with \in Failures
      BY Zenon, <1>6, <2>1, <2>2 DEF FailClone, NodeInv, WorkInv
    <2>4. Result(e, work.with) \in Results
      BY Zenon, <2>3, ResultsMade
    <2> HIDE DEF Fits
    <2> QED
      BY Zenon, <2>3, <2>4, WritesFit
  <1>7. CASE ResumeFetch \/ RecordEnding \/ FinishClone
    <2>1. flight # Idle
      BY Zenon, <1>7 DEF ResumeFetch, RecordEnding, FinishClone, Seen
    <2>2. flight.exec \in Execs /\ Open(flight.exec)
      BY Zenon, <2>1 DEF NodeInv, MemoryTypeOK, FlightInv, Flights
    <2>3. PICK e \in Execs : e = flight.exec /\ Open(e)
      BY Zenon, <2>2
    <2>4. ASSUME BecomesUnknown(e) PROVE Goal
      <3> HIDE DEF Fits
      <3> QED
        BY Zenon, <2>3, <2>4, WritesFit
    <2>5. ASSUME Advance(e, "Dispatched", 0) PROVE Goal
      <3>1. "Dispatched" \in Phases /\ 0 \in 0..Bound("Dispatched")
        BY Zenon, BoundsOf DEF Phases
      <3>2. rec' = [rec EXCEPT ![e] = Pending("Dispatched", 0)]
        BY Zenon, <2>5 DEF Advance
      <3> HIDE DEF Fits
      <3> QED
        BY Zenon, <3>1, <3>2, WritesFit
    <2>6. ASSUME CompleteClone(e, Result(e, "Ready")) PROVE Goal
      <3>1. Result(e, "Ready") \in Results
        BY Zenon, ResultsMade
      <3> HIDE DEF Fits
      <3> QED
        BY Zenon, <2>6, <3>1, WritesFit
    <2> QED
      BY Zenon, <1>1, <1>7, <2>3, <2>4, <2>5, <2>6 DEF ResumeFetch, RecordEnding, FinishClone
  <1>8. CASE HandleRequest
    BY Zenon, <1>1, <1>2, <1>8 DEF HandleRequest, BindRuntime, Acknowledge
  <1>9. CASE RecoveryPass \/ Executing \/ Stop \/ Exit \/ Crash \/ UNCHANGED vars
    BY Zenon, <1>1, <1>9 DEF RecoveryPass, Executing, BeginFetch, EndFetch, EndBackoff, SendStart, SettleRun,
                      InspectClone, Observes, Stop, Exit, Crash, Restarts, vars
  <1>10. CASE Starting
    BY Zenon, <1>1, <1>3, <1>10 DEF Starting, RefuseStarted, BeginClone
  <1>11. CASE RemoveTransport \/ ResumeBackoff
    BY Zenon, <1>1, <1>11 DEF RemoveTransport, ResumeBackoff
  <1>12. CASE \E e \in Execs : HostStarts(e) \/ RunEnds(e) \/ Disturb(e)
    BY Zenon, <1>1, <1>12 DEF HostStarts, RunEnds, Disturb
  <1>13. CASE RecordCleanup
    <2>1. work # Idle /\ work.todo # "remove"
      BY Zenon, <1>13 DEF RecordCleanup, Working
    <2>2. PICK e \in Execs : e = work.exec /\ Open(e)
      BY Zenon, <1>4, <2>1
    <2>3. BecomesUnknown(e) \/ rec' = rec
      BY Zenon, <1>13, <2>2 DEF RecordCleanup, Uncertain
    <2> HIDE DEF Fits
    <2> QED
      BY Zenon, <1>1, <2>2, <2>3, WritesFit
  <1> QED
    BY Zenon, <1>5, <1>6, <1>7, <1>8, <1>9, <1>10, <1>11, <1>12, <1>13 DEF Next, Handling

\* The outbox, the files and the counters keep their types.
LEMMA OutsideTypesStay ==
    ASSUME NodeInv, OutsideTypes, [Next]_vars
    PROVE  OutsideTypes'
  <1> USE DEF OutsideTypes, progress, files
  <1>1. work # Idle => work.exec \in Execs
    BY Zenon DEF NodeInv, MemoryTypeOK, Works
  <1>2. flight # Idle => flight.exec \in Execs
    BY Zenon DEF NodeInv, MemoryTypeOK, Flights
  <1>3. CASE HandleRequest
    BY Zenon, <1>3 DEF HandleRequest, BindRuntime, AcceptClone, Acknowledge
  <1>4. CASE Starting
    <2>1. PICK e \in Execs : RefuseReserved(e) \/ RefuseStarted(e) \/ BeginClone(e)
      BY Zenon, <1>4 DEF Starting
    <2>2. outbox' \subseteq outbox \cup {e} /\ transports' \subseteq transports
      BY Zenon, <2>1 DEF RefuseReserved, RefuseStarted, BeginClone, CompleteClone, Fails
    <2>3. UNCHANGED <<dirs, fetched, stopping>>
      BY Zenon, <2>1 DEF RefuseReserved, RefuseStarted, BeginClone, Takes
    <2> QED
      BY Zenon, <2>2, <2>3
  <1>5. CASE MakeDirectory
    BY Zenon, <1>1, <1>5 DEF MakeDirectory, Working, Uncertain, BecomesUnknown, Fails
  <1>6. CASE RecordDirectory \/ ContinueClone \/ DispatchStep \/ SettleClone \/ RemoveTransport
          \/ ResumeBackoff \/ RecordEnding \/ RecordCleanup
    <2>1. outbox' = outbox /\ transports' \subseteq transports
      BY Zenon, <1>6 DEF RecordDirectory, ContinueClone, DispatchStep, SettleClone, RemoveTransport,
                  ResumeBackoff, RecordEnding, RecordCleanup, Uncertain, BecomesUnknown, Advance,
                  CountFetch, Fails
    <2>2. UNCHANGED <<dirs, fetched, stopping>>
      BY Zenon, <1>6 DEF RecordDirectory, ContinueClone, DispatchStep, SettleClone, RemoveTransport,
                  ResumeBackoff, RecordEnding, RecordCleanup
    <2> QED
      BY Zenon, <2>1, <2>2
  <1>7. CASE ResumeFetch
    <2>1. outbox' = outbox /\ transports' \subseteq transports
      BY Zenon, <1>7 DEF ResumeFetch, BecomesUnknown, Advance
    <2>2. UNCHANGED <<dirs, fetched, stopping>>
      BY Zenon, <1>7 DEF ResumeFetch
    <2> QED
      BY Zenon, <2>1, <2>2
  <1>8. CASE FailClone
    BY Zenon, <1>1, <1>8 DEF FailClone, Working, CompleteClone
  <1>9. CASE FinishClone
    BY Zenon, <1>2, <1>9 DEF FinishClone, Seen, CompleteClone, BecomesUnknown
  <1>10. CASE Executing
    <2>1. UNCHANGED <<outbox, dirs, stopping>>
      BY Zenon, <1>10 DEF Executing, BeginFetch, EndFetch, EndBackoff, SendStart, SettleRun, InspectClone,
                   Observes
    <2>2. \/ UNCHANGED fetched /\ transports' \subseteq transports
          \/ BeginFetch
      BY Zenon, <1>10 DEF Executing, EndFetch, EndBackoff, SendStart, SettleRun, InspectClone
    <2>3. CASE BeginFetch
      BY <1>2, <2>1, <2>3 DEF BeginFetch, Outstanding
    <2> QED
      BY Zenon, <1>2, <2>1, <2>2, <2>3
  <1>11. CASE \E e \in Execs : HostStarts(e) \/ RunEnds(e) \/ Disturb(e)
    BY Zenon, <1>11 DEF HostStarts, RunEnds, Disturb
  <1>12. CASE RecoveryPass \/ Stop \/ UNCHANGED vars
    BY Zenon, <1>12 DEF RecoveryPass, Stop, vars
  <1>13. CASE Exit \/ Crash
    BY Zenon, <1>13 DEF Exit, Crash, Restarts
  <1> QED
    BY Zenon, <1>3, <1>4, <1>5, <1>6, <1>7, <1>8, <1>9, <1>10, <1>11, <1>12, <1>13 DEF Next, Handling

\* The records fit, and the rest has its type.
TypesInv == (\A e \in Execs : Fits(rec[e])) /\ OutsideTypes

\* A new home has no records.
LEMMA TypesStart == Init => TypesInv
  <1> SUFFICES ASSUME Init PROVE TypesInv
    BY Zenon
  <1>1. OutsideTypes
    BY Zenon DEF Init, OutsideTypes
  <1>2. Absent.n = 0 /\ Absent.phase = "Reserved" /\ Absent.mode = "Absent" /\ Absent.result = None
    BY Zenon DEF Absent
  <1>3. Fits(Absent)
    BY <1>2, BoundsOf DEF Fits
  <1> QED
    BY Zenon, <1>1, <1>3 DEF Init, TypesInv

\* The types stay through every step.
LEMMA TypesStep == NodeInv /\ TypesInv /\ [Next]_vars => TypesInv'
  <1> SUFFICES ASSUME NodeInv, TypesInv, [Next]_vars PROVE TypesInv'
    BY Zenon
  <1>1. \A e \in Execs : Fits(rec'[e])
    BY Zenon, RecordsFit DEF TypesInv
  <1>2. OutsideTypes'
    BY Zenon, OutsideTypesStay DEF TypesInv
  <1> QED
    BY Zenon, <1>1, <1>2 DEF TypesInv, Fits, Bound

-----------------------------------------------------------------------------
(* The journal of process Runs.                                             *)

Attempts == [ended : Ended \cup {"none"}, cleaned : BOOLEAN]

\* A Run that neither runs nor can start any more.
Over == Ended \cup {"sealed"}

\* The record r of an execution, its process attempts a and the host's Runs u agree.
Journal(r, a, u) ==
    /\ a \in Seq(Attempts) /\ u \in Seq(RunStates) /\ Len(u) = Len(a)
    /\ Len(a) \in IF r.phase = "Dispatched" THEN {r.n, r.n + 1} ELSE {0}
    /\ r.mode = "Absent" => r.phase = "Reserved"
    /\ \A i \in 1..Len(a) :
          /\ a[i].cleaned => u[i] \in Over
          /\ a[i].ended \in {"none", u[i]}
          /\ i < Len(a) \/ r.mode = "Completed" => a[i].cleaned

\* The current step has its Run.
Current(r, a) == r.phase = "Dispatched" /\ Len(a) = r.n + 1

\* What the executor answers of the current Run is so.
FlightJournal(f, r, a, u) ==
    /\ f.kind \in {"Fetch", "Backoff"} => r.phase = "Fetching"
    /\ f.kind \in {"Dispatch", "Settle"} =>
          /\ Current(r, a) /\ f.seen \in Ended \cup {"none", "error", "unverified"}
          /\ f.seen \in Ended => u[Len(u)] = f.seen
          /\ f.seen = "unverified" => u[Len(u)] \in Over

\* What the worker is about to write is so.
WorkJournal(w, r, a, u) ==
    /\ w.todo = "evidence" => r.phase = "Reserved"
    /\ w.todo = "dispatch" => r.phase = "Dispatched"
    /\ w.todo \in {"clean", "settle"} => Current(r, a)
    /\ w.todo = "clean" => u[Len(u)] \in Over
    /\ w.todo = "settle" => a[Len(a)].cleaned

JournalInv ==
    /\ attempts \in [Execs -> Seq(Attempts)] /\ runs \in [Execs -> Seq(RunStates)]
    /\ \A e \in Execs : Journal(rec[e], attempts[e], runs[e])
    /\ flight # Idle =>
          FlightJournal(flight, rec[flight.exec], attempts[flight.exec], runs[flight.exec])
    /\ work # Idle =>
          WorkJournal(work, rec[work.exec], attempts[work.exec], runs[work.exec])

-----------------------------------------------------------------------------
(* The journal of one execution, write by write.                            *)

\* The rows and the Runs are counted alike.
LEMMA JournalShape ==
    ASSUME NEW r, NEW a, NEW u, Journal(r, a, u)
    PROVE  /\ a \in Seq(Attempts) /\ u \in Seq(RunStates) /\ Len(a) \in Nat /\ Len(u) = Len(a)
           /\ DOMAIN a = 1..Len(a) /\ DOMAIN u = 1..Len(a)
           /\ r \in Recs /\ Current(r, a) => Len(a) \in 1..Len(a)
  <1>1. a \in Seq(Attempts) /\ u \in Seq(RunStates) /\ Len(u) = Len(a)
    BY Zenon DEF Journal
  <1>2. Len(a) \in Nat /\ DOMAIN a = 1..Len(a) /\ DOMAIN u = 1..Len(u)
    BY <1>1
  <1>3. r \in Recs /\ Current(r, a) => Len(a) \in 1..Len(a)
    <2> SUFFICES ASSUME r \in Recs, Current(r, a) PROVE Len(a) \in 1..Len(a)
      BY Zenon
    <2>1. r.n \in Nat /\ Len(a) = r.n + 1
      BY Zenon DEF Recs, Current
    <2> QED
      BY <2>1
  <1> QED
    BY Zenon, <1>1, <1>2, <1>3

\* advance_clone before the first dispatch.
LEMMA EarlyAdvance ==
    ASSUME NEW r \in Recs, NEW a, NEW u, Journal(r, a, u), r.phase # "Dispatched",
           NEW phase \in Phases, NEW n \in Nat, phase = "Dispatched" => n = 0
    PROVE  Journal(Pending(phase, n), a, u)
  <1>1. /\ Pending(phase, n).phase = phase /\ Pending(phase, n).n = n
        /\ Pending(phase, n).mode = "Pending"
    BY Zenon DEF Pending
  <1>2. Len(a) = 0
    BY Zenon DEF Journal
  <1> QED
    BY Zenon, <1>1, <1>2 DEF Journal

\* advance_clone to the next step.
LEMMA StepAdvance ==
    ASSUME NEW r \in Recs, NEW a, NEW u, Journal(r, a, u), Current(r, a)
    PROVE  Journal(Pending("Dispatched", r.n + 1), a, u)
  <1> DEFINE q == Pending("Dispatched", r.n + 1)
  <1>1. q.phase = "Dispatched" /\ q.n = r.n + 1 /\ q.mode = "Pending"
    BY Zenon DEF Pending
  <1> HIDE DEF q
  <1>2. Len(a) \in IF q.phase = "Dispatched" THEN {q.n, q.n + 1} ELSE {0}
    BY Zenon, <1>1 DEF Current
  <1>3. \A i \in 1..Len(a) :
          /\ a[i].cleaned => u[i] \in Over
          /\ a[i].ended \in {"none", u[i]}
          /\ i < Len(a) \/ q.mode = "Completed" => a[i].cleaned
    BY Zenon, <1>1 DEF Journal
  <1>4. a \in Seq(Attempts) /\ u \in Seq(RunStates) /\ Len(u) = Len(a)
    BY Zenon DEF Journal
  <1>5. Journal(q, a, u)
    BY Zenon, <1>1, <1>2, <1>3, <1>4 DEF Journal
  <1> QED
    BY Zenon, <1>5 DEF q

\* unknown_clone keeps the phase.
LEMMA UnknownKeeps ==
    ASSUME NEW r \in Recs, NEW a, NEW u, Journal(r, a, u)
    PROVE  Journal([r EXCEPT !.mode = "Unknown"], a, u)
  <1> DEFINE q == [r EXCEPT !.mode = "Unknown"]
  <1>1. q.phase = r.phase /\ q.n = r.n /\ q.mode = "Unknown"
    BY Zenon DEF Recs
  <1> HIDE DEF q
  <1> QED
    BY <1>1 DEF Journal

\* complete_clone wants every Run cleaned.
LEMMA CompletionKeeps ==
    ASSUME NEW r \in Recs, NEW a, NEW u, Journal(r, a, u), r.mode # "Absent", NEW result,
           \A i \in DOMAIN a : a[i].cleaned
    PROVE  Journal([r EXCEPT !.mode = "Completed", !.result = result], a, u)
  <1> DEFINE q == [r EXCEPT !.mode = "Completed", !.result = result]
  <1>1. q.phase = r.phase /\ q.n = r.n /\ q.mode = "Completed"
    BY Zenon DEF Recs
  <1>2. DOMAIN a = 1..Len(a)
    BY Zenon, JournalShape
  <1> HIDE DEF q
  <1> QED
    BY <1>1, <1>2 DEF Journal

\* ProcessJournal::record.
LEMMA RecordKeeps ==
    ASSUME NEW r \in Recs, NEW a, NEW u, Journal(r, a, u), r.phase = "Dispatched", Len(a) = r.n,
           r.mode # "Completed", \A i \in DOMAIN a : a[i].cleaned
    PROVE  LET b == Append(a, [ended |-> "none", cleaned |-> FALSE])
           IN  Journal(r, b, Append(u, "unstarted")) /\ Current(r, b)
  <1> DEFINE new == [ended |-> "none", cleaned |-> FALSE]
             b == Append(a, new)
             v == Append(u, "unstarted")
  <1>1. a \in Seq(Attempts) /\ u \in Seq(RunStates) /\ Len(u) = Len(a) /\ r.n \in Nat
    BY Zenon DEF Journal, Recs
  <1>2. new \in Attempts /\ new.cleaned = FALSE /\ new.ended = "none" /\ "unstarted" \in RunStates
    BY Zenon DEF Attempts, RunStates
  <1> HIDE DEF new
  <1>3. /\ b \in Seq(Attempts) /\ Len(b) = Len(a) + 1 /\ b[Len(a) + 1] = new
        /\ \A i \in 1..Len(a) : b[i] = a[i]
    BY <1>1, <1>2
  <1>4. /\ v \in Seq(RunStates) /\ Len(v) = Len(u) + 1
        /\ \A i \in 1..Len(u) : v[i] = u[i]
    BY <1>1, <1>2
  <1> HIDE DEF b, v
  <1>5. ASSUME NEW i \in 1..Len(b)
        PROVE  /\ b[i].cleaned => v[i] \in Over
               /\ b[i].ended \in {"none", v[i]}
               /\ i < Len(b) \/ r.mode = "Completed" => b[i].cleaned
    <2>1. CASE i = Len(a) + 1
      BY <1>1, <1>2, <1>3, <2>1
    <2>2. CASE i # Len(a) + 1
      <3>1. i \in 1..Len(a)
        BY <1>1, <1>3, <2>2
      <3>2. b[i] = a[i] /\ v[i] = u[i]
        BY Zenon, <1>1, <1>3, <1>4, <3>1
      <3>3. a[i].cleaned
        BY <1>1, <3>1
      <3> QED
        BY Zenon, <3>1, <3>2, <3>3 DEF Journal
    <2> QED
      BY Zenon, <2>1, <2>2
  <1>6. Len(b) = r.n + 1 /\ Len(v) = Len(b)
    BY Zenon, <1>1, <1>3, <1>4
  <1>7. Journal(r, b, v) /\ Current(r, b)
    BY Zenon, <1>1, <1>3, <1>4, <1>5, <1>6 DEF Journal, Current
  <1> QED
    BY Zenon, <1>7 DEF b, v, new

\* record_process_outcome and record_process_termination write the last row.
LEMMA RowKeeps ==
    ASSUME NEW r \in Recs, NEW a, NEW u, Journal(r, a, u), Current(r, a), r.mode # "Completed",
           NEW row \in Attempts, row.cleaned => u[Len(u)] \in Over,
           row.ended \in {"none", u[Len(u)]}
    PROVE  LET b == [a EXCEPT ![Len(a)] = row]
           IN  Journal(r, b, u) /\ Current(r, b) /\ b[Len(b)] = row
  <1> DEFINE b == [a EXCEPT ![Len(a)] = row]
  <1>1. /\ a \in Seq(Attempts) /\ u \in Seq(RunStates) /\ Len(u) = Len(a) /\ r.n \in Nat
        /\ Len(a) = r.n + 1 /\ Len(a) \in 1..Len(a)
    BY DEF Journal, Recs, Current
  <1>2. /\ b \in Seq(Attempts) /\ Len(b) = Len(a) /\ b[Len(a)] = row
        /\ \A i \in 1..Len(a) : i # Len(a) => b[i] = a[i]
    BY <1>1
  <1> HIDE DEF b
  <1>3. ASSUME NEW i \in 1..Len(b)
        PROVE  /\ b[i].cleaned => u[i] \in Over
               /\ b[i].ended \in {"none", u[i]}
               /\ i < Len(b) \/ r.mode = "Completed" => b[i].cleaned
    <2>1. CASE i = Len(a)
      BY <1>1, <1>2, <2>1
    <2>2. CASE i # Len(a)
      BY Zenon, <1>1, <1>2, <2>2 DEF Journal
    <2> QED
      BY Zenon, <2>1, <2>2
  <1>4. Journal(r, b, u) /\ Current(r, b) /\ b[Len(b)] = row
    BY Zenon, <1>1, <1>2, <1>3 DEF Journal, Current
  <1> QED
    BY Zenon, <1>4 DEF b

\* A Run of the host moves on while it is not over; no row speaks of it yet.
LEMMA RunKeeps ==
    ASSUME NEW r \in Recs, NEW a, NEW u, Journal(r, a, u), NEW i \in 1..Len(u),
           NEW x \in RunStates, u[i] \in Over => x = u[i]
    PROVE  LET v == [u EXCEPT ![i] = x]
           IN  /\ Journal(r, a, v) /\ Len(v) = Len(u) /\ v[i] = x
               /\ \A j \in 1..Len(u) : u[j] \in Over => v[j] = u[j]
  <1> DEFINE v == [u EXCEPT ![i] = x]
  <1>1. a \in Seq(Attempts) /\ u \in Seq(RunStates) /\ Len(u) = Len(a)
    BY Zenon DEF Journal
  <1>2. /\ v \in Seq(RunStates) /\ Len(v) = Len(u) /\ v[i] = x
        /\ \A j \in 1..Len(u) : j # i => v[j] = u[j]
    BY <1>1
  <1> HIDE DEF v
  <1>3. \A j \in 1..Len(u) : u[j] \in Over => v[j] = u[j]
    BY Zenon, <1>2
  <1>4. ASSUME NEW j \in 1..Len(a)
        PROVE  (a[j].cleaned => v[j] \in Over) /\ a[j].ended \in {"none", v[j]}
    <2>1. (a[j].cleaned => u[j] \in Over) /\ a[j].ended \in {"none", u[j]}
      BY Zenon DEF Journal
    <2>2. a[j].ended \in Ended \cup {"none"}
      <3>1. a[j] \in Attempts
        BY <1>1
      <3> QED
        BY Zenon, <3>1 DEF Attempts
    <2>3. CASE u[j] \in Over
      BY Zenon, <1>1, <1>3, <2>1, <2>3
    <2>4. CASE u[j] \notin Over
      BY Zenon, <2>1, <2>2, <2>4 DEF Over
    <2> QED
      BY Zenon, <2>3, <2>4
  <1>5. Journal(r, a, v)
    BY Zenon, <1>1, <1>2, <1>4 DEF Journal
  <1> QED
    BY Zenon, <1>2, <1>3, <1>5 DEF v

-----------------------------------------------------------------------------
(* The journal through every step of the Node.                              *)

\* A step that concerns execution e alone.
LEMMA JournalStep ==
    ASSUME NodeInv, JournalInv, NEW e \in Execs,
           attempts' \in [Execs -> Seq(Attempts)], runs' \in [Execs -> Seq(RunStates)],
           \A d \in Execs : d # e =>
              rec'[d] = rec[d] /\ attempts'[d] = attempts[d] /\ runs'[d] = runs[d],
           Journal(rec'[e], attempts'[e], runs'[e]),
           flight' # Idle =>
              \/ flight' = flight /\ flight.exec # e
              \/ flight'.exec = e /\ FlightJournal(flight', rec'[e], attempts'[e], runs'[e]),
           work' # Idle =>
              \/ work' = work /\ work.exec # e
              \/ work'.exec = e /\ WorkJournal(work', rec'[e], attempts'[e], runs'[e])
    PROVE  JournalInv'
  <1> USE DEF JournalInv
  <1>1. \A d \in Execs : Journal(rec'[d], attempts'[d], runs'[d])
    BY ONLY Zenon, JournalInv, \A d \in Execs : d # e =>
              rec'[d] = rec[d] /\ attempts'[d] = attempts[d] /\ runs'[d] = runs[d],
           Journal(rec'[e], attempts'[e], runs'[e]), e \in Execs
  <1>2. flight' # Idle =>
          FlightJournal(flight', rec'[flight'.exec], attempts'[flight'.exec], runs'[flight'.exec])
    <2>1. flight # Idle => flight.exec \in Execs
      BY Zenon DEF NodeInv, MemoryTypeOK, Flights
    <2> QED
      BY Zenon, <2>1
  <1>3. work' # Idle =>
          WorkJournal(work', rec'[work'.exec], attempts'[work'.exec], runs'[work'.exec])
    <2>1. work # Idle => work.exec \in Execs
      BY Zenon DEF NodeInv, MemoryTypeOK, Works
    <2> QED
      BY Zenon, <2>1
  <1> QED
    BY Zenon, <1>1, <1>2, <1>3

\* A step that writes the record of e and no process row.
LEMMA RecordStep ==
    ASSUME NodeInv, JournalInv, NEW e \in Execs, NEW r, UNCHANGED <<attempts, runs>>,
           rec' = [rec EXCEPT ![e] = r], Journal(r, attempts[e], runs[e]),
           flight' # Idle =>
              \/ flight' = flight /\ flight.exec # e
              \/ flight'.exec = e /\ FlightJournal(flight', r, attempts[e], runs[e]),
           work' # Idle => work'.exec = e /\ WorkJournal(work', r, attempts[e], runs[e])
    PROVE  JournalInv'
  <1>1. rec'[e] = r /\ \A d \in Execs : d # e => rec'[d] = rec[d]
    BY Zenon DEF NodeInv, MemoryTypeOK
  <1>2. attempts' \in [Execs -> Seq(Attempts)] /\ runs' \in [Execs -> Seq(RunStates)]
    BY Zenon DEF JournalInv
  <1> QED
    BY Zenon, <1>1, <1>2, JournalStep

\* What the worker goes on with without reading the journal.
LEMMA QuietWork ==
    ASSUME NEW e, NEW with, NEW r, NEW a, NEW u, NEW todo \in {"continue", "fail", "remove"}
    PROVE  Do(e, todo, with).exec = e /\ WorkJournal(Do(e, todo, with), r, a, u)
  BY Zenon DEF Do, WorkJournal

\* A submitted step has no answer yet.
LEMMA FlightFields ==
    ASSUME NEW e, NEW kind
    PROVE  /\ Submitted(e, kind).exec = e /\ Submitted(e, kind).kind = kind
           /\ Submitted(e, kind).seen = "none"
  BY Zenon DEF Submitted

\* The worker's transactions on an execution, the process rows apart: drive.rs.
LEMMA WorkerKeepsJournal ==
    ASSUME NodeInv, JournalInv,
           \/ MakeDirectory \/ RecordDirectory \/ ContinueClone \/ SettleClone
           \/ FailClone \/ RemoveTransport
    PROVE  JournalInv'
  <1> USE DEF journal, progress
  <1>1. work # Idle /\ UNCHANGED <<attempts, runs>>
    BY Zenon DEF MakeDirectory, RecordDirectory, ContinueClone, SettleClone, FailClone, RemoveTransport,
           Working
  <1>2. work \in Works /\ flight = Idle /\ (work.todo # "remove" => Open(work.exec))
    BY Zenon, <1>1 DEF NodeInv, MemoryTypeOK, WorkInv
  <1>3. PICK e \in Execs : e = work.exec
    BY Zenon, <1>2 DEF Works
  <1> DEFINE a == attempts[e]
             u == runs[e]
  <1>4. /\ Journal(rec[e], a, u) /\ WorkJournal(work, rec[e], a, u)
        /\ rec[e] \in Recs /\ rec[e].n \in Nat
    BY Zenon, <1>1, <1>3, RecordWrites DEF JournalInv, Recs
  <1> DEFINE Quiet == \/ work' = Idle /\ flight' = Idle
                      \/ /\ flight' = Idle
                         /\ \E todo \in {"continue", "fail", "remove"} : \E with : work' = Do(e, todo, with)
  <1>5. ASSUME NEW r, Journal(r, a, u), rec' = [rec EXCEPT ![e] = r], Quiet PROVE JournalInv'
    <2>1. work' # Idle => work'.exec = e /\ WorkJournal(work', r, a, u)
      BY <1>5, QuietWork
    <2>2. flight' = Idle
      BY Zenon, <1>5
    <2> HIDE DEF Quiet
    <2> QED
      BY Zenon, <1>1, <1>5, <2>1, <2>2, RecordStep
  <1>6. ASSUME Uncertain(e) PROVE JournalInv'
    <2>1. Quiet
      BY Zenon, <1>2, <1>6 DEF Uncertain, Rests
    <2>2. rec' = [rec EXCEPT ![e] = [rec[e] EXCEPT !.mode = "Unknown"]]
      BY Zenon, <1>6, RecordWrites DEF Uncertain
    <2>3. Journal([rec[e] EXCEPT !.mode = "Unknown"], a, u)
      BY Zenon, <1>4, UnknownKeeps
    <2> HIDE DEF Quiet
    <2> QED
      BY Zenon, <1>5, <2>1, <2>2, <2>3
  <1>7. ASSUME rec' = rec, Quiet PROVE JournalInv'
    BY Zenon, <1>4, <1>5, <1>7, SameRecord
  <1>8. ASSUME NEW kind, Fails(e, kind), rec' = rec PROVE JournalInv'
    <2>1. Quiet
      BY Zenon, <1>2, <1>8 DEF Fails, Goes
    <2> QED
      BY Zenon, <1>7, <1>8, <2>1
  <1>9. ASSUME NEW r, Journal(r, a, u), rec' = [rec EXCEPT ![e] = r], NEW todo, Goes(e, todo, ""),
               WorkJournal(Do(e, todo, ""), r, a, u)
        PROVE  JournalInv'
    <2>1. flight' = Idle /\ work' = Do(e, todo, "") /\ work'.exec = e
      BY Zenon, <1>2, <1>9 DEF Goes, Do
    <2> QED
      BY Zenon, <1>1, <1>9, <2>1, RecordStep
  <1>10. ASSUME NEW r, Journal(r, a, u), rec' = [rec EXCEPT ![e] = r], NEW kind, Submits(e, kind),
                FlightJournal(Submitted(e, kind), r, a, u)
         PROVE  JournalInv'
    <2>1. work' = Idle /\ flight' = Submitted(e, kind) /\ flight'.exec = e
      BY Zenon, <1>10, FlightFields DEF Submits
    <2> QED
      BY Zenon, <1>1, <1>10, <2>1, RecordStep
  <1>11. CASE MakeDirectory
    <2>1. CASE rec' = rec /\ Rests
      <3>1. Quiet
        BY Zenon, <1>2, <2>1 DEF Rests
      <3> QED
        BY Zenon, <1>7, <2>1, <3>1
    <2>2. CASE rec[e].phase = "Reserved" /\ rec' = rec /\ Goes(e, "evidence", "")
      <3>1. WorkJournal(Do(e, "evidence", ""), rec[e], a, u)
        BY Zenon, <2>2 DEF WorkJournal, Do
      <3> QED
        BY Zenon, <1>4, <1>9, <2>2, <3>1, SameRecord
    <2>3. CASE Fails(e, "OperationFailed") /\ rec' = rec
      BY Zenon, <1>8, <2>3
    <2> QED
      BY Zenon, <1>3, <1>6, <1>11, <2>1, <2>2, <2>3 DEF MakeDirectory
  <1>12. CASE RecordDirectory
    <2>1. CASE Advance(e, "DirectoryCreated", 0) /\ Goes(e, "continue", "")
      <3>1. rec[e].phase = "Reserved"
        BY Zenon, <1>4, <1>12 DEF RecordDirectory, Working, WorkJournal
      <3>2. Journal(Pending("DirectoryCreated", 0), a, u)
        BY Zenon, <1>4, <3>1, EarlyAdvance DEF Phases
      <3>3. WorkJournal(Do(e, "continue", ""), Pending("DirectoryCreated", 0), a, u)
        BY Zenon, QuietWork
      <3>4. rec' = [rec EXCEPT ![e] = Pending("DirectoryCreated", 0)]
        BY Zenon, <2>1 DEF Advance
      <3> QED
        BY Zenon, <1>9, <2>1, <3>2, <3>3, <3>4
    <2> QED
      BY Zenon, <1>3, <1>6, <1>12, <2>1 DEF RecordDirectory
  <1>13. CASE ContinueClone
    <2>1. ASSUME NEW n \in Nat, CountFetch(e, n), rec[e].phase \in {"DirectoryCreated", "Fetching"}
          PROVE  JournalInv'
      <3>1. Journal(Pending("Fetching", n), a, u)
        BY Zenon, <1>4, <2>1, EarlyAdvance DEF Phases
      <3>2. FlightJournal(Submitted(e, "Fetch"), Pending("Fetching", n), a, u)
        BY Zenon, FlightFields DEF FlightJournal, Pending
      <3>3. rec' = [rec EXCEPT ![e] = Pending("Fetching", n)] /\ Submits(e, "Fetch")
        BY Zenon, <2>1 DEF CountFetch, Advance
      <3> QED
        BY Zenon, <1>10, <3>1, <3>2, <3>3
    <2>2. CASE rec[e].phase = "Dispatched" /\ Goes(e, "dispatch", "") /\ rec' = rec
      <3>1. WorkJournal(Do(e, "dispatch", ""), rec[e], a, u)
        BY Zenon, <2>2 DEF WorkJournal, Do
      <3> QED
        BY Zenon, <1>4, <1>9, <2>2, <3>1, SameRecord
    <2>3. rec[e].n + 1 \in Nat /\ 1 \in Nat
      BY <1>4
    <2> QED
      BY Zenon, <1>3, <1>6, <1>8, <1>13, <2>1, <2>2, <2>3 DEF ContinueClone
  <1>14. CASE SettleClone
    <2>1. Current(rec[e], a)
      BY Zenon, <1>4, <1>14 DEF SettleClone, Working, WorkJournal
    <2>2. CASE Advance(e, "Dispatched", rec[e].n + 1) /\ Goes(e, "dispatch", "")
      <3>1. Journal(Pending("Dispatched", rec[e].n + 1), a, u)
        BY Zenon, <1>4, <2>1, StepAdvance
      <3>2. WorkJournal(Do(e, "dispatch", ""), Pending("Dispatched", rec[e].n + 1), a, u)
        BY Zenon DEF WorkJournal, Do, Pending
      <3>3. rec' = [rec EXCEPT ![e] = Pending("Dispatched", rec[e].n + 1)]
        BY Zenon, <2>2 DEF Advance
      <3> QED
        BY Zenon, <1>9, <2>2, <3>1, <3>2, <3>3
    <2>3. CASE Submits(e, "Inspect") /\ rec' = rec
      <3>1. FlightJournal(Submitted(e, "Inspect"), rec[e], a, u)
        BY FlightFields DEF FlightJournal
      <3> QED
        BY Zenon, <1>4, <1>10, <2>3, <3>1, SameRecord
    <2> QED
      BY Zenon, <1>3, <1>6, <1>8, <1>14, <2>2, <2>3 DEF SettleClone
  <1>15. CASE FailClone
    <2>1. Quiet /\ CompleteClone(e, Result(e, work.with))
      BY Zenon, <1>2, <1>3, <1>15 DEF FailClone, Rests
    <2>2. rec[e].mode # "Absent"
      BY Zenon, <1>2, <1>3, <1>15 DEF FailClone, Working, Open
    <2> HIDE DEF Quiet
    <2> QED
      BY Zenon, <1>4, <1>5, <2>1, <2>2, RecordWrites, CompletionKeeps
  <1>16. CASE RemoveTransport
    <2>1. Quiet /\ rec' = rec
      BY Zenon, <1>2, <1>16 DEF RemoveTransport, Rests
    <2> QED
      BY Zenon, <1>7, <2>1
  <1> QED
    BY Zenon, <1>11, <1>12, <1>13, <1>14, <1>15, <1>16

\* begin_clone, and the requests that write a record.
LEMMA BeginningsKeepJournal ==
    ASSUME NodeInv, JournalInv, NEW e \in Execs,
           \/ RefuseReserved(e) \/ RefuseStarted(e) \/ BeginClone(e)
           \/ \E p : work = Idle /\ AcceptClone(e, p)
    PROVE  JournalInv'
  <1> USE DEF journal, progress
  <1>1. work = Idle /\ UNCHANGED <<attempts, runs>>
    BY Zenon DEF RefuseReserved, RefuseStarted, BeginClone, Takes, AcceptClone
  <1> DEFINE a == attempts[e]
             u == runs[e]
  <1>2. Journal(rec[e], a, u) /\ rec[e] \in Recs
    BY Zenon, RecordWrites DEF JournalInv
  <1>3. ASSUME Takes(e) PROVE flight = Idle /\ Open(e) /\ rec[e].mode # "Absent"
    BY Zenon, <1>3 DEF Takes, NodeInv, RecordsInv, Open
  <1>4. CASE RefuseReserved(e)
    <2>1. /\ flight' = Idle /\ work' = Idle /\ rec[e].mode # "Absent"
          /\ CompleteClone(e, Result(e, "OperationFailed"))
      BY Zenon, <1>3, <1>4 DEF RefuseReserved, Rests
    <2> QED
      BY Zenon, <1>1, <1>2, <2>1, RecordWrites, CompletionKeeps, RecordStep
  <1>5. ASSUME NEW todo \in {"continue", "fail"}, NEW with, rec' = rec, flight' = Idle,
               work' = Do(e, todo, with)
        PROVE  JournalInv'
    <2>1. work'.exec = e /\ WorkJournal(work', rec[e], a, u)
      BY Zenon, <1>5, QuietWork
    <2> QED
      BY Zenon, <1>1, <1>2, <1>5, <2>1, SameRecord, RecordStep
  <1>6. ASSUME rec' = rec, flight' = Idle, work' = Idle PROVE JournalInv'
    BY Zenon, <1>1, <1>2, <1>6, SameRecord, RecordStep
  <1>7. CASE RefuseStarted(e)
    <2>1. flight = Idle /\ rec' = rec
      BY Zenon, <1>3, <1>7 DEF RefuseStarted
    <2>2. CASE Fails(e, "OperationFailed")
      BY Zenon, <1>5, <2>1, <2>2 DEF Fails, Goes
    <2>3. CASE Rests
      BY Zenon, <1>6, <2>1, <2>3 DEF Rests
    <2> QED
      BY Zenon, <1>7, <2>2, <2>3 DEF RefuseStarted
  <1>8. CASE BeginClone(e)
    <2>1. flight = Idle /\ rec' = rec
      BY Zenon, <1>3, <1>8 DEF BeginClone
    <2>2. CASE Goes(e, "continue", "")
      BY Zenon, <1>5, <2>1, <2>2 DEF Goes
    <2>3. CASE Rests
      BY Zenon, <1>6, <2>1, <2>3 DEF Rests
    <2>4. CASE rec[e].phase = "Dispatched" /\ Len(a) = rec[e].n + 1 /\ Submits(e, "Settle")
      <3>1. work' = Idle /\ flight' = Submitted(e, "Settle") /\ flight'.exec = e
        BY Zenon, <2>4, FlightFields DEF Submits
      <3>2. FlightJournal(flight', rec[e], a, u)
        BY <2>4, <3>1, FlightFields DEF FlightJournal, Current, Ended
      <3> QED
        BY Zenon, <1>1, <1>2, <2>1, <3>1, <3>2, SameRecord, RecordStep
    <2> QED
      BY Zenon, <1>8, <2>2, <2>3, <2>4 DEF BeginClone
  <1>9. ASSUME NEW p, work = Idle, AcceptClone(e, p) PROVE JournalInv'
    <2>1. rec' = [rec EXCEPT ![e] = Pending("Reserved", 0)] /\ flight' = flight /\ work' = Idle
      BY Zenon, <1>9 DEF AcceptClone
    <2>2. rec[e].mode = "Absent"
      BY Zenon, <1>9, OpenStates DEF AcceptClone, Ledger!Accepts, NodeInv, MemoryTypeOK
    <2>3. rec[e].phase = "Reserved"
      BY Zenon, <1>2, <2>2 DEF Journal
    <2>4. Journal(Pending("Reserved", 0), a, u)
      BY Zenon, <1>2, <2>3, EarlyAdvance DEF Phases
    <2>5. flight' # Idle => flight' = flight /\ flight.exec # e
      BY Zenon, <2>1, <2>2 DEF NodeInv, FlightInv, Open
    <2> QED
      BY Zenon, <1>1, <2>1, <2>4, <2>5, RecordStep
  <1> QED
    BY Zenon, <1>4, <1>7, <1>8, <1>9

\* resume_clone, the process rows apart.
LEMMA AnswersKeepJournal ==
    ASSUME NodeInv, JournalInv, ResumeFetch \/ ResumeBackoff \/ FinishClone
    PROVE  JournalInv'
  <1> USE DEF journal, progress
  <1>1. work = Idle /\ flight # Idle /\ UNCHANGED <<attempts, runs>>
    BY Zenon DEF ResumeFetch, ResumeBackoff, FinishClone, Seen
  <1>2. flight \in Flights /\ Open(flight.exec)
    BY Zenon, <1>1 DEF NodeInv, MemoryTypeOK, FlightInv
  <1>3. PICK e \in Execs : e = flight.exec
    BY Zenon, <1>2 DEF Flights
  <1> DEFINE a == attempts[e]
             u == runs[e]
  <1>4. /\ Journal(rec[e], a, u) /\ FlightJournal(flight, rec[e], a, u) /\ rec[e] \in Recs
    BY Zenon, <1>1, <1>3, RecordWrites DEF JournalInv
  <1>5. ASSUME NEW r, Journal(r, a, u), rec' = [rec EXCEPT ![e] = r], flight' = Idle,
               \/ work' = Idle
               \/ \E todo \in {"continue", "fail", "remove"} : \E with : work' = Do(e, todo, with)
        PROVE  JournalInv'
    <2>1. work' # Idle => work'.exec = e /\ WorkJournal(work', r, a, u)
      BY <1>5, QuietWork
    <2> QED
      BY Zenon, <1>1, <1>5, <2>1, RecordStep
  <1>6. ASSUME BecomesUnknown(e), flight' = Idle,
               \/ work' = Idle
               \/ \E todo \in {"continue", "fail", "remove"} : \E with : work' = Do(e, todo, with)
        PROVE  JournalInv'
    <2>1. /\ rec' = [rec EXCEPT ![e] = [rec[e] EXCEPT !.mode = "Unknown"]]
          /\ Journal([rec[e] EXCEPT !.mode = "Unknown"], a, u)
      BY Zenon, <1>4, <1>6, RecordWrites, UnknownKeeps
    <2> QED
      BY Zenon, <1>5, <1>6, <2>1
  <1>7. ASSUME rec' = rec, flight' = Idle,
               \/ work' = Idle
               \/ \E todo \in {"continue", "fail", "remove"} : \E with : work' = Do(e, todo, with)
        PROVE  JournalInv'
    BY Zenon, <1>4, <1>5, <1>7, SameRecord
  <1>8. CASE ResumeFetch
    <2>1. rec[e].phase = "Fetching"
      BY Zenon, <1>4, <1>8 DEF ResumeFetch, Seen, FlightJournal
    <2>2. CASE Advance(e, "Dispatched", 0) /\ flight' = Idle /\ work' = Do(e, "dispatch", "")
      <3>1. Journal(Pending("Dispatched", 0), a, u)
        BY Zenon, <1>4, <2>1, EarlyAdvance DEF Phases
      <3>2. work'.exec = e /\ WorkJournal(work', Pending("Dispatched", 0), a, u)
        BY Zenon, <2>2 DEF WorkJournal, Do, Pending
      <3>3. rec' = [rec EXCEPT ![e] = Pending("Dispatched", 0)]
        BY Zenon, <2>2 DEF Advance
      <3> QED
        BY Zenon, <1>1, <2>2, <3>1, <3>2, <3>3, RecordStep
    <2>3. CASE rec' = rec /\ flight' = Submitted(e, "Backoff") /\ work' = work
      <3>1. flight'.exec = e /\ FlightJournal(flight', rec[e], a, u)
        BY Zenon, <2>1, <2>3, FlightFields DEF FlightJournal
      <3> QED
        BY Zenon, <1>1, <1>4, <2>3, <3>1, SameRecord, RecordStep
    <2> QED
      BY Zenon, <1>1, <1>3, <1>6, <1>7, <1>8, <2>2, <2>3 DEF ResumeFetch
  <1>9. CASE ResumeBackoff
    BY Zenon, <1>1, <1>3, <1>7, <1>9 DEF ResumeBackoff
  <1>10. CASE FinishClone
    <2>1. rec[e].mode # "Absent"
      BY Zenon, <1>2, <1>3 DEF Open
    <2>2. ASSUME NEW result, CompleteClone(e, result), flight' = Idle, work' = Do(e, "remove", "")
          PROVE  JournalInv'
      BY Zenon, <1>4, <1>5, <2>1, <2>2, RecordWrites, CompletionKeeps
    <2> QED
      BY Zenon, <1>3, <1>6, <1>10, <2>2 DEF FinishClone
  <1> QED
    BY Zenon, <1>8, <1>9, <1>10

\* ProcessJournal::record, persist_settlement and the cleanup that follows it.
LEMMA RowsKeepJournal ==
    ASSUME NodeInv, JournalInv, DispatchStep \/ RecordEnding \/ RecordCleanup
    PROVE  JournalInv'
  <1> USE DEF journal, progress
  <1>1. CASE DispatchStep
    <2>1. work \in Works /\ flight = Idle /\ Open(work.exec) /\ work # Idle /\ work.todo = "dispatch"
      BY Zenon, <1>1 DEF NodeInv, MemoryTypeOK, WorkInv, DispatchStep, Working
    <2>2. PICK e \in Execs : e = work.exec
      BY Zenon, <2>1 DEF Works
    <2>3. /\ Journal(rec[e], attempts[e], runs[e]) /\ rec[e] \in Recs
          /\ rec[e].phase = "Dispatched" /\ rec[e].mode # "Completed"
      BY Zenon, <2>1, <2>2, RecordWrites DEF JournalInv, WorkJournal, Open
    <2> DEFINE Drops == Uncertain(e) /\ UNCHANGED <<attempts, runs>>
    <2>4. CASE Drops
      <3>1. work' = Idle /\ flight' = Idle /\ BecomesUnknown(e) /\ UNCHANGED <<attempts, runs>>
        BY Zenon, <2>1, <2>4 DEF Uncertain, Rests
      <3>2. /\ rec' = [rec EXCEPT ![e] = [rec[e] EXCEPT !.mode = "Unknown"]]
            /\ Journal([rec[e] EXCEPT !.mode = "Unknown"], attempts[e], runs[e])
        BY Zenon, <2>3, <3>1, RecordWrites, UnknownKeeps
      <3> QED
        BY Zenon, <3>1, <3>2, RecordStep
    <2>5. CASE ~Drops
      <3> DEFINE b == Append(attempts[e], [ended |-> "none", cleaned |-> FALSE])
                 v == Append(runs[e], "unstarted")
      <3>1. /\ attempts' = [attempts EXCEPT ![e] = b] /\ runs' = [runs EXCEPT ![e] = v]
            /\ Submits(e, "Dispatch") /\ rec' = rec /\ Recordable(e)
        BY Zenon, <1>1, <2>2, <2>5 DEF DispatchStep
      <3>2. Journal(rec[e], b, v) /\ Current(rec[e], b)
        BY Zenon, <2>3, <3>1, RecordKeeps DEF Recordable
      <3> HIDE DEF b, v
      <3>3. b \in Seq(Attempts) /\ v \in Seq(RunStates)
        BY Zenon, <3>2 DEF Journal
      <3>4. attempts' \in [Execs -> Seq(Attempts)] /\ runs' \in [Execs -> Seq(RunStates)]
        BY Zenon, <3>1, <3>3 DEF JournalInv
      <3>5. /\ attempts'[e] = b /\ runs'[e] = v /\ rec'[e] = rec[e]
            /\ \A d \in Execs : d # e =>
                  rec'[d] = rec[d] /\ attempts'[d] = attempts[d] /\ runs'[d] = runs[d]
        BY Zenon, <3>1 DEF JournalInv
      <3>6. work' = Idle /\ flight'.exec = e /\ FlightJournal(flight', rec[e], b, v)
        BY <3>1, <3>2, FlightFields DEF Submits, FlightJournal, Ended
      <3> QED
        BY Zenon, <3>2, <3>4, <3>5, <3>6, JournalStep
    <2> QED
      BY Zenon, <2>4, <2>5
  \* One row of the last Run changes.
  <1>2. ASSUME NEW e \in Execs, NEW row \in Attempts, Current(rec[e], attempts[e]), Open(e), rec' = rec,
               row.cleaned => runs[e][Len(runs[e])] \in Over,
               row.ended \in {"none", runs[e][Len(runs[e])]},
               attempts' = [attempts EXCEPT ![e] = [attempts[e] EXCEPT ![Len(attempts[e])] = row]],
               runs' = runs, flight' = Idle, NEW with,
               \/ work' = Do(e, "clean", with) /\ runs[e][Len(runs[e])] \in Over
               \/ work' = Do(e, "settle", with) /\ row.cleaned
        PROVE  JournalInv'
    <2> DEFINE b == [attempts[e] EXCEPT ![Len(attempts[e])] = row]
    <2>1. Journal(rec[e], attempts[e], runs[e]) /\ rec[e] \in Recs /\ rec[e].mode # "Completed"
      BY Zenon, <1>2, RecordWrites DEF JournalInv, Open
    <2>2. Journal(rec[e], b, runs[e]) /\ Current(rec[e], b) /\ b[Len(b)] = row
      BY <1>2, <2>1, RowKeeps
    <2>3. attempts' = [attempts EXCEPT ![e] = b]
      BY Zenon, <1>2
    <2> HIDE DEF b
    <2>4. b \in Seq(Attempts)
      BY Zenon, <2>2 DEF Journal
    <2>5. attempts' \in [Execs -> Seq(Attempts)] /\ runs' \in [Execs -> Seq(RunStates)]
      BY Zenon, <1>2, <2>3, <2>4 DEF JournalInv
    <2>6. /\ attempts'[e] = b /\ runs'[e] = runs[e] /\ rec'[e] = rec[e]
          /\ \A d \in Execs : d # e =>
                rec'[d] = rec[d] /\ attempts'[d] = attempts[d] /\ runs'[d] = runs[d]
      BY Zenon, <1>2, <2>3 DEF JournalInv
    <2>7. work'.exec = e /\ WorkJournal(work', rec[e], b, runs[e])
      BY <1>2, <2>2 DEF WorkJournal, Do
    <2>8. /\ Journal(rec'[e], attempts'[e], runs'[e])
          /\ work'.exec = e /\ WorkJournal(work', rec'[e], attempts'[e], runs'[e])
      BY Zenon, <2>2, <2>6, <2>7
    <2>9. flight' = Idle
      BY Zenon, <1>2
    <2> QED
      BY Zenon, <2>5, <2>6, <2>8, <2>9, JournalStep
  <1>3. CASE RecordEnding
    <2>1. /\ work = Idle /\ flight # Idle /\ flight.kind \in {"Dispatch", "Settle"}
          /\ flight.seen \notin {"none", "busy"} /\ flight' = Idle /\ runs' = runs
      BY Zenon, <1>3 DEF RecordEnding, Seen
    <2>2. flight \in Flights /\ Open(flight.exec)
      BY Zenon, <2>1 DEF NodeInv, MemoryTypeOK, FlightInv
    <2>3. PICK e \in Execs : e = flight.exec
      BY Zenon, <2>2 DEF Flights
    <2> DEFINE n == Len(attempts[e])
    <2>4. /\ Journal(rec[e], attempts[e], runs[e]) /\ rec[e] \in Recs /\ Current(rec[e], attempts[e])
          /\ flight.seen \in Ended \cup {"error", "unverified"}
          /\ flight.seen \in Ended => runs[e][Len(runs[e])] = flight.seen
          /\ flight.seen = "unverified" => runs[e][Len(runs[e])] \in Over
      BY Zenon, <2>1, <2>3, RecordWrites DEF JournalInv, FlightJournal
    <2> DEFINE Drops == BecomesUnknown(e) /\ UNCHANGED <<work, attempts>>
    <2>5. CASE Drops
      <3>1. work' = Idle /\ UNCHANGED <<attempts, runs>> /\ BecomesUnknown(e)
        BY Zenon, <2>1, <2>5
      <3>2. /\ rec' = [rec EXCEPT ![e] = [rec[e] EXCEPT !.mode = "Unknown"]]
            /\ Journal([rec[e] EXCEPT !.mode = "Unknown"], attempts[e], runs[e])
        BY Zenon, <2>4, <3>1, RecordWrites, UnknownKeeps
      <3> QED
        BY Zenon, <2>1, <3>1, <3>2, RecordStep
    <2>6. CASE flight.seen = "unverified" /\ ~Drops
      <3>1. /\ UNCHANGED <<attempts, runs>> /\ work' = Do(e, "clean", "unverified") /\ rec' = rec
        BY Zenon, <1>3, <2>1, <2>3, <2>6 DEF RecordEnding
      <3>2. work'.exec = e /\ WorkJournal(work', rec[e], attempts[e], runs[e])
        BY Zenon, <2>4, <2>6, <3>1 DEF WorkJournal, Do
      <3> QED
        BY Zenon, <2>1, <2>4, <3>1, <3>2, SameRecord, RecordStep
    <2>7. CASE flight.seen \in Ended /\ ~Drops
      <3>1. /\ attempts' = [attempts EXCEPT ![e][n].ended = flight.seen] /\ rec' = rec
            /\ work' = Do(e, "clean", flight.seen)
        BY Zenon, <1>3, <2>1, <2>3, <2>7 DEF RecordEnding, Ended
      <3> DEFINE row == [attempts[e][n] EXCEPT !.ended = flight.seen]
      <3>2. attempts' = [attempts EXCEPT ![e] = [attempts[e] EXCEPT ![n] = row]]
        BY Zenon, <3>1 DEF JournalInv
      <3>3. attempts[e] \in Seq(Attempts) /\ n \in 1..Len(attempts[e])
        BY Zenon, <2>4, JournalShape
      <3>4. attempts[e][n] \in Attempts
        BY <3>3
      <3>5. row \in Attempts /\ row.ended = flight.seen /\ row.cleaned = attempts[e][n].cleaned
        BY Zenon, <2>7, <3>4 DEF Attempts
      <3>6. attempts[e][n].cleaned => runs[e][n] \in Over
        BY Zenon, <2>4, <3>3 DEF Journal
      <3>7. n = Len(runs[e])
        BY Zenon, <2>4 DEF Journal
      <3>8. runs[e][n] \in Over
        BY Zenon, <2>4, <2>7, <3>7 DEF Over
      <3>9. /\ row.cleaned => runs[e][Len(runs[e])] \in Over
            /\ row.ended \in {"none", runs[e][Len(runs[e])]}
            /\ runs[e][Len(runs[e])] \in Over
        BY Zenon, <2>4, <2>7, <3>5, <3>7, <3>8
      <3>10. PICK q \in Attempts : q = row
        BY Zenon, <3>5
      <3>11. attempts' = [attempts EXCEPT ![e] = [attempts[e] EXCEPT ![Len(attempts[e])] = q]]
        BY Zenon, <3>2, <3>10
      <3>12. Open(e) /\ Current(rec[e], attempts[e]) /\ rec' = rec /\ runs' = runs /\ flight' = Idle
        BY Zenon, <2>1, <2>2, <2>3, <2>4, <3>1
      <3> HIDE DEF row, n
      <3> QED
        BY Zenon, <1>2, <3>1, <3>9, <3>10, <3>11, <3>12
    <2>8. CASE flight.seen = "error"
      BY Zenon, <1>3, <2>3, <2>5, <2>8 DEF RecordEnding
    <2> QED
      BY Zenon, <2>4, <2>5, <2>6, <2>7, <2>8
  <1>4. CASE RecordCleanup
    <2>1. work \in Works /\ flight = Idle /\ Open(work.exec) /\ work # Idle /\ work.todo = "clean"
      BY Zenon, <1>4 DEF NodeInv, MemoryTypeOK, WorkInv, RecordCleanup, Working
    <2>2. PICK e \in Execs : e = work.exec
      BY Zenon, <2>1 DEF Works
    <2> DEFINE n == Len(attempts[e])
               row == [attempts[e][n] EXCEPT !.cleaned = TRUE]
    <2>3. /\ Journal(rec[e], attempts[e], runs[e]) /\ rec[e] \in Recs /\ Current(rec[e], attempts[e])
          /\ runs[e][Len(runs[e])] \in Over
      BY Zenon, <2>1, <2>2, RecordWrites DEF JournalInv, WorkJournal
    <2>a. CASE Uncertain(e) /\ UNCHANGED attempts
      <3>1. work' = Idle /\ flight' = Idle /\ BecomesUnknown(e) /\ UNCHANGED <<attempts, runs>>
        BY Zenon, <1>4, <2>1, <2>a DEF Uncertain, Rests, RecordCleanup
      <3>2. /\ rec' = [rec EXCEPT ![e] = [rec[e] EXCEPT !.mode = "Unknown"]]
            /\ Journal([rec[e] EXCEPT !.mode = "Unknown"], attempts[e], runs[e])
        BY Zenon, <2>1, <2>2, <2>3, <3>1, RecordWrites, UnknownKeeps DEF Open
      <3> QED
        BY Zenon, <3>1, <3>2, RecordStep
    <2>b. SUFFICES ASSUME ~(Uncertain(e) /\ UNCHANGED attempts) PROVE JournalInv'
      BY Zenon, <2>a
    <2>4. /\ attempts' = [attempts EXCEPT ![e][n].cleaned = TRUE] /\ rec' = rec /\ runs' = runs
          /\ flight' = Idle /\ work' = Do(e, "settle", work.with)
      BY Zenon, <1>4, <2>1, <2>2, <2>b DEF RecordCleanup, Goes
    <2>5. attempts' = [attempts EXCEPT ![e] = [attempts[e] EXCEPT ![n] = row]]
      BY Zenon, <2>4 DEF JournalInv
    <2>6. attempts[e] \in Seq(Attempts) /\ n \in 1..Len(attempts[e]) /\ n = Len(runs[e])
      BY Zenon, <2>3, JournalShape
    <2>7. attempts[e][n] \in Attempts
      BY <2>6
    <2>8. row \in Attempts /\ row.cleaned /\ row.ended = attempts[e][n].ended
      BY Zenon, <2>7 DEF Attempts
    <2>9. attempts[e][n].ended \in {"none", runs[e][n]}
      BY Zenon, <2>3, <2>6 DEF Journal
    <2> HIDE DEF row, n
    <2> QED
      BY Zenon, <1>2, <2>1, <2>2, <2>3, <2>4, <2>5, <2>6, <2>8, <2>9 DEF n
  <1> QED
    BY Zenon, <1>1, <1>3, <1>4

\* Closing the Scope of a Run ends it for good.
LEMMA ClosedIsOver ==
    ASSUME NEW x \in RunStates
    PROVE  Closed(x) \in Over /\ Closed(x) \in RunStates /\ (x \in Over => Closed(x) = x)
  BY Zenon DEF Closed, Over, RunStates, Ended

\* A Run moves on at the host, and the executor may see how it ended.
LEMMA RunMoves ==
    ASSUME NodeInv, JournalInv, NEW e \in Execs, NEW i \in 1..Len(runs[e]), NEW x \in RunStates,
           runs[e][i] \in Over => x = runs[e][i],
           runs' = [runs EXCEPT ![e][i] = x], UNCHANGED <<rec, attempts, work>>,
           \/ flight' = flight
           \/ /\ flight # Idle /\ flight.exec = e /\ i = Len(runs[e])
              /\ flight.kind \in {"Dispatch", "Settle"}
              /\ \E seen \in Ended \cup {"unverified", "error"} :
                    /\ flight' = [flight EXCEPT !.seen = seen]
                    /\ x \in Over /\ (seen \in Ended => x = seen)
    PROVE  JournalInv'
  <1> DEFINE u == runs[e]
             v == [u EXCEPT ![i] = x]
  <1>1. Journal(rec[e], attempts[e], u) /\ rec[e] \in Recs
    BY Zenon, RecordWrites DEF JournalInv
  <1>2. /\ Journal(rec[e], attempts[e], v) /\ Len(v) = Len(u) /\ v[i] = x
        /\ \A j \in 1..Len(u) : u[j] \in Over => v[j] = u[j]
    BY <1>1, RunKeeps
  <1>3. runs' = [runs EXCEPT ![e] = v]
    BY Zenon DEF JournalInv
  <1> HIDE DEF v
  <1>4. v \in Seq(RunStates) /\ Len(u) = Len(attempts[e]) /\ u \in Seq(RunStates)
    BY Zenon, <1>1, <1>2 DEF Journal
  <1>5. attempts' \in [Execs -> Seq(Attempts)] /\ runs' \in [Execs -> Seq(RunStates)]
    BY Zenon, <1>3, <1>4 DEF JournalInv
  <1>6. /\ runs'[e] = v /\ rec'[e] = rec[e] /\ attempts'[e] = attempts[e]
        /\ \A d \in Execs : d # e =>
              rec'[d] = rec[d] /\ attempts'[d] = attempts[d] /\ runs'[d] = runs[d]
    BY Zenon, <1>3 DEF JournalInv
  <1>7. Current(rec[e], attempts[e]) => Len(u) \in 1..Len(u)
    BY <1>1, <1>4 DEF Current, Recs
  <1>8. ASSUME flight # Idle, flight.exec = e PROVE FlightJournal(flight, rec[e], attempts[e], v)
    <2>1. FlightJournal(flight, rec[e], attempts[e], u)
      BY Zenon, <1>8 DEF JournalInv
    <2>2. CASE flight.kind \notin {"Dispatch", "Settle"}
      BY Zenon, <2>1, <2>2 DEF FlightJournal
    <2>3. CASE flight.kind \in {"Dispatch", "Settle"}
      <3>1. /\ Len(u) \in 1..Len(u)
            /\ flight.seen \in Ended \cup {"unverified"} => u[Len(u)] \in Over
        BY Zenon, <1>7, <2>1, <2>3 DEF FlightJournal, Over
      <3>2. flight.seen \in Ended \cup {"unverified"} => v[Len(v)] = u[Len(u)]
        BY Zenon, <1>2, <3>1
      <3> QED
        BY Zenon, <2>1, <2>3, <3>2 DEF FlightJournal
    <2> QED
      BY Zenon, <2>2, <2>3
  <1>9. flight' # Idle =>
          \/ flight' = flight /\ flight.exec # e
          \/ flight'.exec = e /\ FlightJournal(flight', rec[e], attempts[e], v)
    <2>1. CASE flight' = flight
      BY Zenon, <1>8, <2>1
    <2>2. ASSUME NEW seen \in Ended \cup {"unverified", "error"}, flight # Idle, flight.exec = e,
                 flight.kind \in {"Dispatch", "Settle"}, i = Len(runs[e]),
                 flight' = [flight EXCEPT !.seen = seen], x \in Over, seen \in Ended => x = seen
          PROVE  flight'.exec = e /\ FlightJournal(flight', rec[e], attempts[e], v)
      <3>1. flight \in Flights
        BY Zenon, <2>2 DEF NodeInv, MemoryTypeOK
      <3>2. flight'.exec = e /\ flight'.kind = flight.kind /\ flight'.seen = seen
        BY Zenon, <2>2, <3>1 DEF Flights
      <3>3. Current(rec[e], attempts[e])
        BY Zenon, <2>2 DEF JournalInv, FlightJournal
      <3>4. v[Len(v)] = x
        BY Zenon, <1>2, <2>2
      <3> QED
        BY Zenon, <2>2, <3>2, <3>3, <3>4 DEF FlightJournal
    <2> QED
      BY Zenon, <2>1, <2>2
  <1>10. work' # Idle =>
           \/ work' = work /\ work.exec # e
           \/ work'.exec = e /\ WorkJournal(work', rec[e], attempts[e], v)
    <2>1. ASSUME work # Idle, work.exec = e PROVE WorkJournal(work, rec[e], attempts[e], v)
      <3>1. WorkJournal(work, rec[e], attempts[e], u)
        BY Zenon, <2>1 DEF JournalInv
      <3>2. work.todo = "clean" => v[Len(v)] = u[Len(u)]
        BY Zenon, <1>2, <1>7, <3>1 DEF WorkJournal
      <3> QED
        BY Zenon, <3>1, <3>2 DEF WorkJournal
    <2> QED
      BY Zenon, <2>1
  <1> HIDE DEF u
  <1>11. Journal(rec'[e], attempts'[e], runs'[e])
    BY Zenon, <1>2, <1>6
  <1>12. flight' # Idle =>
           \/ flight' = flight /\ flight.exec # e
           \/ flight'.exec = e /\ FlightJournal(flight', rec'[e], attempts'[e], runs'[e])
    BY Zenon, <1>6, <1>9
  <1>13. work' # Idle =>
           \/ work' = work /\ work.exec # e
           \/ work'.exec = e /\ WorkJournal(work', rec'[e], attempts'[e], runs'[e])
    BY Zenon, <1>6, <1>10
  <1>14. \A d \in Execs : d # e =>
           rec'[d] = rec[d] /\ attempts'[d] = attempts[d] /\ runs'[d] = runs[d]
    BY Zenon, <1>6
  <1> QED
    BY Zenon, <1>5, <1>11, <1>12, <1>13, <1>14, JournalStep

\* The executor and the host.
LEMMA OutsideKeepsJournal ==
    ASSUME NodeInv, JournalInv,
           \/ Executing \/ RecoveryPass
           \/ \E e \in Execs : HostStarts(e) \/ RunEnds(e) \/ Disturb(e)
    PROVE  JournalInv'
  <1> USE DEF journal, progress
  <1>1. ASSUME UNCHANGED <<rec, attempts, runs, flight, work>> PROVE JournalInv'
    BY Zenon, <1>1 DEF JournalInv
  <1>2. ASSUME NEW e \in Execs, HostStarts(e) \/ RunEnds(e) PROVE JournalInv'
    <2>1. PICK i \in DOMAIN runs[e], x \in RunStates :
             /\ runs[e][i] \in {"sent", "running"} /\ runs' = [runs EXCEPT ![e][i] = x]
             /\ UNCHANGED <<rec, attempts, work, flight>>
      BY Zenon, <1>2 DEF HostStarts, RunEnds, RunStates
    <2>2. i \in 1..Len(runs[e])
      <3>1. runs[e] \in Seq(RunStates)
        BY Zenon DEF JournalInv
      <3> QED
        BY <3>1
    <2>3. runs[e][i] \notin Over
      BY Zenon, <2>1 DEF Over, Ended
    <2> QED
      BY Zenon, <2>1, <2>2, <2>3, RunMoves
  <1>3. ASSUME flight # Idle, flight.kind \in {"Dispatch", "Settle"}
        PROVE  /\ flight \in Flights /\ flight.exec \in Execs
               /\ Len(runs[flight.exec]) \in 1..Len(runs[flight.exec])
               /\ runs[flight.exec][Len(runs[flight.exec])] \in RunStates
    <2>1. flight \in Flights /\ flight.exec \in Execs
      BY Zenon, <1>3 DEF NodeInv, MemoryTypeOK, Flights
    <2>2. /\ Journal(rec[flight.exec], attempts[flight.exec], runs[flight.exec])
          /\ Current(rec[flight.exec], attempts[flight.exec]) /\ rec[flight.exec] \in Recs
      BY Zenon, <1>3, <2>1, RecordWrites DEF JournalInv, FlightJournal
    <2>3. /\ runs[flight.exec] \in Seq(RunStates)
          /\ Len(runs[flight.exec]) \in 1..Len(runs[flight.exec])
      BY Zenon, <2>2, JournalShape
    <2> QED
      BY <2>1, <2>3
  <1>4. CASE SendStart
    <2>1. flight # Idle /\ flight.kind \in {"Dispatch", "Settle"}
      BY Zenon, <1>4 DEF SendStart, Outstanding
    <2>2. PICK e \in Execs : e = flight.exec
      BY Zenon, <1>3, <2>1
    <2>3. /\ runs[e][Len(runs[e])] = "unstarted" /\ runs' = [runs EXCEPT ![e][Len(runs[e])] = "sent"]
          /\ UNCHANGED <<rec, attempts, work, flight>>
      BY Zenon, <1>4, <2>2 DEF SendStart
    <2>4. runs[e][Len(runs[e])] \notin Over /\ "sent" \in RunStates
      BY Zenon, <2>3 DEF Over, Ended, RunStates
    <2> QED
      BY Zenon, <1>3, <2>1, <2>2, <2>3, <2>4, RunMoves
  \* An answer that says nothing about a Run.
  <1>5. ASSUME NEW seen, flight # Idle, flight' = [flight EXCEPT !.seen = seen],
               flight.kind \in {"Dispatch", "Settle"} => seen = "error",
               UNCHANGED <<rec, attempts, runs, work>>
        PROVE  JournalInv'
    <2>1. flight \in Flights
      BY Zenon, <1>5 DEF NodeInv, MemoryTypeOK
    <2>2. PICK e \in Execs : e = flight.exec
      BY Zenon, <2>1 DEF Flights
    <2>3. flight'.exec = e /\ flight'.kind = flight.kind /\ flight'.seen = seen
      BY Zenon, <1>5, <2>1, <2>2 DEF Flights
    <2>4. FlightJournal(flight, rec[e], attempts[e], runs[e])
      BY Zenon, <1>5, <2>2 DEF JournalInv
    <2>5. FlightJournal(flight', rec[e], attempts[e], runs[e])
      BY Zenon, <1>5, <2>3, <2>4 DEF FlightJournal, Ended
    <2>6. work' = Idle
      BY Zenon, <1>5 DEF NodeInv, WorkInv
    <2>7. Journal(rec[e], attempts[e], runs[e])
      BY Zenon DEF JournalInv
    <2> QED
      BY Zenon, <1>5, <2>3, <2>5, <2>6, <2>7, SameRecord, RecordStep
  <1>6. CASE BeginFetch \/ EndFetch \/ EndBackoff \/ InspectClone
    <2>1. PICK seen \in Answers : Observes(seen)
      BY Zenon, <1>6 DEF BeginFetch, EndFetch, EndBackoff, InspectClone, Answers
    <2>2. flight # Idle /\ flight.kind \in {"Fetch", "Backoff", "Inspect"} /\ runs' = runs
      BY Zenon, <1>6 DEF BeginFetch, EndFetch, EndBackoff, InspectClone, Outstanding
    <2> QED
      BY Zenon, <1>5, <2>1, <2>2 DEF Observes
  <1>7. CASE SettleRun
    <2>1. flight # Idle /\ flight.kind \in {"Dispatch", "Settle"}
      BY Zenon, <1>7 DEF SettleRun, Outstanding
    <2>2. PICK e \in Execs : e = flight.exec
      BY Zenon, <1>3, <2>1
    <2> DEFINE i == Len(runs[e])
               after == Closed(runs[e][i])
    <2>3. i \in 1..Len(runs[e]) /\ runs[e][i] \in RunStates
      BY Zenon, <1>3, <2>1, <2>2
    <2>4. after \in Over /\ after \in RunStates /\ (runs[e][i] \in Over => after = runs[e][i])
      BY Zenon, <2>3, ClosedIsOver
    <2>5. CASE Observes("error") /\ runs' = runs
      BY Zenon, <1>5, <2>1, <2>5 DEF Observes
    <2>6. ASSUME NEW seen \in Ended \cup {"unverified", "error"}, seen \in Ended => after = seen,
                 Observes(seen), runs' = [runs EXCEPT ![e][i] = after]
          PROVE  JournalInv'
      <3>1. flight' = [flight EXCEPT !.seen = seen] /\ UNCHANGED <<rec, attempts, work>>
        BY Zenon, <2>6 DEF Observes
      <3> HIDE DEF after
      <3> QED
        BY Zenon, <2>1, <2>2, <2>3, <2>4, <2>6, <3>1, RunMoves
    <2>7. \/ Observes("error") /\ runs' = runs
          \/ \E seen \in Ended \cup {"unverified", "error"} :
                /\ seen \in Ended => after = seen
                /\ Observes(seen) /\ runs' = [runs EXCEPT ![e][i] = after]
      BY Zenon, <1>7, <2>2 DEF SettleRun, Ended
    <2> QED
      BY Zenon, <2>5, <2>6, <2>7
  <1>8. CASE RecoveryPass
    BY Zenon, <1>1, <1>8 DEF RecoveryPass
  <1>9. CASE \E e \in Execs : HostStarts(e) \/ RunEnds(e) \/ Disturb(e)
    BY Zenon, <1>1, <1>2, <1>9 DEF Disturb
  <1> QED
    BY Zenon, <1>4, <1>6, <1>7, <1>8, <1>9 DEF Executing

\* The journal when every Scope still open has been closed.
LEMMA ExitKeeps ==
    ASSUME NEW r \in Recs, NEW a, NEW u, Journal(r, a, u)
    PROVE  LET b == [i \in DOMAIN a |-> [a[i] EXCEPT !.cleaned = TRUE]]
               v == [i \in DOMAIN u |-> IF a[i].cleaned THEN u[i] ELSE Closed(u[i])]
           IN  Journal(r, b, v) /\ b \in Seq(Attempts) /\ v \in Seq(RunStates)
  <1> DEFINE Row(i) == [a[i] EXCEPT !.cleaned = TRUE]
             Run(i) == IF a[i].cleaned THEN u[i] ELSE Closed(u[i])
             b == [i \in DOMAIN a |-> Row(i)]
             v == [i \in DOMAIN u |-> Run(i)]
  <1>1. a \in Seq(Attempts) /\ u \in Seq(RunStates) /\ Len(u) = Len(a) /\ Len(a) \in Nat
    BY DEF Journal
  <1>2. DOMAIN a = 1..Len(a) /\ DOMAIN u = 1..Len(a)
    BY Zenon, JournalShape
  <1>3. ASSUME NEW i \in 1..Len(a)
        PROVE  /\ Row(i) \in Attempts /\ Row(i).cleaned /\ Row(i).ended = a[i].ended
               /\ Run(i) \in RunStates /\ Run(i) \in Over
               /\ a[i].ended \in {"none", Run(i)}
    <2>1. a[i] \in Attempts /\ u[i] \in RunStates
      BY <1>1
    <2>2. Row(i) \in Attempts /\ Row(i).cleaned /\ Row(i).ended = a[i].ended
      BY Zenon, <2>1 DEF Attempts
    <2>3. (a[i].cleaned => u[i] \in Over) /\ a[i].ended \in {"none", u[i]}
      BY Zenon DEF Journal
    <2>4. Closed(u[i]) \in Over /\ Closed(u[i]) \in RunStates /\ (u[i] \in Over => Closed(u[i]) = u[i])
      BY Zenon, <2>1, ClosedIsOver
    <2>5. a[i].ended \in {"none"} \cup Over
      BY Zenon, <2>1 DEF Attempts, Over
    <2>6. Run(i) \in RunStates /\ Run(i) \in Over /\ a[i].ended \in {"none", Run(i)}
      <3>1. CASE a[i].cleaned
        BY Zenon, <2>1, <2>3, <3>1
      <3>2. CASE ~a[i].cleaned
        BY Zenon, <2>3, <2>4, <2>5, <3>2
      <3> QED
        BY Zenon, <3>1, <3>2
    <2> QED
      BY Zenon, <2>2, <2>6
  <1> HIDE DEF Row, Run
  <1>4. b \in Seq(Attempts) /\ Len(b) = Len(a) /\ \A i \in 1..Len(a) : b[i] = Row(i)
    <2>1. b = [i \in 1..Len(a) |-> Row(i)]
      BY Zenon, <1>2
    <2>2. b \in [1..Len(a) -> Attempts]
      BY Zenon, <1>3, <2>1
    <2> QED
      BY <1>1, <2>1, <2>2
  <1>5. v \in Seq(RunStates) /\ Len(v) = Len(a) /\ \A i \in 1..Len(a) : v[i] = Run(i)
    <2>1. v = [i \in 1..Len(a) |-> Run(i)]
      BY Zenon, <1>2
    <2>2. v \in [1..Len(a) -> RunStates]
      BY Zenon, <1>3, <2>1
    <2> QED
      BY <1>1, <2>1, <2>2
  <1> HIDE DEF b, v
  <1>6. \A i \in 1..Len(b) :
          /\ b[i].cleaned => v[i] \in Over
          /\ b[i].ended \in {"none", v[i]}
          /\ i < Len(b) \/ r.mode = "Completed" => b[i].cleaned
    BY Zenon, <1>3, <1>4, <1>5
  <1>7. Journal(r, b, v)
    BY Zenon, <1>4, <1>5, <1>6 DEF Journal
  <1> QED
    BY Zenon, <1>4, <1>5, <1>7 DEF b, v, Row, Run

\* A process that ends, and the next one.
LEMMA ProcessKeepsJournal ==
    ASSUME NodeInv, JournalInv, Stop \/ Exit \/ Crash
    PROVE  JournalInv'
  <1> USE DEF journal, progress
  <1>1. ASSUME UNCHANGED <<rec, attempts, runs>>, flight' = Idle, work' = Idle PROVE JournalInv'
    BY Zenon, <1>1 DEF JournalInv
  <1>2. CASE Stop
    BY Zenon, <1>2 DEF Stop, JournalInv
  <1>3. CASE Crash
    BY Zenon, <1>1, <1>3 DEF Crash, Restarts
  <1>4. CASE Exit
    <2>1. rec' = rec /\ flight' = Idle /\ work' = Idle
      BY Zenon, <1>4 DEF Exit, Restarts
    <2> DEFINE B(e) == [i \in DOMAIN attempts[e] |-> [attempts[e][i] EXCEPT !.cleaned = TRUE]]
               V(e) == [i \in DOMAIN runs[e] |->
                          IF attempts[e][i].cleaned THEN runs[e][i] ELSE Closed(runs[e][i])]
    <2>2. attempts' = [e \in Execs |-> B(e)] /\ runs' = [e \in Execs |-> V(e)]
      BY Zenon, <1>4 DEF Exit
    <2>3. ASSUME NEW e \in Execs
          PROVE  Journal(rec[e], B(e), V(e)) /\ B(e) \in Seq(Attempts) /\ V(e) \in Seq(RunStates)
      <3>1. Journal(rec[e], attempts[e], runs[e]) /\ rec[e] \in Recs
        BY Zenon, RecordWrites DEF JournalInv
      <3> QED
        BY Zenon, <3>1, ExitKeeps
    <2> HIDE DEF B, V
    <2> QED
      BY Zenon, <2>1, <2>2, <2>3 DEF JournalInv
  <1> QED
    BY Zenon, <1>2, <1>3, <1>4

\* The journal stays true through every step.
LEMMA JournalSteps == NodeInv /\ JournalInv /\ [Next]_vars => JournalInv'
  <1> SUFFICES ASSUME NodeInv, JournalInv, [Next]_vars PROVE JournalInv'
    BY Zenon
  <1>1. CASE HandleRequest
    <2>1. CASE \E b \in Ledger!Bindings : BindRuntime(b)
      BY Zenon, <2>1 DEF BindRuntime, JournalInv, journal, progress
    <2>2. CASE \E e \in Execs : Acknowledge(e)
      BY Zenon, <2>2 DEF Acknowledge, JournalInv, journal
    <2>3. CASE \E e \in Execs, p \in Ledger!Permits \cup {None} : AcceptClone(e, p)
      BY Zenon, <1>1, <2>3, BeginningsKeepJournal DEF HandleRequest
    <2> QED
      BY Zenon, <1>1, <2>1, <2>2, <2>3 DEF HandleRequest
  <1>2. CASE RecoveryPass \/ Executing
    BY Zenon, <1>2, OutsideKeepsJournal
  <1>3. CASE Starting
    BY Zenon, <1>3, BeginningsKeepJournal DEF Starting
  <1>4. CASE Handling
    BY Zenon, <1>4, WorkerKeepsJournal, AnswersKeepJournal, RowsKeepJournal DEF Handling
  <1>5. CASE \E e \in Execs : HostStarts(e) \/ RunEnds(e) \/ Disturb(e)
    BY Zenon, <1>5, OutsideKeepsJournal
  <1>6. CASE Stop \/ Exit \/ Crash
    BY Zenon, <1>6, ProcessKeepsJournal
  <1>7. CASE UNCHANGED vars
    BY Zenon, <1>7 DEF vars, journal, progress, JournalInv
  <1> QED
    BY Zenon, <1>1, <1>2, <1>3, <1>4, <1>5, <1>6, <1>7 DEF Next

-----------------------------------------------------------------------------
\* The Node keeps the promise of CloneLedger through every crash between two of its
\* transactions: no execution ends twice or without its event, and none works without
\* having been licensed (runtime_control.rs start_controlled_execution_for).
THEOREM NodeImplementsLedger == Spec => ImplementsCloneLedger
  <1> QED
    BY NodeStarts, NodeSteps, PTL DEF Spec, ImplementsCloneLedger, Ledger!Spec, KeepsLedger
====
