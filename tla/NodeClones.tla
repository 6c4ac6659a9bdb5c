----------------------------- MODULE NodeClones -----------------------------
(***************************************************************************)
(* Repository clones as the Node executes them: the Node database          *)
(* (crates/node-db), the worker that owns it, the executor that talks to   *)
(* the process host on its behalf, and the files and Runs outside.         *)
(*                                                                         *)
(* The worker is one thread.  A handler of it is a chain of short          *)
(* transactions, and the process may die between any two of them, so each  *)
(* transaction is a step of its own: `work` says what the worker does      *)
(* next, `flight` is the one step handed to the executor.  Everything else *)
(* is durable, or belongs to the host and the file system.                 *)
(***************************************************************************)
EXTENDS Integers, Sequences, Functions

CONSTANTS
    Execs,         \* clone executions; execution k is dispatched in epoch k
    Epochs,        \* control epochs
    Local,         \* those dispatched to a Node outside runtime control
    WorkloadSteps, \* snapshot.rs WORKLOAD_STEPS
    MaxFetches,    \* snapshot.rs MAX_FETCH_ATTEMPTS
    MaxRestarts,   \* bound: how often the Node process ends and starts again
    MaxFaults      \* bound: answers lost by the host and files disturbed

\* snapshot.rs TRANSPORT_STEP: the step that fetches from the transport repository.
TransportStep == 1

\* It is neither the first nor the last: the workload still checks out after it.
ASSUME CloneAssumption ==
    /\ Epochs \subseteq Nat \ {0} /\ Execs \subseteq Epochs /\ Local \subseteq Execs
    /\ WorkloadSteps \in Nat /\ TransportStep + 1 < WorkloadSteps
    /\ MaxFetches \in Nat \ {0} /\ MaxRestarts \in Nat /\ MaxFaults \in Nat

VARIABLES
    controlled, \* whether this home ever enabled runtime control
    binding,    \* runtime_binding: the one bound control epoch
    rec,        \* clone_executions
    permit,     \* execution_control.permit
    started,    \* execution_control.started
    attempts,   \* process_attempts with their outcomes and terminations
    outbox,     \* clone_outbox
    dirs,       \* external: the directory at each generated path
    transports, \* external: the transport repositories on disk
    runs,       \* external: the host's truth of each recorded Run
    fetched,    \* the snapshot fetches performed, over all processes
    inc,        \* the incarnation of this Node process
    stopping,   \* Shutdown::requested
    queue,      \* Clones::queue
    flight,     \* Clones::in_flight with the executor's answer
    work,       \* what is left of the worker's current handler
    faults

control == <<controlled, binding, permit>>
progress == <<rec, outbox>>
journal == <<attempts, runs>>
files == <<dirs, transports>>
vars == <<control, started, progress, journal, files, fetched,
              inc, stopping, queue, flight, work, faults>>

-----------------------------------------------------------------------------
(* Records.                                                                 *)

None == [none |-> TRUE]
Idle == [none |-> TRUE]

Phases == {"Reserved", "DirectoryCreated", "Fetching", "Dispatched"}
Failures == {"OperationFailed", "SourceUnavailable", "SnapshotUnavailable", "Interrupted"}

\* The terminal fact: what it says, whether it says a directory is left, and the
\* incarnation that wrote it.
Results == [kind : Failures \cup {"Ready"}, residual : {"Retained", "NoDirectory"},
            node : 1..(MaxRestarts + 1)]

Refusals == {r \in Results : r.kind = "OperationFailed"}

Absent == [mode |-> "Absent", phase |-> "Reserved", n |-> 0, result |-> None]
Pending(phase, n) == [mode |-> "Pending", phase |-> phase, n |-> n, result |-> None]

\* CloneProgress::state.
State(e) ==
    CASE rec[e].mode = "Pending" /\ rec[e].phase = "Reserved" -> "Accepted"
      [] rec[e].mode = "Pending" /\ rec[e].phase # "Reserved" -> "Running"
      [] OTHER -> rec[e].mode

\* Mutant: an Unknown execution does not count.
Unfinished_MIgnoresUnknown ==
    {e \in Execs : \/ rec[e].mode = "Pending"
                   \/ \E i \in DOMAIN attempts[e] : ~attempts[e][i].cleaned}

\* unfinished_runtime_executions.
Unfinished ==
    {e \in Execs : \/ rec[e].mode \in {"Pending", "Unknown"}
                   \/ \E i \in DOMAIN attempts[e] : ~attempts[e][i].cleaned}

\* The Node's promise, read off its records.
Shown == [e \in Execs |-> [state |-> State(e), result |-> rec[e].result]]
Ledger == INSTANCE CloneLedger WITH status <- Shown

\* matches_directory: only the directory that was made meets the saved identity.
Matches(e) == dirs[e] = "ours"

\* Mutant: the fetching step itself is forgotten.
ReadsTransport_MOneStepLess(e) ==
    /\ rec[e].mode \in {"Pending", "Unknown"}
    /\ rec[e].phase = "Dispatched" /\ rec[e].n = 0

\* snapshot.rs reads_transport: the workload has not finished the step that
\* fetches from the transport repository.
ReadsTransport(e) ==
    /\ rec[e].mode \in {"Pending", "Unknown"}
    /\ rec[e].phase = "Dispatched" /\ rec[e].n <= TransportStep

Ended == {"zero", "fail", "signal"}
RunStates == Ended \cup {"unstarted", "sent", "running", "sealed"}

-----------------------------------------------------------------------------
(* Writes of the Node database.  Each is one transaction.                   *)

\* advance_clone.  Every call below moves along the order it enforces.
Advance(e, phase, n) ==
    rec' = [rec EXCEPT ![e] = Pending(phase, n)] /\ UNCHANGED outbox

\* unknown_clone: the phase is kept, and what was Unknown already stays so.
BecomesUnknown(e) == rec' = [rec EXCEPT ![e].mode = "Unknown"] /\ UNCHANGED outbox

\* complete_clone: one recorded ending per dispatched command decides which
\* results are attributable.
Attributable(e, kind, residual) ==
    LET rows(ends) == {i \in DOMAIN attempts[e] : attempts[e][i].ended \in ends}
        counts(S, k) == ExistsBijection(1..k, S)
        codes == rows({"zero", "fail"})
        signals == rows({"signal"})
        n == rec[e].n
        last == {i \in codes : \A j \in codes : j <= i}
    IN /\ (residual = "NoDirectory") <=> (rec[e].phase = "Reserved")
       /\ \A i \in DOMAIN attempts[e] : attempts[e][i].cleaned
       /\ \/ /\ rec[e].phase = "Dispatched"
             /\ \/ /\ counts(signals, 0) /\ kind # "Interrupted" /\ counts(codes, n + 1)
                   /\ IF kind = "Ready" THEN codes \subseteq rows({"zero"})
                      ELSE codes \ last \subseteq rows({"zero"})
                \/ /\ counts(signals, 1) /\ kind = "Interrupted" /\ counts(codes, n)
                   /\ codes \subseteq rows({"zero"})
          \/ rec[e].phase # "Dispatched" /\ kind \notin {"Ready", "Interrupted"}

\* Mutant: the result commits without its event.
CompleteClone_MLosesEvent(e, result) ==
    /\ Attributable(e, result.kind, result.residual)
    /\ rec' = [rec EXCEPT ![e].mode = "Completed", ![e].result = result]
    /\ UNCHANGED outbox

\* The terminal result and its event commit together.
CompleteClone(e, result) ==
    /\ Attributable(e, result.kind, result.residual)
    /\ rec' = [rec EXCEPT ![e].mode = "Completed", ![e].result = result]
    /\ outbox' = outbox \cup {e}

Result(e, kind) ==
    [kind |-> kind, node |-> inc,
     residual |-> IF rec[e].phase = "Reserved" THEN "NoDirectory" ELSE "Retained"]

-----------------------------------------------------------------------------
(* begin_clone.                                                             *)

Do(e, todo, with) == [exec |-> e, todo |-> todo, with |-> with]
Submitted(e, kind) == [exec |-> e, kind |-> kind, seen |-> "none"]
Rests == work' = Idle /\ UNCHANGED flight
Goes(e, todo, with) == work' = Do(e, todo, with) /\ UNCHANGED flight
Submits(e, kind) == flight' = Submitted(e, kind) /\ work' = Idle

\* fail_clone removes the transport repository first.
Fails(e, kind) == transports' = transports \ {e} /\ Goes(e, "fail", kind)

\* Clones::advance takes the next queued execution when nothing is in flight.
Takes(e) ==
    /\ ~stopping /\ work = Idle /\ flight = Idle /\ e \in queue
    /\ queue' = queue \ {e}
    /\ UNCHANGED <<control, journal, dirs, fetched, inc, stopping, faults>>

Starts(e, allowed) ==
    started' = IF allowed /\ permit[e] # None THEN started \cup {e} ELSE started

\* A reserved execution that may not start is completed as refused.
RefuseReserved(e) ==
    /\ Takes(e) /\ rec[e].mode = "Pending" /\ rec[e].phase = "Reserved"
    /\ FALSE \in Ledger!MayStart(e)
    /\ CompleteClone(e, Result(e, "OperationFailed"))
    /\ Rests
    /\ UNCHANGED <<started, transports>>

\* Before dispatch, an execution that may not start fails with its directory, or
\* rests as it is.
RefuseStarted(e) ==
    /\ Takes(e) /\ FALSE \in Ledger!MayStart(e)
    /\ rec[e].phase # "Dispatched" /\ <<rec[e].mode, rec[e].phase>> # <<"Pending", "Reserved">>
    /\ IF rec[e].phase # "Reserved" /\ Matches(e)
       THEN Fails(e, "OperationFailed")
       ELSE Rests /\ UNCHANGED transports
    /\ UNCHANGED <<started, progress>>

\* An existing Run of the current step is settled, whatever the permit says;
\* without one the step may still be dispatched.
BeginClone(e) ==
    /\ Takes(e)
    /\ \E allowed \in Ledger!MayStart(e) :
          /\ Starts(e, allowed)
          /\ \/ rec[e].phase # "Dispatched" /\ allowed /\ Goes(e, "continue", "")
             \/ /\ rec[e].phase = "Dispatched" /\ Len(attempts[e]) = rec[e].n
                /\ IF allowed THEN Goes(e, "continue", "") ELSE Rests
             \/ /\ rec[e].phase = "Dispatched" /\ Len(attempts[e]) = rec[e].n + 1
                /\ Submits(e, "Settle")
    /\ UNCHANGED <<progress, transports>>

-----------------------------------------------------------------------------
(* continue_clone, one transaction or file-system call at a time.           *)

Working(todo) == work # Idle /\ work.todo = todo
Uncertain(e) == BecomesUnknown(e) /\ Rests
Fault == faults < MaxFaults /\ faults' = faults + 1

MakeDirectory ==
    LET e == work.exec IN
    /\ Working("continue") /\ rec[e].phase = "Reserved"
    /\ \/ rec[e].mode = "Unknown" /\ Rests /\ UNCHANGED <<progress, files, faults>>
       \/ /\ rec[e].mode = "Pending" /\ dirs[e] = "none"
          /\ dirs' = [dirs EXCEPT ![e] = "ours"]
          /\ Goes(e, "evidence", "")
          /\ UNCHANGED <<progress, transports, faults>>
       \/ /\ rec[e].mode = "Pending" /\ dirs[e] # "none"
          /\ Uncertain(e)
          /\ UNCHANGED <<files, faults>>
       \/ /\ rec[e].mode = "Pending" /\ dirs[e] = "none" /\ Fault
          /\ \/ Uncertain(e) /\ UNCHANGED files
             \/ Fails(e, "OperationFailed") /\ UNCHANGED <<progress, dirs>>
    /\ UNCHANGED <<control, started, journal, fetched, inc, stopping, queue>>

\* Mutant: a directory without evidence is reported as a plain failure.
RecordDirectory_MFails ==
    LET e == work.exec IN
    /\ Working("evidence")
    /\ \/ Advance(e, "DirectoryCreated", 0) /\ Goes(e, "continue", "") /\ UNCHANGED <<files, faults>>
       \/ Fault /\ Fails(e, "OperationFailed") /\ UNCHANGED <<progress, dirs>>
    /\ UNCHANGED <<control, started, journal, fetched, inc, stopping, queue>>

RecordDirectory ==
    LET e == work.exec IN
    /\ Working("evidence")
    /\ \/ Advance(e, "DirectoryCreated", 0) /\ Goes(e, "continue", "") /\ UNCHANGED faults
       \/ Fault /\ Uncertain(e)
    /\ UNCHANGED <<control, started, journal, files, fetched, inc, stopping, queue>>

\* fetch_attempt counts the attempt before it is handed over.
CountFetch(e, attempt) == Advance(e, "Fetching", attempt) /\ Submits(e, "Fetch")

ContinueClone ==
    LET e == work.exec IN
    /\ Working("continue") /\ rec[e].phase # "Reserved"
    /\ IF ~Matches(e) THEN Uncertain(e) /\ UNCHANGED transports
       ELSE \/ /\ rec[e].phase = "DirectoryCreated"
               /\ CountFetch(e, 1) /\ UNCHANGED transports
            \/ /\ rec[e].phase = "Fetching" /\ rec[e].n < MaxFetches
               /\ CountFetch(e, rec[e].n + 1) /\ UNCHANGED transports
            \/ /\ rec[e].phase = "Fetching" /\ rec[e].n >= MaxFetches
               /\ Fails(e, "SourceUnavailable") /\ UNCHANGED progress
            \/ /\ rec[e].phase = "Dispatched"
               /\ Goes(e, "dispatch", "") /\ UNCHANGED <<progress, transports>>
    /\ UNCHANGED <<control, started, journal, dirs, fetched, inc, stopping, queue, faults>>

\* ProcessJournal::record: one Run per step, after every earlier one is cleaned.
Recordable(e) ==
    /\ Len(attempts[e]) = rec[e].n
    /\ \A i \in DOMAIN attempts[e] : attempts[e][i].cleaned

\* A step that cannot be recorded is not dispatched.
DispatchStep ==
    LET e == work.exec IN
    /\ Working("dispatch")
    /\ \/ (stopping \/ ~Recordable(e)) /\ Uncertain(e) /\ UNCHANGED <<journal, faults>>
       \/ /\ ~stopping /\ Recordable(e)
          /\ attempts' = [attempts EXCEPT ![e] =
                            Append(@, [ended |-> "none", cleaned |-> FALSE])]
          /\ runs' = [runs EXCEPT ![e] = Append(@, "unstarted")]
          /\ Submits(e, "Dispatch")
          /\ UNCHANGED <<progress, faults>>
       \/ Fault /\ Uncertain(e) /\ UNCHANGED journal
    /\ UNCHANGED <<control, started, files, fetched, inc, stopping, queue>>

\* Mutant: the last step is skipped.
SettleClone_MStopsEarly ==
    LET e == work.exec IN
    /\ Working("settle")
    /\ IF work.with = "unverified" \/ ~Matches(e)
       THEN Uncertain(e) /\ UNCHANGED transports
       ELSE \/ /\ work.with # "zero"
               /\ Fails(e, IF work.with = "signal" THEN "Interrupted" ELSE "OperationFailed")
               /\ UNCHANGED progress
            \/ /\ work.with = "zero" /\ rec[e].n + 2 < WorkloadSteps
               /\ Advance(e, "Dispatched", rec[e].n + 1) /\ Goes(e, "dispatch", "")
               /\ UNCHANGED transports
            \/ /\ work.with = "zero" /\ rec[e].n + 2 >= WorkloadSteps
               /\ Submits(e, "Inspect") /\ UNCHANGED <<progress, transports>>
    /\ UNCHANGED <<control, started, journal, dirs, fetched, inc, stopping, queue, faults>>

\* Mutant: a killed Run is reported as a failed one.
SettleClone_MSignalIsFailure ==
    LET e == work.exec IN
    /\ Working("settle")
    /\ IF work.with = "unverified" \/ ~Matches(e)
       THEN Uncertain(e) /\ UNCHANGED transports
       ELSE \/ work.with # "zero" /\ Fails(e, "OperationFailed") /\ UNCHANGED progress
            \/ /\ work.with = "zero" /\ rec[e].n + 1 < WorkloadSteps
               /\ Advance(e, "Dispatched", rec[e].n + 1) /\ Goes(e, "dispatch", "")
               /\ UNCHANGED transports
            \/ /\ work.with = "zero" /\ rec[e].n + 1 >= WorkloadSteps
               /\ Submits(e, "Inspect") /\ UNCHANGED <<progress, transports>>
    /\ UNCHANGED <<control, started, journal, dirs, fetched, inc, stopping, queue, faults>>

\* settle_clone.
SettleClone ==
    LET e == work.exec IN
    /\ Working("settle")
    /\ IF work.with = "unverified" \/ ~Matches(e)
       THEN Uncertain(e) /\ UNCHANGED transports
       ELSE \/ /\ work.with = "signal"
               /\ Fails(e, "Interrupted") /\ UNCHANGED progress
            \/ /\ work.with = "fail"
               /\ Fails(e, "OperationFailed") /\ UNCHANGED progress
            \/ /\ work.with = "zero" /\ rec[e].n + 1 < WorkloadSteps
               /\ Advance(e, "Dispatched", rec[e].n + 1) /\ Goes(e, "dispatch", "")
               /\ UNCHANGED transports
            \/ /\ work.with = "zero" /\ rec[e].n + 1 >= WorkloadSteps
               /\ Submits(e, "Inspect") /\ UNCHANGED <<progress, transports>>
    /\ UNCHANGED <<control, started, journal, dirs, fetched, inc, stopping, queue, faults>>

\* The second half of fail_clone.
FailClone ==
    /\ Working("fail")
    /\ CompleteClone(work.exec, Result(work.exec, work.with))
    /\ Rests
    /\ UNCHANGED <<control, started, journal, files, fetched, inc, stopping, queue, faults>>

RemoveTransport ==
    /\ Working("remove")
    /\ transports' = transports \ {work.exec}
    /\ Rests
    /\ UNCHANGED <<control, started, progress, journal, dirs, fetched, inc, stopping, queue, faults>>

-----------------------------------------------------------------------------
(* resume_clone: the worker takes the executor's answer.                    *)

Seen(kinds) ==
    /\ work = Idle /\ flight # Idle
    /\ flight.kind \in kinds /\ flight.seen \notin {"none", "busy"}

\* fetched and after_unavailable.
ResumeFetch ==
    LET e == flight.exec
        Lands(todo) == flight' = Idle /\ work' = Do(e, todo, "")
    IN
    /\ Seen({"Fetch"})
    /\ \/ /\ flight.seen = "Ready" /\ Matches(e)
          /\ Advance(e, "Dispatched", 0) /\ Lands("dispatch")
          /\ UNCHANGED transports
       \/ /\ flight.seen = "Ready" /\ ~Matches(e)
          /\ BecomesUnknown(e) /\ flight' = Idle
          /\ UNCHANGED <<work, transports>>
       \/ /\ flight.seen = "Failed"
          /\ transports' = transports \ {e}
          /\ flight' = Idle /\ work' = Do(e, "fail", "SnapshotUnavailable")
          /\ UNCHANGED progress
       \/ /\ flight.seen = "Unavailable"
          /\ IF rec[e].n < MaxFetches
             THEN flight' = Submitted(e, "Backoff") /\ UNCHANGED work
             ELSE Lands("continue")
          /\ UNCHANGED <<progress, transports>>
       \/ /\ flight.seen = "Stopped" /\ flight' = Idle
          /\ UNCHANGED <<progress, work, transports>>
    /\ UNCHANGED <<control, started, journal, dirs, fetched, inc, stopping, queue, faults>>

ResumeBackoff ==
    /\ Seen({"Backoff"}) /\ flight' = Idle
    /\ IF flight.seen = "Elapsed" THEN work' = Do(flight.exec, "continue", "") ELSE UNCHANGED work
    /\ UNCHANGED <<control, started, progress, journal, files, fetched, inc, stopping, queue, faults>>

\* persist_settlement: the ending is recorded before the cleanup is.  What the journal
\* does not take is as unproven as what the host could not answer.
RecordEnding ==
    LET e == flight.exec IN
    /\ Seen({"Dispatch", "Settle"}) /\ flight' = Idle
    /\ \/ /\ flight.seen # "error"
          /\ attempts' = IF flight.seen = "unverified" THEN attempts
                         ELSE [attempts EXCEPT ![e][Len(attempts[e])].ended = flight.seen]
          /\ work' = Do(e, "clean", flight.seen)
          /\ UNCHANGED <<progress, faults>>
       \/ /\ \/ flight.seen = "error" /\ UNCHANGED faults
             \/ flight.seen \in Ended /\ Fault
          /\ BecomesUnknown(e) /\ UNCHANGED <<work, attempts>>
    /\ UNCHANGED <<control, started, runs, files, fetched, inc, stopping, queue>>

RecordCleanup ==
    LET e == work.exec IN
    /\ Working("clean")
    /\ \/ /\ attempts' = [attempts EXCEPT ![e][Len(attempts[e])].cleaned = TRUE]
          /\ Goes(e, "settle", work.with)
          /\ UNCHANGED <<progress, faults>>
       \/ Fault /\ Uncertain(e) /\ UNCHANGED attempts
    /\ UNCHANGED <<control, started, runs, files, fetched, inc, stopping, queue>>

\* finish_clone; the transport repository goes after the result.
FinishClone ==
    LET e == flight.exec IN
    /\ Seen({"Inspect"}) /\ flight' = Idle
    /\ IF flight.seen = "base" /\ Matches(e)
       THEN CompleteClone(e, Result(e, "Ready"))
       ELSE BecomesUnknown(e)
    /\ work' = Do(e, "remove", "")
    /\ UNCHANGED <<control, started, journal, files, fetched, inc, stopping, queue, faults>>

-----------------------------------------------------------------------------
(* The executor and, outside, the host: CloneStep::perform.                 *)

Outstanding(kinds, seen) ==
    /\ flight # Idle /\ flight.kind \in kinds /\ flight.seen = seen

Observes(seen) ==
    /\ flight' = [flight EXCEPT !.seen = seen]
    /\ UNCHANGED <<control, started, progress, attempts, dirs, inc, stopping, queue, work>>

BeginFetch ==
    /\ Outstanding({"Fetch"}, "none") /\ Observes("busy")
    /\ fetched' = [fetched EXCEPT ![flight.exec] = @ + 1]
    /\ transports' = transports \cup {flight.exec}
    /\ UNCHANGED <<runs, faults>>

\* Only a fetch that succeeded keeps its transport repository.
EndFetch ==
    /\ Outstanding({"Fetch"}, "busy")
    /\ \E seen \in {"Ready", "Failed", "Unavailable"} \cup (IF stopping THEN {"Stopped"} ELSE {}) :
          /\ Observes(seen)
          /\ transports' = IF seen = "Ready" THEN transports ELSE transports \ {flight.exec}
    /\ UNCHANGED <<runs, fetched, faults>>

EndBackoff ==
    /\ Outstanding({"Backoff"}, "none")
    /\ \E seen \in {"Elapsed"} \cup (IF stopping THEN {"Stopped"} ELSE {}) : Observes(seen)
    /\ UNCHANGED <<runs, transports, fetched, faults>>

\* CloneHost::dispatch sends Start; the host may act on it after the Node died.
SendStart ==
    LET e == flight.exec IN
    /\ Outstanding({"Dispatch"}, "none") /\ runs[e][Len(runs[e])] = "unstarted"
    /\ runs' = [runs EXCEPT ![e][Len(runs[e])] = "sent"]
    /\ UNCHANGED <<control, started, progress, attempts, files, fetched,
                   inc, stopping, queue, flight, work, faults>>

\* What closing the Scope makes of a Run, and what QueryRun then says of it.
Closed(run) ==
    CASE run = "running" -> "signal"
      [] run \in {"unstarted", "sent"} -> "sealed"
      [] OTHER -> run

\* CloneHost::settle: the Scope is closed, then the Run's ending is read; either
\* request may fail.
SettleRun ==
    LET e == flight.exec
        i == Len(runs[e])
        after == Closed(runs[e][i])
    IN
    /\ Outstanding({"Dispatch", "Settle"}, "none")
    /\ \/ /\ runs' = [runs EXCEPT ![e][i] = after]
          /\ Observes(IF after \in Ended THEN after ELSE "unverified")
          /\ UNCHANGED faults
       \/ /\ Fault /\ runs' = [runs EXCEPT ![e][i] = after]
          /\ Observes("unverified")
       \/ /\ Fault /\ runs' \in {runs, [runs EXCEPT ![e][i] = after]}
          /\ Observes("error")
    /\ UNCHANGED <<transports, fetched>>

InspectClone ==
    /\ Outstanding({"Inspect"}, "none")
    /\ \/ Matches(flight.exec) /\ Observes("base") /\ UNCHANGED faults
       \/ ~Matches(flight.exec) /\ Observes("other") /\ UNCHANGED faults
       \/ Fault /\ Observes("other")
    /\ UNCHANGED <<runs, transports, fetched>>

\* external: the process host starts a requested Run once.
HostStarts(e) ==
    \E i \in DOMAIN runs[e] :
        /\ runs[e][i] = "sent"
        /\ runs' = [runs EXCEPT ![e][i] = "running"]
        /\ UNCHANGED <<control, started, progress, attempts, files, fetched,
                       inc, stopping, queue, flight, work, faults>>

\* external: Git ends.  It cannot succeed without the directory, nor fetch
\* without the transport repository.
RunEnds(e) ==
    \E i \in DOMAIN runs[e], how \in Ended :
        /\ runs[e][i] = "running"
        /\ how = "zero" => Matches(e) /\ (i = TransportStep + 1 => e \in transports)
        /\ runs' = [runs EXCEPT ![e][i] = how]
        /\ UNCHANGED <<control, started, progress, attempts, files, fetched,
                       inc, stopping, queue, flight, work, faults>>

\* external: the directory is removed or replaced behind the Node's back.
Disturb(e) ==
    /\ Matches(e) /\ Fault
    /\ dirs' = [dirs EXCEPT ![e] = "other"]
    /\ UNCHANGED <<control, started, progress, journal, transports, fetched,
                   inc, stopping, queue, flight, work>>

-----------------------------------------------------------------------------
(* The process.                                                             *)

\* Mutant: executions still Pending are not recovered.
RecoveryPass_MOnlyUnknown ==
    /\ ~stopping /\ work = Idle /\ flight = Idle /\ queue = {}
    /\ queue' = {e \in Execs : rec[e].mode = "Unknown"}
    /\ queue' # {}
    /\ UNCHANGED <<control, started, progress, journal, files, fetched,
                   inc, stopping, flight, work, faults>>

\* Clones::recovery_pass.
RecoveryPass ==
    /\ ~stopping /\ work = Idle /\ flight = Idle /\ queue = {}
    /\ queue' = {e \in Execs : rec[e].mode \in {"Pending", "Unknown"}}
    /\ queue' # {}
    /\ UNCHANGED <<control, started, progress, journal, files, fetched,
                   inc, stopping, flight, work, faults>>

\* Shutdown::request.
Stop ==
    /\ inc <= MaxRestarts /\ ~stopping /\ stopping' = TRUE
    /\ UNCHANGED <<control, started, progress, journal, files, fetched,
                   inc, queue, flight, work, faults>>

\* A new process: enforce_runtime_incarnation, where the deployment is under runtime
\* control, enables it for good and closes the old binding, before configure_clone
\* clears the transport repositories nothing reads.
Restarts ==
    /\ inc <= MaxRestarts
    /\ inc' = inc + 1 /\ stopping' = FALSE
    /\ queue' = {} /\ flight' = Idle /\ work' = Idle
    /\ controlled' \in {controlled, TRUE}
    /\ binding' = IF binding = None THEN None ELSE [binding EXCEPT !.closed = TRUE]
    /\ transports' = {e \in transports : ReadsTransport(e)}
    /\ UNCHANGED <<permit, started, progress, dirs, fetched, faults>>

\* The process dies, or the worker gives up on a write that failed.
Crash == Restarts /\ UNCHANGED journal

\* The worker drains, then shutdown closes every Scope still open.
Exit ==
    /\ stopping /\ work = Idle
    /\ Restarts
    /\ attempts' = [e \in Execs |->
                      [i \in DOMAIN attempts[e] |-> [attempts[e][i] EXCEPT !.cleaned = TRUE]]]
    /\ runs' = [e \in Execs |->
                  [i \in DOMAIN runs[e] |->
                      IF attempts[e][i].cleaned THEN runs[e][i] ELSE Closed(runs[e][i])]]

-----------------------------------------------------------------------------
(* What the session hands to the worker: service/worker.rs handle.          *)

BindRuntime(b) ==
    /\ controlled /\ Ledger!Binds(b, Unfinished)
    /\ binding' = b
    /\ UNCHANGED <<controlled, permit, started, progress, journal, files, fetched,
                   inc, stopping, queue, flight, work, faults>>

AcceptClone(e, p) ==
    /\ Ledger!Accepts(e, p, Unfinished)
    /\ rec' = [rec EXCEPT ![e] = Pending("Reserved", 0)]
    /\ permit' = [permit EXCEPT ![e] = p]
    /\ queue' = queue \cup {e}
    /\ UNCHANGED <<controlled, binding, started, outbox, journal, files, fetched,
                   inc, stopping, flight, work, faults>>

\* acknowledge removes the delivery record only.
Acknowledge(e) ==
    /\ rec[e].mode = "Completed"
    /\ outbox' = outbox \ {e}
    /\ UNCHANGED <<control, started, rec, journal, files, fetched,
                   inc, stopping, queue, flight, work, faults>>

\* The worker takes requests between handlers, until it is told to stop.
HandleRequest ==
    /\ ~stopping /\ work = Idle
    /\ \/ \E b \in Ledger!Bindings : BindRuntime(b)
       \/ \E e \in Execs, p \in Ledger!Permits \cup {None} : (~controlled => e \in Local) /\ AcceptClone(e, p)
       \/ \E e \in Execs : Acknowledge(e)

-----------------------------------------------------------------------------
Init ==
    /\ controlled \in BOOLEAN
    /\ binding = None
    /\ rec = [e \in Execs |-> Absent]
    /\ permit = [e \in Execs |-> None]
    /\ started = {} /\ outbox = {} /\ transports = {} /\ queue = {}
    /\ attempts = [e \in Execs |-> <<>>] /\ runs = [e \in Execs |-> <<>>]
    /\ dirs = [e \in Execs |-> "none"]
    /\ fetched = [e \in Execs |-> 0]
    /\ inc = 1 /\ stopping = FALSE /\ flight = Idle /\ work = Idle /\ faults = 0

Starting == \E e \in Execs : RefuseReserved(e) \/ RefuseStarted(e) \/ BeginClone(e)

Handling ==
    \/ MakeDirectory \/ RecordDirectory \/ ContinueClone \/ DispatchStep \/ SettleClone
    \/ FailClone \/ RemoveTransport
    \/ ResumeFetch \/ ResumeBackoff \/ RecordEnding \/ RecordCleanup \/ FinishClone

Executing == BeginFetch \/ EndFetch \/ EndBackoff \/ SendStart \/ SettleRun \/ InspectClone

Next ==
    \/ HandleRequest \/ RecoveryPass \/ Starting \/ Handling \/ Executing
    \/ \E e \in Execs : HostStarts(e) \/ RunEnds(e) \/ Disturb(e)
    \/ Stop \/ Exit \/ Crash

Spec == Init /\ [][Next]_vars

\* The worker's loop, its executor and the host's answers go on while the process
\* lives, the recovery pass repeats on a timer, and a Node that stops ends.
FairSpec ==
    /\ Spec
    /\ WF_vars(RecoveryPass) /\ WF_vars(Starting) /\ WF_vars(Handling)
    /\ WF_vars(Executing) /\ WF_vars(Exit)

-----------------------------------------------------------------------------
(* Properties.                                                              *)

\* The durable records and the worker's memory have their types.
CloneTypeOK ==
    /\ controlled \in BOOLEAN
    /\ binding \in {None} \cup Ledger!Bindings
    /\ \A e \in Execs :
          /\ rec[e].mode \in {"Absent", "Pending", "Unknown", "Completed"}
          /\ rec[e].phase \in Phases
          /\ rec[e].n \in 0..(CASE rec[e].phase = "Dispatched" -> WorkloadSteps - 1
                                [] rec[e].phase = "Fetching" -> MaxFetches
                                [] OTHER -> 0)
          /\ rec[e].result \in IF rec[e].mode = "Completed" THEN Results ELSE {None}
          /\ permit[e] \in {None} \cup Ledger!Permits
          /\ attempts[e] \in Seq([ended : Ended \cup {"none"}, cleaned : BOOLEAN])
          /\ runs[e] \in [DOMAIN attempts[e] -> RunStates]
    /\ started \subseteq Execs /\ outbox \subseteq Execs /\ queue \subseteq Execs
    /\ transports \subseteq Execs /\ dirs \in [Execs -> {"none", "ours", "other"}]
    /\ fetched \in [Execs -> Nat] /\ inc \in Ledger!Incarnations /\ stopping \in BOOLEAN

\* The journal knows every Run and never says more than the host: one Run per step,
\* a cleaned Run can no longer act, and only the last may be open.
JournalIsTrue ==
    \A e \in Execs :
        /\ Len(attempts[e]) \in
              IF rec[e].phase = "Dispatched" THEN {rec[e].n, rec[e].n + 1} ELSE {0}
        /\ \A i \in DOMAIN attempts[e] :
              /\ attempts[e][i].cleaned => runs[e][i] \in Ended \cup {"sealed"}
              /\ attempts[e][i].ended \in {"none", runs[e][i]}
              /\ i < Len(attempts[e]) => attempts[e][i].cleaned

\* The kind of a terminal result is what happened, whatever crashed on the way: every
\* Run it rests on has ended for the host too, Ready needs a fetched snapshot and every
\* step's success, and a failure names the way the last Run ended.
ResultIsBacked ==
    \A e \in Execs : rec[e].mode = "Completed" =>
        LET last == Len(runs[e]) IN
        /\ \A i \in DOMAIN runs[e] : runs[e][i] \in Ended /\ attempts[e][i].cleaned
        /\ CASE rec[e].result.kind = "Ready" ->
                  /\ last = WorkloadSteps /\ \A i \in 1..last : runs[e][i] = "zero"
                  /\ fetched[e] > 0
             [] rec[e].result.kind = "Interrupted" -> last > 0 /\ runs[e][last] = "signal"
             [] OTHER -> last = 0 \/ runs[e][last] = "fail"

\* What a terminal result says of the directory is so: a retained one was made, and a
\* directory is passed over only where the process that made it died before recording
\* it and a later one, under runtime control, refused to go on (begin_clone).
ResidualIsHonest ==
    \A e \in Execs : rec[e].mode = "Completed" =>
        IF rec[e].result.residual = "Retained" THEN dirs[e] # "none"
        ELSE dirs[e] # "none" =>
                controlled /\ (permit[e] = None \/ permit[e].inc # rec[e].result.node)

\* The evidence checks of complete_clone and ProcessJournal::record never refuse what
\* the state machine has decided; a refusal would end the worker, again at every start.
EvidenceSuffices ==
    /\ Working("fail") =>
          Attributable(work.exec, work.with, Result(work.exec, work.with).residual)
    /\ Seen({"Inspect"}) /\ flight.seen = "base" =>
          Attributable(flight.exec, "Ready", "Retained")
    /\ Working("dispatch") => Recordable(work.exec)

\* What the fetch phase has done survives every restart: the attempts stay within
\* their limit over all processes, and the transport repository is there as long as
\* a step that reads it has not ended badly.
FetchSurvivesRestarts ==
    \A e \in Execs :
        /\ fetched[e] <= MaxFetches
        /\ /\ rec[e].mode \in {"Pending", "Unknown"}
           /\ rec[e].phase = "Dispatched" /\ rec[e].n <= TransportStep
           /\ runs[e] # <<>> => runs[e][Len(runs[e])] \notin {"fail", "signal"}
           => e \in transports

\* The executions of an earlier control epoch than the bound one; those accepted
\* before runtime control are earlier than any epoch that is open.
Earlier(e) ==
    IF permit[e] # None THEN binding.epoch > permit[e].epoch
    ELSE rec[e].mode # "Absent" /\ binding # None /\ ~binding.closed

\* A control epoch is bound only when nothing of an earlier one can still act: its
\* executions have their result, and no Run of theirs is running or may yet start.
HandoverIsClean ==
    \A e \in Execs : Earlier(e) =>
        /\ rec[e].mode = "Completed"
        /\ \A i \in DOMAIN runs[e] : runs[e][i] \notin {"sent", "running"}

\* Seen from the session, the Node keeps the promise of CloneLedger: no execution
\* ends twice or without its event, and none begins without a permit that holds.  An
\* execution that has begun may be carried on by any later incarnation.
ImplementsCloneLedger == Ledger!Spec

\* Outside runtime control, an accepted clone ends or is declared Unknown, through
\* any stop or crash in between, unless runtime control is enabled first.
LocalWorkFinishes ==
    \A e \in Execs :
        (~controlled /\ rec[e].mode = "Pending") ~> (rec[e].mode # "Pending" \/ controlled)

-----------------------------------------------------------------------------
(* What the comments say and the code does not keep.                        *)

\* enforce_runtime_incarnation: after a restart, responsibility for old processes "may be
\* settled; the old host incarnation cannot start another process".
OldPermitStartsNothing ==
    [][\A e \in Execs : permit[e] # None /\ permit[e].inc # inc =>
          Len(attempts'[e]) <= Len(attempts[e])]_vars
====
