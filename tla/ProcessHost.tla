---------------------------- MODULE ProcessHost ----------------------------
(***************************************************************************)
(* The process host and one scope of it (crates/process-runtime/src/       *)
(* host.rs, host/worker.rs and host_state/): the durable intents and       *)
(* observations of HostState, the volatile Progress of HostCoordinator,    *)
(* one worker exchange at a time with the scope's guardian over sockets,   *)
(* and crashes and recoveries of the host.  The guardian is the RunLedger  *)
(* it implements.                                                          *)
(*                                                                         *)
(* A worker may give up on a request (5 s) or die with its host while the  *)
(* request waits at the guardian: it is then executed late, and nobody     *)
(* reads its reply.  The guardian serves its connections concurrently on   *)
(* one thread: a waiting request, whose bytes have all arrived, is read in *)
(* the next turn of the event loop, so a later one may overtake it once.   *)
(***************************************************************************)
EXTENDS RunLedger, Sequences

CONSTANTS
    MaxEpoch,    \* bound on host incarnations
    MaxQueue,    \* bound on requests waiting at the guardian
    MaxFaults    \* bound on failed exchanges, storage faults and crashes

\* cancelled
Cancelled ==
    [launch |-> "NotStarted", direct |-> "NotStarted", cleanup |-> "BestEffortComplete"]

\* A process seen running or exited was started (ScopeRuntime: FactsAgree).
ASSUME HostAssumption ==
    /\ Runs \subseteq Nat \ {0} /\ Epochs = 1..MaxEpoch
    /\ MaxEpoch \in Nat \ {0} /\ MaxQueue \in Nat \ {0} /\ MaxFaults \in Nat
    /\ Accepted \in Facts /\ Cancelled \in Facts
    /\ \A f \in Facts : f.direct \in {"Running"} \cup Exits => f.launch = "Started"

VARIABLES
    journal,     \* the host journal
    up,          \* a host process owns the journal
    progress,    \* HostCoordinator.progress of the scope
    work,        \* the worker of the scope and the observation it collects
    guardian,    \* the guardian process: "absent", "starting", "up" or "gone"
    queue,       \* requests waiting at the guardian
    answer,      \* the reply the worker has not read yet
    launches,    \* how often a guardian was executed (a history variable)
    faults       \* how many faults have happened

vars == <<journal, up, progress, work, guardian, ledger, queue, answer, launches, faults>>

NoProgress ==
    [known |-> FALSE, status |-> "Pending", due |-> TRUE, pending |-> FALSE, settled |-> FALSE]

Idle ==
    [pc |-> "idle", close |-> FALSE, access |-> FALSE, stops |-> {}, todo |-> {},
     seen |-> [r \in {} |-> Accepted], scope |-> "None", status |-> "Observing"]

NoAnswer == [kind |-> "none"]

\* HostState::create
HostInit ==
    /\ journal = [epoch |-> 1, creator |-> 0, runs |-> {}, stops |-> {}, close |-> FALSE,
                  launched |-> FALSE, seen |-> [r \in {} |-> Accepted], scope |-> "None"]
    /\ up = TRUE
    /\ progress = NoProgress
    /\ work = Idle
    /\ guardian = "absent"
    /\ ledger = EmptyLedger(1)
    /\ queue = <<>>
    /\ answer = NoAnswer
    /\ launches = 0
    /\ faults = 0

-----------------------------------------------------------------------------
(* Requests of clients.  Each commits before it is acknowledged; a commit  *)
(* whose acknowledgement is lost has the same effect, except for the       *)
(* volatile half of close.                                                 *)

\* create_scope; journal.creator is ScopeCreationIntent.created_by, 0 without a scope.
CreateScope ==
    /\ up /\ journal.creator = 0
    /\ journal' = [journal EXCEPT !.creator = journal.epoch]
    /\ UNCHANGED <<up, progress, work, guardian, ledger, queue, answer, launches, faults>>

\* start
StartRun(r) ==
    /\ up /\ journal.creator # 0
    /\ r \notin journal.runs /\ ~journal.close
    /\ journal' = [journal EXCEPT !.runs = @ \cup {r}]
    /\ UNCHANGED <<up, progress, work, guardian, ledger, queue, answer, launches, faults>>

\* stop
StopRun(r) ==
    /\ up
    /\ r \in journal.runs \ journal.stops
    /\ journal' = [journal EXCEPT !.stops = @ \cup {r}]
    /\ UNCHANGED <<up, progress, work, guardian, ledger, queue, answer, launches, faults>>

\* close: the first one also makes the scope due at once.
CloseScope(acknowledged) ==
    /\ up /\ journal.creator # 0
    /\ ~journal.close
    /\ journal' = [journal EXCEPT !.close = TRUE]
    /\ progress' = IF acknowledged
                   THEN [progress EXCEPT !.known = TRUE, !.due = TRUE, !.pending = TRUE]
                   ELSE progress
    /\ UNCHANGED <<up, work, guardian, ledger, queue, answer, launches, faults>>

-----------------------------------------------------------------------------
(* HostCoordinator::tick.                                                  *)

\* observe_run: a confirmed launch is never taken back.
ConfirmedLaunch(f) == f.launch = "Started" \/ f.direct \in {"Running"} \cup Exits

Contradictory(j, r, f) ==
    /\ r \in DOMAIN j.seen /\ ConfirmedLaunch(j.seen[r])
    /\ f.launch = "NotStarted" \/ f.direct = "NotStarted"

ObservedRuns(j, seen) ==
    LET merged(r) == IF r \in DOMAIN j.seen /\ ConfirmedLaunch(j.seen[r])
                     THEN [seen[r] EXCEPT !.launch = "Started"] ELSE seen[r]
        news == {r \in DOMAIN seen : ~Contradictory(j, r, seen[r])}
    IN  [j EXCEPT !.seen = [r \in DOMAIN j.seen \cup news |->
                               IF r \in news THEN merged(r) ELSE j.seen[r]]]

\* The first half of tick: the finished exchange is committed and the next one is
\* put off, unless a close arrived in the meantime.
DrainedJournal ==
    IF work.pc # "done" THEN journal
    ELSE LET j == ObservedRuns(journal, work.seen)
         IN  IF work.scope = "None" THEN j ELSE [j EXCEPT !.scope = work.scope]

DrainedProgress ==
    IF work.pc # "done" THEN progress
    ELSE [progress EXCEPT
            !.known = TRUE,
            !.status = IF \E r \in DOMAIN work.seen : Contradictory(journal, r, work.seen[r])
                       THEN "Rejected" ELSE work.status,
            !.due = progress.pending,
            !.pending = FALSE]

\* Mutant: complete Runs settle a scope whose guardian has not confirmed the close.
ScopeSettled_MIgnoresScope(j) ==
    j.close /\ \A r \in j.runs : r \in DOMAIN j.seen /\ Complete(j.seen[r])

\* scope_settled
ScopeSettled(j) ==
    /\ j.close /\ j.scope \in Evidences
    /\ \A r \in j.runs :
          /\ r \in DOMAIN j.seen
          /\ Complete(j.seen[r]) /\ j.seen[r].direct \in {"NotStarted"} \cup Exits

\* The Runs of an exchange are asked for in the order of their ids.
NextRun(w) == CHOOSE r \in w.todo : \A q \in w.todo : r <= q

\* Mutant: closing is only asked about.
Request_MNeverCloses(w) ==
    [op |-> CASE w.pc = "bind" -> "Bind"
              [] w.pc = "scope" -> "Scope"
              [] w.pc = "runs" -> IF NextRun(w) \in w.stops THEN "Stop" ELSE "Start",
     run |-> IF w.pc = "runs" THEN NextRun(w) ELSE 0,
     epoch |-> journal.epoch, awaited |-> TRUE, overtaken |-> FALSE]

\* The requests of an exchange: bind, then the scope, then each Run in order.
Request(w) ==
    [op |-> CASE w.pc = "bind" -> "Bind"
              [] w.pc = "scope" -> IF w.close THEN "Close" ELSE "Scope"
              [] w.pc = "runs" -> IF NextRun(w) \in w.stops THEN "Stop" ELSE "Start",
     run |-> IF w.pc = "runs" THEN NextRun(w) ELSE 0,
     epoch |-> journal.epoch, awaited |-> TRUE, overtaken |-> FALSE]

\* The worker goes on to its next request, or has finished.  A request that finds
\* no listening guardian never arrives.
Continue(w) ==
    IF w.pc = "done" \/ (w.pc = "runs" /\ w.todo = {})
    THEN work' = [w EXCEPT !.pc = "done"] /\ UNCHANGED queue
    ELSE /\ work' = w
         /\ queue' = IF guardian = "up" /\ Len(queue) < MaxQueue
                     THEN Append(queue, Request(w)) ELSE queue

\* Mutant: a retry executes the guardian again.
Launch_MRetries(j, outcome) ==
    IF j.close THEN outcome = "none" ELSE outcome \in {"consumed", "spawned"}

\* begin_guardian: refused before its commit, or the one launch is consumed with or
\* without a guardian process.
Launch(j, outcome) ==
    CASE j.close \/ j.launched -> outcome = "none"
      [] OTHER -> \/ outcome \in {"consumed", "spawned"}
                  \/ outcome = "refused" /\ faults < MaxFaults

\* Mutant: the stop of a single Run waits for the close of its scope.
Prepared_MStopsOnClose(j) ==
    [Idle EXCEPT !.close = j.close, !.access = j.launched,
                 !.pc = IF j.launched THEN "bind" ELSE "done",
                 !.status = IF j.launched THEN "Observing" ELSE "Unavailable",
                 !.stops = IF j.close THEN j.runs ELSE {}, !.todo = j.runs]

\* worker::prepare and the start of Work::observe.  Without a guardian there is no
\* exchange: a closed scope that never launched one is finished here.
Prepared(j) ==
    LET base == [Idle EXCEPT !.close = j.close, !.access = j.launched,
                             !.stops = IF j.close THEN j.runs ELSE j.stops,
                             !.todo = j.runs]
    IN  IF j.launched THEN [base EXCEPT !.pc = "bind"]
        ELSE IF j.close
             THEN [base EXCEPT !.pc = "done", !.scope = "BestEffortComplete",
                               !.seen = [r \in j.runs |-> Cancelled]]
             ELSE [base EXCEPT !.pc = "done", !.status = "Unavailable"]

Prepare(j, p) ==
    \E outcome \in {"none", "refused", "consumed", "spawned"} :
        LET after == [j EXCEPT !.launched = @ \/ outcome \in {"consumed", "spawned"}] IN
        /\ Launch(j, outcome)
        /\ journal' = after
        /\ progress' = [p EXCEPT !.pending = FALSE]
        /\ guardian' = IF outcome = "spawned" THEN "starting" ELSE guardian
        /\ launches' = launches + (IF outcome = "spawned" THEN 1 ELSE 0)
        /\ faults' = faults + (IF outcome = "refused" THEN 1 ELSE 0)
        /\ Continue(Prepared(after))

\* tick: commit the finished exchange, then schedule the next one.
Tick ==
    LET j == DrainedJournal
        p == DrainedProgress
    IN  /\ up /\ work.pc \in {"idle", "done"}
        /\ IF j.creator = 0 \/ p.settled \/ ~p.due
           THEN /\ journal' = j /\ progress' = p /\ work' = Idle
                /\ UNCHANGED <<guardian, queue, launches, faults>>
           ELSE IF p.status = "Observing" /\ ScopeSettled(j)
           THEN /\ journal' = j /\ progress' = [p EXCEPT !.settled = TRUE] /\ work' = Idle
                /\ UNCHANGED <<guardian, queue, launches, faults>>
           ELSE Prepare(j, p)
        /\ UNCHANGED <<up, ledger, answer>>

\* The retry delay of the scope has passed.
BackoffElapses ==
    /\ up /\ work.pc = "idle" /\ ~progress.due /\ ~progress.settled
    /\ progress' = [progress EXCEPT !.due = TRUE]
    /\ UNCHANGED <<journal, up, work, guardian, ledger, queue, answer, launches, faults>>

-----------------------------------------------------------------------------
(* Work::observe, from one reply to the next request.                      *)

Reject(w) == [w EXCEPT !.status = "Rejected"]

\* What a mutant makes of one Run's answer.
Mutated(w, cancelled) ==
    LET r == NextRun(w)
        f == IF cancelled THEN Cancelled ELSE answer.facts
    IN  [w EXCEPT !.todo = @ \ {r},
                  !.seen = [q \in DOMAIN w.seen \cup {r} |-> IF q = r THEN f ELSE w.seen[q]]]

\* Mutant: any rejection of a stop counts as a cancellation.
Advanced_MAnyRejection(w) ==
    CASE w.pc = "bind" -> [w EXCEPT !.pc = IF answer.kind = "Bound" THEN "scope" ELSE "done"]
      [] w.pc = "scope" -> [w EXCEPT !.pc = IF answer.kind = "Scope" THEN "runs" ELSE "done"]
      [] OTHER -> IF answer.kind = "Run" \/ NextRun(w) \in w.stops
                  THEN Mutated(w, answer.kind # "Run") ELSE [w EXCEPT !.todo = @ \ {NextRun(w)}]

\* Mutant: a rejected Start counts as a Run that did not start.
Advanced_MRejectedStart(w) ==
    CASE w.pc = "bind" -> [w EXCEPT !.pc = IF answer.kind = "Bound" THEN "scope" ELSE "done"]
      [] w.pc = "scope" -> [w EXCEPT !.pc = IF answer.kind = "Scope" THEN "runs" ELSE "done"]
      [] OTHER -> Mutated(w, answer.kind # "Run")

\* What the worker is after reading the answer.
Advanced(w) ==
    CASE w.pc = "bind" ->
            IF answer.kind = "Bound" THEN [w EXCEPT !.pc = "scope"]
            ELSE [Reject(w) EXCEPT !.pc = "done"]
      [] w.pc = "scope" ->
            IF answer.kind = "Scope" THEN [w EXCEPT !.pc = "runs", !.scope = answer.scope]
            ELSE [Reject(w) EXCEPT !.pc = "done"]
      [] w.pc = "runs" ->
            LET r == NextRun(w)
                rest == [w EXCEPT !.todo = @ \ {r}]
                sees(f) == [rest EXCEPT !.seen =
                              [q \in DOMAIN w.seen \cup {r} |-> IF q = r THEN f ELSE w.seen[q]]]
            IN  CASE answer.kind = "Run" -> sees(answer.facts)
                  [] answer.kind = "UnknownRun" /\ r \in w.stops -> sees(Cancelled)
                  [] OTHER -> Reject(rest)

WorkerReads ==
    /\ work.pc \in {"bind", "scope", "runs"} /\ answer # NoAnswer
    /\ Continue(Advanced(work))
    /\ answer' = NoAnswer
    /\ UNCHANGED <<journal, up, progress, guardian, ledger, launches, faults>>

Abandoned(q) == [i \in DOMAIN q |-> [q[i] EXCEPT !.awaited = FALSE]]

InFlight == answer # NoAnswer \/ \E i \in DOMAIN queue : queue[i].awaited

\* What waits at the guardian without the request of the worker, which is the last.
Unsent(q) ==
    IF q # <<>> /\ q[Len(q)].awaited THEN [i \in 1..(Len(q) - 1) |-> q[i]] ELSE q

\* A transport error or the 5 s timeout ends the exchange.  The request may never
\* have arrived, or may still be executed.
WorkerFails ==
    /\ work.pc \in {"bind", "scope", "runs"}
    /\ InFlight => faults < MaxFaults
    /\ faults' = IF InFlight THEN faults + 1 ELSE faults
    /\ work' = [work EXCEPT !.pc = "done", !.status = "Unavailable"]
    /\ answer' = NoAnswer
    /\ queue' \in {Abandoned(queue), Unsent(queue)}
    /\ UNCHANGED <<journal, up, progress, guardian, ledger, launches>>

-----------------------------------------------------------------------------
(* The guardian, as its ledger.                                            *)

\* What a request of the current session does before the guardian follows its Runs.
\* An operation that finds nothing to do leaves the ledger as it is.
Effects(q) ==
    LET known == q.run \in DOMAIN ledger.facts
    IN  CASE q.op = "Close" /\ ledger.scope = "Open" -> {Sealed(ledger)}
          [] q.op = "Start" /\ ~known /\ ledger.scope = "Open" ->
                {WithRun(ledger, q.run, {q.run}, executed) : executed \in SUBSET {q.run}}
          [] q.op = "Stop" /\ known -> {WithStop(ledger, q.run)}
          [] OTHER -> {ledger}

\* What a failing journal leaves of it: nothing, the effect, or a lost acceptance.
PartialEffects(q) ==
    {ledger} \cup Effects(q)
    \cup IF q.op = "Start" /\ q.run \notin DOMAIN ledger.facts /\ ledger.scope = "Open"
         THEN {WithRun(ledger, q.run, {}, {})} ELSE {}

Reply(q, after) ==
    CASE q.op \in {"Scope", "Close"} -> [kind |-> "Scope", scope |-> after.scope]
      [] q.op \in {"Start", "Stop"} /\ q.run \in DOMAIN after.facts ->
            [kind |-> "Run", facts |-> after.facts[q.run]]
      [] q.op = "Stop" /\ q.run \notin DOMAIN after.facts -> [kind |-> "UnknownRun"]
      [] OTHER -> [kind |-> "Rejected"]

\* The guardian executes the i-th waiting request.
Served(i) == guardian = "up" /\ \A j \in 1..(i - 1) : ~queue[j].overtaken

\* Its reply is lost when nobody awaits it.
Replies(i, reply) ==
    /\ queue' = [j \in 1..(Len(queue) - 1) |->
                    IF j < i THEN [queue[j] EXCEPT !.overtaken = TRUE] ELSE queue[j + 1]]
    /\ answer' = IF queue[i].awaited THEN reply ELSE answer
    /\ UNCHANGED <<journal, up, progress, work, guardian, launches>>

\* execute_run and apply: a request of another session changes nothing.
SessionMatches(q) == q.epoch = ledger.session

GuardianBinds(i) ==
    /\ Served(i) /\ queue[i].op = "Bind"
    /\ LET epoch == queue[i].epoch
       IN  IF epoch < ledger.session
           THEN ledger' = ledger /\ Replies(i, [kind |-> "Rejected"])
           ELSE ledger' = [ledger EXCEPT !.session = epoch] /\ Replies(i, [kind |-> "Bound"])
    /\ UNCHANGED faults

GuardianExecutes(i) ==
    /\ Served(i) /\ queue[i].op # "Bind"
    /\ IF ~SessionMatches(queue[i])
       THEN ledger' = ledger /\ Replies(i, [kind |-> "Rejected"])
       ELSE \E g \in Effects(queue[i]) :
               /\ ledger' \in FollowUps(g)
               /\ Replies(i, Reply(queue[i], ledger'))
    /\ UNCHANGED faults

\* A storage failure rejects the request, at any point of executing it.
GuardianStorageFails(i) ==
    /\ Served(i) /\ faults < MaxFaults
    /\ LET q == queue[i]
       IN  IF q.op = "Bind"
           THEN /\ q.epoch > ledger.session
                /\ ledger' \in {ledger, [ledger EXCEPT !.session = q.epoch]}
           ELSE /\ SessionMatches(q)
                /\ \E g \in PartialEffects(q) : ledger' \in FollowUps(g)
    /\ Replies(i, [kind |-> "Rejected"])
    /\ faults' = faults + 1

\* The reconcile of every 50 ms.
GuardianFollows ==
    /\ guardian = "up"
    /\ Follow
    /\ UNCHANGED <<journal, up, progress, work, guardian, queue, answer, launches, faults>>

\* bootstrap: a new guardian's session is the host that created the scope.
GuardianBoots ==
    /\ guardian = "starting"
    /\ guardian' = "up"
    /\ ledger' = EmptyLedger(journal.creator)
    /\ UNCHANGED <<journal, up, progress, work, queue, answer, launches, faults>>

\* Nothing restarts a guardian: its launch stays consumed.
GuardianDies ==
    /\ guardian \in {"starting", "up"}
    /\ guardian' = "gone"
    /\ queue' = <<>>
    /\ UNCHANGED <<journal, up, progress, work, ledger, answer, launches, faults>>

-----------------------------------------------------------------------------
(* Crashes and recoveries of the host.                                     *)

\* The observations tick commits up to Run `last` of an exchange, none when it is 0.
SeenUpTo(last) ==
    [r \in {q \in DOMAIN work.seen : last # 0 /\ q <= last} |-> work.seen[r]]

\* The host process ends, between two steps or within the commits of a finished
\* exchange: each Run's observation is a transaction of its own.
Crash ==
    /\ up /\ faults < MaxFaults /\ journal.epoch < MaxEpoch
    /\ faults' = faults + 1
    /\ up' = FALSE
    /\ \E last \in {0} \cup (IF work.pc = "done" THEN DOMAIN work.seen ELSE {}) :
          journal' = ObservedRuns(journal, SeenUpTo(last))
    /\ progress' = NoProgress
    /\ work' = Idle
    /\ answer' = NoAnswer
    /\ queue' = Abandoned(queue)
    /\ UNCHANGED <<guardian, ledger, launches>>

\* HostState::recover
Recover ==
    /\ ~up /\ journal.epoch < MaxEpoch
    /\ up' = TRUE
    /\ journal' = [journal EXCEPT !.epoch = @ + 1]
    /\ UNCHANGED <<progress, work, guardian, ledger, queue, answer, launches, faults>>

HostNext ==
    \/ CreateScope
    \/ \E r \in Runs : StartRun(r) \/ StopRun(r)
    \/ \E acknowledged \in BOOLEAN : CloseScope(acknowledged)
    \/ Tick
    \/ BackoffElapses
    \/ WorkerReads
    \/ WorkerFails
    \/ \E i \in DOMAIN queue :
          GuardianBinds(i) \/ GuardianExecutes(i) \/ GuardianStorageFails(i)
    \/ GuardianFollows
    \/ GuardianBoots
    \/ GuardianDies
    \/ Crash
    \/ Recover

HostSpec == HostInit /\ [][HostNext]_vars

\* Faults are transient (MaxFaults bounds them), exchanges time out, the loops of the
\* host and the guardian run, and a dead host is restarted.  A guardian carries out
\* the stops and the close it accepted (Guardian: StopsComplete, CloseCompletes).
CompletingFollow ==
    /\ GuardianFollows
    /\ \A r \in ledger.stops \cap ledger.tracked : Complete(ledger'.facts[r])
    /\ ledger.scope = "Closing" /\ DOMAIN ledger.facts \subseteq ledger.tracked
          => ledger'.scope \in Evidences

HostFairSpec ==
    /\ HostSpec
    /\ WF_vars(Tick) /\ WF_vars(BackoffElapses) /\ WF_vars(Recover)
    /\ WF_vars(WorkerReads) /\ WF_vars(WorkerFails /\ ~InFlight)
    /\ WF_vars(GuardianBoots)
    /\ WF_vars(\E i \in DOMAIN queue : GuardianBinds(i) \/ GuardianExecutes(i))
    /\ WF_vars(CompletingFollow)

-----------------------------------------------------------------------------
(* Properties.                                                             *)

Messages ==
    [op : {"Bind", "Scope", "Close", "Start", "Stop"}, run : Runs \cup {0},
     epoch : Epochs, awaited : BOOLEAN, overtaken : BOOLEAN]

Answers ==
    [kind : {"none", "Bound", "UnknownRun", "Rejected"}]
    \cup [kind : {"Scope"}, scope : ScopeStates] \cup [kind : {"Run"}, facts : Facts]

Partial(domain, range) == UNION {[d -> range] : d \in SUBSET domain}

Statuses == {"Pending", "Observing", "Unavailable", "Rejected"}

Journals ==
    [epoch : Epochs, creator : Epochs \cup {0}, runs : SUBSET Runs, stops : SUBSET Runs,
     close : BOOLEAN, launched : BOOLEAN, seen : Partial(Runs, Facts),
     scope : ScopeStates \cup {"None"}]

Progresses ==
    [known : BOOLEAN, status : Statuses, due : BOOLEAN, pending : BOOLEAN, settled : BOOLEAN]

Exchanges ==
    [pc : {"idle", "bind", "scope", "runs", "done"}, close : BOOLEAN, access : BOOLEAN,
     stops : SUBSET Runs, todo : SUBSET Runs, seen : Partial(Runs, Facts),
     scope : ScopeStates \cup {"None"}, status : Statuses]

Ledgers ==
    [session : Epochs, scope : ScopeStates, tracked : SUBSET Runs, executed : SUBSET Runs,
     facts : Partial(Runs, Facts), stops : SUBSET Runs]

\* The shapes of the host journal, the coordinator, the worker, the guardian's ledger
\* and the socket; only the last request can have somebody waiting for its reply.
HostTypeOK ==
    /\ journal \in Journals
    /\ up \in BOOLEAN
    /\ progress \in Progresses
    /\ work \in Exchanges
    /\ guardian \in {"absent", "starting", "up", "gone"}
    /\ ledger \in Ledgers
    /\ queue \in Seq(Messages) /\ Len(queue) <= MaxQueue
    /\ \A i \in 1..Len(queue) : queue[i].awaited => i = Len(queue)
    /\ answer \in Answers
    /\ launches \in Nat /\ faults \in 0..MaxFaults

\* begin_guardian commits its launch row before it executes a guardian and never
\* deletes it: no crash, retry or recovery executes a second guardian for a scope.
GuardianLaunchedOnce == launches <= 1 /\ (launches = 1 => journal.launched)

\* A Run the host has recorded as cancelled ("cancelled before guardian acceptance")
\* is never executed, however late an abandoned Start of it reaches the guardian.
CancelledNeverExecutes ==
    \A r \in DOMAIN journal.seen :
        journal.seen[r].launch = "NotStarted" => r \notin ledger.executed

\* What observe_run commits never runs ahead of the guardian: it is an earlier state
\* of the guardian's own row, or the cancellation of a Run the guardian never took.
HostFollowsTheGuardian ==
    \A r \in DOMAIN journal.seen :
        IF r \in DOMAIN ledger.facts THEN FactsAdvance(journal.seen[r], ledger.facts[r])
        ELSE journal.seen[r] = Cancelled

\* When the host stops coordinating a scope (Progress.settled), every Run it accepted
\* is final in its journal and nothing that still waits at the guardian starts one.
SettledLeavesNothing ==
    progress.settled =>
        /\ \A r \in journal.runs : r \in DOMAIN journal.seen /\ Complete(journal.seen[r])
        /\ \A r \in ledger.executed : Complete(ledger.facts[r])
        /\ launches = 1 => ledger.scope \in Evidences

\* The one guardian of the scope is no longer there, was never executed although its
\* launch is consumed, or lost the handle of an accepted Run.
GuardianLost ==
    \/ guardian = "gone"
    \/ journal.launched /\ guardian = "absent"
    \/ ~(DOMAIN ledger.facts \subseteq ledger.tracked)

\* A close that was committed, acknowledged or not, is carried out by whichever host
\* comes next: the scope settles unless its guardian is lost.
CloseSettles == journal.close ~> (progress.settled \/ GuardianLost)

\* A committed stop of an accepted Run ends in a complete fact in the host journal.
StopsAreObserved ==
    \A r \in Runs :
        r \in journal.stops ~>
            (GuardianLost \/ (r \in DOMAIN journal.seen /\ Complete(journal.seen[r])))
=============================================================================
