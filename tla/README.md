# TLA+ models of Ora Desktop

This directory holds a formal development kept beside the Rust sources: TLA+
modules that model the parts of the system whose correctness depends on
interleavings, faults and restarts, TLC configurations that check them on small
instances, and TLAPS proofs for every value of the constants. `PROJECT.json` is
the machine-readable index: components, runs, mutants, the map from definitions
to source lines, hazards, findings and theorems.

Paths below are relative to `src/`.

## Contents

1. The system and its parts (inventory)
2. The plan
3. The modules and the code they model
4. The runs: bounds, fairness, results
5. The proofs
6. Findings
7. What is not modelled, and what the models assume

## 1. The system and its parts

Ora Desktop runs coding agents for a user: a desktop shell starts agent
sessions, workflows and terminals, configures agents through *Effects*, and runs
every workload process below a *process runtime* that survives the desktop
process. A node and a controller carry the same work to remote machines.

| Part | State | Operations | What makes it hard | What correct means |
|---|---|---|---|---|
| Process runtime kernel (`crates/process-runtime/src/scope.rs`, `stop.rs`) | one scope: state, a record per Run (launch, direct process, cleanup, stop plan) | start, stop, close, reconcile | the platform may answer late, uncertainly or contradictorily; deadlines overflow; requests are retransmitted | facts are final and agree; stops only tighten and are carried out; Closed means clean |
| Process guardian (`guardian/runs.rs`, `management.rs`) | SQLite run ledger, host session, live kernel | bind, start, stop, close, 50 ms reconciliation | storage fails at any statement, a commit reports an error although it happened, two hosts overlap | a Run executes at most once; admission is sealed once; durable stops complete; Closed is durable and clean |
| Process host (`host.rs`, `host/worker.rs`, `host_state/`) | intents and observations in SQLite, volatile progress, one worker per scope | create, start, stop, close, tick, crash, recover | requests are lost, abandoned, executed late; the host dies anywhere; a guardian is launched once, ever | one guardian per scope; the journal never runs ahead of the guardian; what was cancelled never runs; closes settle |
| Rootless Linux platform (`linux_best_effort.rs`) | process handles, members found by scanning `/proc` | spawn, observe, signal | the scan is not atomic; process ids are reused | no member is forgotten while it is alive; no stranger is signalled |
| Effects (`crates/effect`, `crates/db/src/repository/effect`, `crates/backend/src/effect_worker.rs`) | scopes, targets, resources, requests, claims, attempt journals, ledger, directories | declare, retire, claim, plan, apply, verify, finalize, retry, quarantine, recover | leases run out under a slow worker, the process dies between a directory change and its record, two Targets share a directory, the user edits it meanwhile | intent is never lost, status never lies, ambiguous work is parked, user work survives, requests settle |
| Skill directories (`crates/effect-skill`) | one directory per resource with a marker | plan, stage, back up, install, verify, clean up | each file operation can fail between two others | ledger and disk agree; rollbacks restore |
| Workflow run engine (`crates/application/src/workflow_run/engine`, `crates/backend/src/workflow/run`) | run, node attempts, branches, loop regions | start, complete, fail, cancel, resume, restart, boot recovery | callbacks arrive late or twice, retry timers are never disarmed, a crash separates a completion from its successors | no node is dispatched twice, terminal runs stay terminal, runs end |
| Workflow node executor (`executor.rs`, `interactive/`) | node rows, bound agent sessions | start session, bind, park, resume | a node is cancelled while its session starts | no session outlives its node unseen |
| Node executions, outbox, runtime control (`crates/node-db`, `apps/ora-node`) | accepted commands, results, pending events, runtime bindings and permits | accept, reject, advance, complete, acknowledge, recover, bind | redelivery, restart between effect and commit, late bindings of older epochs | each command takes effect once; every result is eventually delivered; closed input stays closed |
| Controller coordination (`apps/ora-controller`) | leases, dispatches, receipts | claim, dispatch, deliver, acknowledge | leases expire under a working holder, messages repeat | one holder per epoch; no receipt is lost |
| Agent runtime, ACP, history (`crates/agent-runtime`, `acp`, `history`) | session actors, pending prompts, stored turns | start, prompt, cancel, attach, expire | answers race cancellation and inactivity | every prompt ends once; history is what was streamed |
| Scheduler and scheduled tasks (`crates/scheduler`, `db/.../scheduled_run.rs`) | handles, occurrences, runs | register, fire, cancel, recover | cancellation races the timer; restarts replay occurrences | an occurrence runs at most once |
| Streams, terminals (`stream_registry.rs`, `crates/pty`) | live ids, attachments, output history | open, attach, cancel, close | output races attachment and exit | output is delivered once and in order |
| Plugins, projects, Git, persistence, settings, surfaces, logging, shell and frontend | mostly configuration and files | sequential operations behind one lock, I/O | partial failure | see `PROJECT.json` for each |

The parts interact in a chain: the desktop backend drives workflows and agent
sessions; sessions and plugins run as Runs of process scopes; the host keeps the
intents of those scopes and follows one guardian per scope; the guardian keeps
its ledger and drives the kernel; the kernel drives the platform. Effects is
independent of that chain except that activation notifies running agents.

## 2. The plan

The order follows the damage a mistake would do and how hard it is to test.

1. *Done.* The process runtime: kernel, guardian, the ledger a guardian promises,
   the host on top of that ledger. Proofs of the kernel, of the guardian and of
   the refinement from guardian to ledger.
2. *Done.* Effects with the Skill directory adapter, the worker, the recoverer
   and the attempt journal.
3. *Done, composite nodes apart.* The workflow run engine: one run of a graph
   with swift, automatic and interactive nodes; callbacks in any order, timers,
   cancellation, resume, restart, crash and boot recovery. Proofs that what ended
   stays ended and that status, rows, graph and owners agree.
4. *Done for clone executions.* The Node's executions with journal, outbox and
   runtime control; the ledger they implement; that ledger composed with the
   Controller and Cloud over sessions that break. Proofs of the refinement, of
   the journal, of the results and of the composition's safety.
5. *Open.* Small modules with one hazard each: the 32-slot rotation of the host,
   the stream registry, the scheduler handle, the terminal attachment, the
   `/proc` scan; Iteration and Loop regions of the workflow engine; the other
   execution families of the Node.
6. *Done.* Proofs of `ProcessHost` safety against any guardian that keeps
   `RunLedger`.
7. *Open.* Proofs of `Effects` safety (`JournalHasOwner`, `QuarantineHolds`,
   `IntentIsNotLost`).

Runs stay small in number: one per question. Properties that a proof covers for
every instance leave their run when room is needed; the type invariants
`HostTypeOK`, `EffectsTypeOK` and `WorkflowTypeOK` were checked on these
instances and left the runs for the same reason.

## 3. The modules and the code they model

A definition whose name ends in `_M` and a word is a *mutant*: the definition
after it with one plausible bug. `PROJECT.json` names for each checked property a
mutant that TLC must refute, so that no property holds only by the shape of the
model.

### ScopeKernel: pure operators of the kernel

`stop.rs` and the record-level half of `scope.rs`: stop plans (`NewPlan`,
`Tighten`, `PendingSignal`, `Delivered`), the merge of an observation into a
record (`Observe`), one record's reconciliation (`Reconciled`), the scope's state
afterwards (`ScopeAfter`), and the relations `FactsAdvance` and `PlanAdvances`
that say which changes of a record are legal. Deadlines are instants up to
`MaxInstant`; a sum beyond it overflows, as `Instant::checked_add` does.

### ScopeRuntime: the kernel as a state machine

| State | Code |
|---|---|
| `guarantee`, `state`, `runs` | the fields of `ScopeRuntime<P>` |
| `now` | the `Instant` each call receives |
| `spawns` | history: calls of `Platform::spawn` |

`Start`, `StopRun`, `Close`, `Reconcile` are its methods. The platform is the
environment: every `spawn`, `signal` and `observe` answers anything its type
allows, contradictions included.

### Guardian: ledger, fence and timer of one scope

| State | Code |
|---|---|
| `session` | `guardian_host_session` |
| `journal` | `guardian_run_scope` and `guardian_runs` |
| `kernel`, `live`, `settled` | `Runs.runtime`, `Runs.live`, `Runs.settled` |
| `wedged` | a connection left inside a transaction by a failed rollback |

A mutex makes a request or a timer tick atomic. Within it each statement may
fail: a write is done, lost (applied, error reported), failed, or wedged.
`Reaches` enumerates how far one reconciliation gets. `Bind`, `Start`, `Stop`,
`Close` are `management.rs` and `Runs::apply`; `Reconcile` is the 50 ms timer.

### RunLedger: what a guardian promises

One variable, `ledger`: session epoch, scope state, facts and stop intents per
accepted Run, which Runs are followed and which may have executed. Actions:
`Takeover`, `Accept`, `Stop`, `Close`, `Follow`. `Guardian` implements it
(`ImplementsLedger`), `ProcessHost` extends it, so the host is checked against
the promise and not against one implementation.

### ProcessHost: intents, workers, crashes

| State | Code |
|---|---|
| `journal` | the SQLite host state: epoch, scope creation, runs, stops, close, guardian launch, observations |
| `progress`, `work` | `Progress` of the coordinator; the worker of the scope and what it has collected |
| `guardian`, `ledger` | the guardian process; its `RunLedger` |
| `queue`, `answer` | requests waiting at the guardian's socket; the reply not yet read |

`Tick` is `HostCoordinator::tick` as a whole: it drains the finished exchange,
then settles the scope or prepares the next exchange, and may launch the
guardian. `WorkerReads` and `WorkerFails` are the steps of `Work::observe`. A
request can be lost, or executed after the worker gave up or its host died;
`Crash` may fall between the transactions of one drained exchange.

Three abstractions deserve mention. A request that finds `MaxQueue` requests
waiting is treated like a refused connection. The guardian serves its
connections on one thread, so a request whose bytes have arrived is overtaken at
most once (`overtaken`); if requests of one epoch could be reordered without
bound, `CancelledNeverExecutes` would not hold, because the fence compares
epochs only. And `Contradictory`, the check of `observe_run` against a retracted
launch, is modelled but never fires: the guardian's facts are final already.

### EffectState and Effects: convergence of one Effects scope

`EffectState` holds what the reconciler decides without touching anything: the
planner's change of one Resource, status merging, request transitions.
`Effects` is the state machine.

| State | Code |
|---|---|
| `scope`, `target`, `resource`, `request`, `claim`, `attempt`, `ledger`, `projected` | the `effect_*` tables |
| `disk`, `stash`, `litter` | a Resource's directory item, the backup of the latest operation, what older ones left |
| `worker`, `pass` | the effect worker's batch and lease; the Target it reconciles with its snapshot |
| `recoverer` | an API thread inside `recover_target` |
| `spent` | what is used up of the bounds; `overrun` after a lease ran out under a working pass, `raced` after a recovery committed on evidence that another Target's pass had outdated |

Every transaction is one step, every rename one step, every external call one
step. `load_reconcile_snapshot` reads outside a transaction and is four steps.
Steps fail (`StepFails`, `InstallFails`, `GiveUp`), leases run out
(`LeaseExpires`), the process dies (`Crash`) and boots (`Boot`), users edit
(`UserEdits`), Consumers are uninstalled (`RetireTarget`), Targets are retried
and recovered.

Abstractions: a scope desires at most one Skill, so a Resource has one item; a
content stands for a revision and its digest; operations of one attempt and
Targets of one batch are taken in any order, where the code has a fixed one; one
recovery runs at a time; the snapshot that only computes which Resources to
claim is folded into `ClaimResources`; Targets, Resources and their bindings are
fixed by the instance.

### WorkflowRun: one run, its engine and everything that calls it

| State | Code |
|---|---|
| `run`, `rows`, `decided`, `inter` | `workflow_runs.run_status`, the live `workflow_node_runs`, the payload's condition decisions, the interactive nodes of the pinned snapshot |
| `gate`, `todo`, `ended` | the per-run lock of `KeyedResourceLocks` and how far its holder is; the rows its pass has loaded |
| `preparing`, `prompting`, `muted`, `timers` | session drivers before and after the bind, Running rows whose driver ended without a report, armed retry timers |
| `turns`, `claims`, `reqs` | open human turns, `completing_node_runs`, manual completions between their critical sections |
| `proc` | the process: up, down, or swept and not yet reconciled |

`Projection` is the fixpoint of `branch_projection.rs` over the graph. An entry
point commits its first transaction and enters the scheduling loop in one step
(`StartRun`, `DriverCompletes`, `CommitCompletion`, ...); the loop then takes a
step per transaction while it holds the gate (`Head`, `SwiftCompletes`,
`SwiftFails`, `Plan`). Three things run outside the gate and can fall between
those steps: the bind of a session (`BindSession`), the restoring of a refused
turn (`RestoreTurn`) and the preparation of a completion (`PrepareCompletion`).
`Sweep` and `Reconcile` are the two halves of boot recovery.

A node id is a pair of a node and a number, so a soft-deleted row leaves `rows`
and its late callbacks find nothing. Swift nodes (start, condition, aggregator,
output) are completed by the loop itself; whether their variables resolve is a
choice. `Patient` are the Agent nodes with `promptInactivity: "wait"`, whose
prompts and turns may stay open for ever. What a completion snapshot, a prompt or an answer contains is left out.

### CloneLedger, NodeClones, CloneControl: clone executions across machines

`CloneLedger` is what a Node promises about its clone executions, whatever
happens to its process: each is accepted once, starts only under a permit that
held, and ends once, with a result whose event stays in the outbox until it is
acknowledged. It also holds runtime control (`Binds`, `PermitHolds`, `MayStart`,
from `crates/node-db/src/runtime_control.rs`).

`NodeClones` is how the Node keeps it.

| State | Code |
|---|---|
| `controlled`, `binding`, `permit`, `started` | `runtime_binding`, `execution_control` |
| `rec`, `attempts`, `outbox` | `clone_executions`, `process_attempts`, `clone_outbox` |
| `queue`, `flight`, `work` | `Clones::queue`, the step handed to the executor with its answer, what is left of the worker's current handler |
| `dirs`, `transports`, `runs`, `fetched` | external: files on disk, the host's truth of each Run, fetches performed |
| `inc`, `stopping` | the incarnation of the process, `Shutdown::requested` |

A handler of the worker is a chain of short transactions, and the process may
die between any two, so each is a step: `MakeDirectory` and `RecordDirectory`,
`DispatchStep` and the executor's `SendStart`, `SettleRun` and the three writes
after it. A journal write may fail, which ends the worker and with it the
process; a restart may enable runtime control. `Shown` reads the ledger's `status` off the records;
`ImplementsCloneLedger` is the refinement.

`CloneControl` composes that ledger with the Controller (`apps/ora-controller`):
two ordered streams of one session, the poll that binds, queries and
retransmits, `Reconcile` (take over, receipt, acknowledgement), and Cloud, which
is external and modelled from what the Controller asks of it. A session breaks
with everything under way (`Drop`), which also stands for a restart of the
Controller, whose store is durable.

Abstractions: execution *k* is dispatched in control epoch *k*; a permit's
clock is a choice, so a permit that holds may be refused; a poll waits while
`Window` messages are under way; a result is its kind, what it says of the
directory and the incarnation that wrote it.

## 4. The runs

| Run | Instance | Distinct states | Checks |
|---|---|---|---|
| `kernel` | one Run, three graces (one that overflows), two timeouts, clock 0..2 | 11,304 | `TypeOK`, `ClosedIsClean`, `NoEarlyForce`, `FactsAreFinal`, `StopsAreForced` |
| `guardian` | one Run, two host epochs, every storage fault, clock 0..1 | 6,320 | `KernelFollowsJournal`, `StopsComplete`, `CloseCompletes`, `StorageNeverCancelsStops`, `ImplementsLedger` |
| `host` | one Run, two host incarnations, queue of 3, one fault | 98,470 | `GuardianLaunchedOnce`, `CancelledNeverExecutes`, `HostFollowsTheGuardian`, `SettledLeavesNothing`, `CloseSettles`, `StopsAreObserved` |
| `effects` | two Targets on one Resource, two generations, one retirement, one fault | 321,334 | `JournalHasOwner`, `QuarantineHolds`, `IntentIsNotLost`, `LedgerMatchesDisk`, `RequestsAreSettled`, `RetirementEnds` |
| `effects_user` | one Target with two Resources, two contents, two generations, one user edit, one fault | 1,504,881 | `LiveWorkIsNotQuarantined`, `UserWorkIsKept` |
| `effects_overtaken` | one Target, two generations, no fault | violation | `OlderPassKeepsNewerWork` |
| `effects_quarantine` | two Targets on one Resource, one fault | violation | `ResourceKeepsQuarantine` |
| `workflow` | a Condition, an automatic and an interactive, patient Agent that join, one retry, one resume or restart, one completion request, one crash | 88,745 | `RunAgreesWithRows`, `RowsFollowGraph`, `RunningAgentIsDriven`, `EndedIsFinal`, `RunProgresses` |
| `workflow_pending` | the same graph, no retry, one resume, one crash | violation | `InvalidPendingFailsClosed` |
| `clones` | one execution, two epochs, three steps, three fetches, two restarts, one fault | 160,415 | `ResultIsBacked`, `ResidualIsHonest`, `EvidenceSuffices`, `FetchSurvivesRestarts`, `HandoverIsClean`, `ImplementsCloneLedger`, `LocalWorkFinishes` |
| `clones_incarnation` | one controlled execution, one epoch, one restart, no fault | violation | `OldPermitStartsNothing` |
| `clone_control` | two executions in two epochs, one restart, one lost session | 267,181 | `ResultsAreKept`, `NothingOutlivesItsEpoch`, `ResultsAreTakenOver`, `HandoverCompletes` |

**Why the bounds are enough.** Runs of a kernel do not interact except through
the scope's state, so one Run shows every record-level behaviour and the theorems
cover any number; the same holds for the guardian, whose refinement and safety
are proved for any set of Runs. Two host epochs give one takeover, with the requests
of the earlier host still waiting; a queue of three holds an abandoned request, a
late one and the current one. For Effects, two generations give one change of
intent at every point of a pass; two Targets on one directory contend for it,
and one Target with two directories has passes that stop between their
operations. The workflow graph has
every kind of node, a branch, a join whose sources settle in any order, and one
of each: retry, crash, resume or restart, completion request. A second crash or
retry repeats the first from an equal state; attempts of different nodes meet
only in the projection and the gate. A clone execution is the only client of its
records and files, and two epochs give one handover, so one execution suffices
for `clones`; with two restarts a crash can fall into the recovery from a crash.
`clone_control` has both kinds of store, a handover between epochs, and a lost
session with everything under way.

**Deadlock** is not checked where the system may rest: a closed scope, a settled
host, a clock at its bound. The Effects runs check it.

**Fairness.**
- Kernel: time passes, and a reconciliation whose signals are delivered happens
  again and again; the guardian's timer calls it every 50 ms.
- Guardian: the same, plus healthy reconciliations, because storage faults are
  transient unless the connection is wedged (every liveness property names that
  case), and a workload that was sent SIGKILL is eventually seen gone.
- Host: the loops of host and guardian run, exchanges time out after 5 s, a dead
  host is restarted, faults are bounded. `CompletingFollow`, that a guardian
  carries out what it accepted, is what `StopsComplete` and `CloseCompletes`
  establish of `Guardian`.
- Effects: the worker and an API thread keep running, leases and retry delays run
  out, the application is started again. A retry is claimed with strong fairness:
  its delay passes whatever else the queue does. Users, sources and faults owe
  nothing.
- Workflow: the holder of the gate goes on, sessions are bound, timers fire, the
  next process recovers the run. The prompt or turn of a node under the default
  inactivity timeout ends, in an answer or a failure: silence ends it, and an
  Agent is assumed not to stream for ever. The one of a `Patient` node need not
  end (`docs/workflows/workflow-runs.md`: a stuck execution may need a manual
  stop). The user owes nothing, so a run that awaits input may wait.
- Node clones: the worker's loop, the answers of executor and host, the recovery
  timer, and the end of a process that was asked to stop.
- Clone control: both ends read and write their streams, the Controller polls and
  reconnects, a stopped Node is started again, and Cloud closes an epoch whose
  incarnation is gone. The last is an assumption about code outside this
  repository, and `ResultsAreTakenOver` rests on it: without it TLC finds a
  restarted Node whose results stay in the outbox, because the Controller goes on
  offering the binding of the old incarnation.

**What the runs show.** Beyond the absence of errors: a stop accepted by a kernel
is forced even if the journal never recovers; a guardian never closes over an
acceptance whose commit was ambiguous; a Run the host reported as cancelled never
executes, because the guardian answers `UnknownRun` only to the current epoch and
an abandoned Start is overtaken at most once; an unfinished Effects journal is
never without its Target and request; live work is not quarantined by the scan
that runs beside it; what a user wrote is moved aside at worst. A workflow's
Running Agent always has exactly one owner, whatever retries, cancellations and
restarts came before, except where the user stopped the prompt of an automatic
node; and a run stays Running only on a row that is the user's to act on
(`LeftToUser`), or on the invalid Pending row of the finding below. A clone
reports Ready only for what the host and the directory really say, and a retained
directory only where there is one, through every crash between a side effect and
its record; fetches are counted
before they are made, so restarts cannot add any; no result is lost between the
Node's outbox and the store; and no work of a control epoch outlives it.

## 5. The proofs

Eight modules hold theorems, checked by TLAPS for every value of the constants
under the `ASSUME`s of the modules they extend:

- `ScopeKernel`, `Guardian`: clock bounds are natural numbers, graces are natural
  or `WaitForAll`, epochs are positive, the observations are those the Linux
  platform can make.
- `ProcessHost`: the facts a guardian can report include an accepted and a
  cancelled Run, and a process that runs or has exited was started
  (`scope.rs` confirms the launch with every such observation).
- `WorkflowRun`: the graph is acyclic (`graph.rs` refuses a cycle with
  `CycleDetected`), stated as: every nonempty set of nodes has one that no edge
  enters from the set. Edges join nodes, none leads to Start, only Agent nodes are
  interactive.
- `NodeClones`: at least one step follows the last one that reads the transport
  repository (`WORKLOAD_STEPS` is 3, `TRANSPORT_STEP` is 1). With only two steps
  `FetchSurvivesRestarts` would fail, since the transport could be removed while
  a step that reads it is still Unknown.

A leaf that names `Zenon` is one that prover finds at once; the others are left
to the default, which begins with SMT.

**ScopeKernelProofs** has the lemmas about the operators. `RecordOK` says what a
record always satisfies: its type, agreement of its three facts, no Force before
the deadline, and that a completed cleanup carries the evidence of the scope's
guarantee. `SpawnedOK`, `StoppedOK`, `ObserveOK` and `ReconciledOK` show that
each operation keeps `RecordOK` and only advances facts and plans.

**ScopeRuntimeProofs** proves `Spec => []IInv` and derives `TypeCorrect`,
`ClosedScopesAreClean`, `ClosingCoversEveryRun`, `ForceWaitsForTheDeadline`,
`SnapshotsAgree`, `SpawnedOnce`, and the action properties `FactsStayFinal`,
`StopsStayAccepted`, `SealedForGood`. The strengthening is `RecordOK`: without
the evidence it fixes, a scope could close over records whose evidence differs
from its own.

**GuardianProofs** proves the guardian under every storage fault. Its `IInv` has
three parts: `KernelOK` (records satisfy `RecordOK`; a clean record's process has
exited or never started; a closed kernel is clean), `JournalOK` (rows are finite
in number; a sealed journal has stopped every row) and `Agree` between the two
(every live Run has a row whose facts the kernel's have reached; a row without a
live handle confirms nothing; a closed journal faces a kernel in the same state).
The last conjunct is the one that makes it inductive: otherwise a reconciliation
could write an older state over a confirmed one. From it follow `TypeCorrect`,
`SpawnedOnce`, `KernelNeverLeads`, `JournalNeverLeads`, `ClosedJournalsAreClean`,
`SealStopsEveryRow`, `SettledOnlyWhenDurable`, `JournalFactsStayFinal`,
`SealedForGood`, and `GuardianImplementsLedger`: the refinement to `RunLedger`
through `LedgerOf`. The refinement argument treats a request as the ledger's
action on the journal followed by what reconciliation adds, and shows that what
it adds is a `Follows` step: facts advance, lost rows stay, and the scope closes
only over tracked and complete Runs.

**ProcessHostProofs** proves `OneGuardian`, `HostNeverAhead`, `CancellationHolds`
and `SettlingIsFinal` for any number of Runs, host incarnations, waiting requests
and faults, against every guardian that keeps `RunLedger`. What a worker learns
may be old when it is committed, and what earlier workers asked may still be
executed, so `HostInv` says of all that is under way how it stands to the ledger:
the requests waiting at the guardian (`QueueOK`), the answer not read
(`AnswerOK`), the exchange not committed and the journal (`SeenInv`). The hard
case is a cancellation. It is a claim about the future, that no Start of the Run
will ever be executed: `Barred` says that the journal stops the Run, that the
worker at the guardian stops it, and that no Start of it is waiting. The last part
holds because a worker asks about Runs only after its bind and its scope request
were served: the bind overtakes every older request still waiting, the scope
request cannot overtake it again, so while Runs are asked for nothing but the
worker's own request waits.

**WorkflowRunProofs** proves `EndedStaysEnded` (`Spec => EndedIsFinal`) for every
graph, retry budget and number of requests and crashes. Callbacks re-read the row
they write; the scheduling loop does not, it writes the rows its pass has loaded.
`EndedInv` says why it may: while the loop holds the gate, the run is Running and
every row left in `todo` is a Running swift row (`GateInv`). The one write
outside the gate parks human turns, and those belong to Agent nodes. `RowsInv`
and `DriverInv` add that only a Running attempt waits for its retry and that no
driver holds such an attempt, since completing it would leave a settled row that
its timer could still wake. `PassIsCurrent` states the loop's part on its own.

`FlowInv` extends it to `RowsStandOnTheGraph`, `StatusMatchesRows` and
`RunningRowsAreDriven`. `Projection` is a recursion over the graph, and the
prover has no induction over data. Acyclicity replaces it: a set of nodes where
two solutions differ has a node that no edge enters from the set, and there the
equations agree (`SolutionsAgree`); the same argument shows that the recursion has
a solution at all (`ProjectionIs`), that a transaction which leaves the settled
rows below a node alone leaves its projection alone (`ProjectionStays`), and that
a run with nothing in flight and nothing ready is done (`NothingLeft`). `Owned`
says of every attempt id, live or deleted, that at most one driver, human turn or
stopped prompt has it, and that a Running row of an Agent node has one or waits
for a timer that is armed; ids deleted by a resume or restart are never drawn
again, so a late callback of theirs finds nothing.

**NodeClonesProofs** proves the refinement `NodeImplementsLedger`. Nothing in
memory survives a crash, so what licenses a step must be readable from the
records: `NodeInv` says that an execution past Reserved, or one that the worker
or the executor is busy with, was licensed, and a license is never withdrawn.
Each action is then a step of the ledger or a stutter under `Shown`.

It also holds the relation between the Node's tables and the host.
`Journal(r, a, u)` says of one execution that its attempt rows say no more than
the host knows, that all but the last are cleaned up, and that a Completed one
has none open; `FlightJournal` and `WorkJournal` say the same of an answer not
yet recorded. `EpochsInv` and `TypesInv` are what remains of control epochs and
of types; `LocalInv` says that before an epoch is opened, what was accepted
outside runtime control has ended.

**CloneResultProofs** draws the conclusions. `JournalTrue`, `HandoversAreClean`
and `NodeTypes` follow from those invariants; the point of the second is that
`unfinished_runtime_executions` reads only the Node's own tables, while the
promise is about processes on the host. `ResultsAreBacked`, `EvidenceIsEnough` and
`FetchesSurvive` need `TrailInv`: `drive.rs` decides from the answer it has in
hand, while `complete_clone` and `ProcessJournal::record` check rows that may have
been written by an earlier process. The trail says that the two agree. The steps
an execution counts ended with zero and are cleaned up, the fetch a dispatch rests
on was made, a fetch was counted before it began, what the worker is about to
write is the ending in the last row, and the transport repository is there unless
the last Run ended badly. `EndingsCounted` turns this into the counts of endings
that `complete_clone` compares. `ResidualsAreHonest` needs `ResidueInv`: an
execution past Reserved has its directory, only what was licensed made one, and
the worker records a directory that is there and fails a Reserved execution only
while there is none. So only the refusal of a controlled execution, by a process
other than the one that made it, can pass over a directory.

**CloneControlProofs** proves `ResultsKept`, `EpochsAreExclusive` and
`ControlTypes` for any number of executions and messages under way. A
report may be read long after it was written, so `ControlInv` says of every
message in a stream that it is still true. That is preserved because what reports
say is stable: a Completed status is final, and an epoch that was sealed (bound
and closed, or left, with nothing unfinished) stays so.

**Only model-checked.** Every liveness property (`StopsAreForced`,
`StopsComplete`, `CloseCompletes`, `StorageNeverCancelsStops`, `CloseSettles`,
`StopsAreObserved`, `RequestsAreSettled`, `RetirementEnds`, `RunProgresses`,
`LocalWorkFinishes`, `ResultsAreTakenOver`, `HandoverCompletes`): the prover has no
rules for fairness and `ENABLED`. The safety of `Effects`, whose invariants are
checked on the instances above and whose inductive strengthening is step 7 of the
plan.

## 6. Findings

Four runs are expected to end in a violation. Each states what the documentation
or a comment says and TLC shows a behaviour of the code that differs.

- `effects_overtaken`: `replace_desired_state` advances the Scope and the requests
  but no Target's desired generation, and `save_target_status` merges only the
  latter. A pass of generation 1 that is at work when generation 2 is written
  reports its Target Current while the newer request is pending.
  `docs/agents/effects.md` says an older completion cannot. With `Retirable`
  set to the Target the same property fails in its other half: a pass that loaded
  the Target as active and is overtaken by `retire_consumer` commits a non-empty
  projection and `finish_retiring_target` deletes the Target with its newer
  request, so ledger row and directory are left without an owner.
- `effects_quarantine`: `save_resource_status` overwrites a Resource's phase
  unconditionally, so the ordinary pass of another Target turns RecoveryRequired
  into Current while an operation on the Resource is still quarantined. The same
  document says nothing clears it but the recovery command.
- `workflow_pending`: a node parks, the run fails, and the resume pins a snapshot
  in which the node is not interactive. If the process ends before the next wave,
  `reconcile_running_workflow_runs` hands the node to `fail_node`, which only
  changes Running rows. The comments in `engine.rs` and `recovery.rs` say such a
  node fails closed; it stays Pending, no completion is accepted for it, and the
  run stays Running until the user cancels it.
- `clones_incarnation`: `resume_clone` settles the Run an earlier process left and
  then dispatches the next step, although the permit names the earlier
  incarnation. `runtime_control.rs` says the old incarnation "cannot start another
  process". `ImplementsCloneLedger` does not see it: the ledger licenses an
  execution once, and does not tell its steps apart.

More observations are recorded as hazards without a run. In Effects: a worker that
outlives its lease may install a directory after recovery has closed its
operation, and the proof a recovery has read may be outdated by the pass of
another Target before it is committed (`LedgerMatchesDisk` is therefore stated for
behaviours without `overrun` and `raced`), and a failed artifact cleanup is recorded but never retried.

In the workflow engine: stopping the prompt of an automatic node ends its driver
without a report (`payload.rs`), so its row stays Running until the run is
cancelled or the process restarts (`muted`, the exception the properties name); a
manual completion claims one attempt and prepares whatever attempt of the node
awaits input then; two Outputs that complete in one pass both succeed.
`run_schedule` returns at the first swift node of a pass that fails (`SwiftFails`),
and nodes started in the same wave are Running rows that only this loop completes,
so two Conditions started together leave one Running once the other failed, and
resume is refused until the next process start;
`docs/workflows/workflow-runs.md` says in-flight siblings run to completion.

In the Node: a controlled clone that was recorded as dispatched and not started
when its process ended rests for ever, since its permit names the old
incarnation, and blocks every later epoch; and a directory made and not yet recorded when the process ended is left behind by
the refusal that follows, where the comment in `begin_clone` says a reserved
execution "has performed no filesystem or process work" (`ResidualIsHonest` names
this as its one exception). The fence of the guardian against requests of an
earlier host incarnation is modelled (`SessionMatches`), but no property of `host`
depends on it.

## 7. What is not modelled, and what the models assume

- Output buffers, socket framing, authentication of peers, package formats and
  log messages: data that no property tells apart.
- The inside of the rootless Linux platform. Its answers are modelled; the scan
  of `/proc` and the reuse of process ids are a planned module.
- The rotation over many scopes in `HostCoordinator`: the host model follows one.
- SQLite transactions are atomic and durable. Their commits may fail or report an
  error after taking effect where the code handles that (guardian, host); in
  Effects a failing transaction has no effect.
- The clock of one process is monotonic. Leases of Effects use wall-clock time; a
  jump is covered by `LeaseExpires`.
- Workflow: Iteration and Loop regions, the variable pool, file rollback, and the
  session cleanup of a cancel, which runs outside the gate and touches no row.
- Node: plugin, agent and delivery executions, whose tables and handlers are
  their own; revisions and the inside of Git. Controller: lease epochs and the
  delivery store; Cloud is external, so its side of the contract is assumed.
- Hazards of parts without a module, kept here for the modules of step 5: the
  cancellation of a scheduled handle races the elapse of its delay
  (`crates/scheduler/src/handle.rs`); an occurrence is observed again after a
  restart (`scheduled_run.rs`); a stream's waiter gives up while the cleanup it
  waited for goes on (`stream_registry.rs`); a chunk of terminal output is stored
  and then sent, so a client that attaches in between receives it twice
  (`crates/pty/src/manager.rs`); a Loop or Iteration fails in the middle of a
  round (`region.rs`); an Effects pass that fails after it coordinated with
  running Agents does not reach their reactivation (`reconcile.rs`); declarations
  are refreshed from a list of plugins read earlier (`effect_worker.rs`).
- Everything listed as `not_modelled` in `PROJECT.json`, with its reason there.
  The largest parts are the frontend, configuration, Git command construction,
  wire formats and logging, which have no state for a model checker to explore;
  the modules cover the concurrent and crash-prone core, a small share of the
  repository's lines.
