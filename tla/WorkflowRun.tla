---------------------------- MODULE WorkflowRun ----------------------------
(***************************************************************************)
(* One workflow run: the scheduling engine, the SQLite rows it commits,    *)
(* the session drivers, retry timers, human turns and manual completions   *)
(* that call it, and the recovery of an interrupted process.               *)
(*                                                                         *)
(* A transaction is one step.  The per-run gate (KeyedResourceLocks) is    *)
(* modelled by `gate': an entry point commits its first transaction and    *)
(* enters the scheduling loop in one step, and then holds the gate over    *)
(* several steps; only a bind, the restoring of a turn and the preparation *)
(* of a completion run outside it.  The process may end between any two    *)
(* steps.  Node-run ids are fresh pairs <<node, k>>; a soft-deleted row is *)
(* no longer in the domain of `rows'.  Composite nodes (Iteration, Loop)   *)
(* are not part of the graphs of this module.                              *)
(***************************************************************************)
EXTENDS Naturals

CONSTANTS
    Nodes,       \* the nodes of the frozen graph
    Start,       \* its start node
    Kind,        \* [Nodes -> Kinds]
    Edges,       \* records [from, to, port]; port is "any" unless a Condition
    Branches,    \* the branches a Condition selects from
    Versions,    \* published snapshots: the sets of interactive nodes they declare
    Pinned,      \* the snapshot the run was created with
    Patient,     \* the Agent nodes whose promptInactivity is "wait"
    MaxRetries,  \* the automatic-retry budget of an Agent node
    Requests,    \* concurrent manual completions
    MaxManual,   \* bound: resumes and restarts
    MaxCrashes   \* bound: ends of the process

Kinds == {"start", "condition", "aggregator", "output", "agent"}
RunStates == {"Pending", "Running", "Succeeded", "Failed", "Cancelled"}
RowStates == RunStates

(* A graph with a cycle is rejected: any set of nodes has one that no edge *)
(* enters from the set.                                                    *)
ASSUME GraphAssumption ==
    /\ \A S \in SUBSET Nodes : S # {} =>
          \E n \in S : \A e \in Edges : e.to = n => e.from \notin S
    /\ Start \in Nodes /\ Kind \in [Nodes -> Kinds]
    /\ \A n \in Nodes : Kind[n] = "start" <=> n = Start
    /\ \A e \in Edges : e.from \in Nodes /\ e.to \in Nodes \ {Start}
    /\ Pinned \in Versions
    /\ \A V \in Versions : \A n \in V : Kind[n] = "agent"
    /\ Patient \subseteq {n \in Nodes : Kind[n] = "agent"}

VARIABLES
    run,        \* workflow_runs.run_status
    rows,       \* the live workflow_node_runs: id -> [st, used, waiting]
    decided,    \* payload.condition_decisions
    inter,      \* the interactive nodes of the snapshot the run pins
    minted,     \* node-run ids drawn so far, per node
    proc,       \* "up", or "down" and "swept" between two processes
    gate,       \* who holds the per-run lock, and where it is
    todo,       \* the swift rows left in this pass over the loaded rows
    ended,      \* the Output rows this pass loaded as Succeeded
    preparing,  \* drivers that have not bound their session yet
    prompting,  \* drivers consuming their prompt stream
    muted,      \* Running rows whose driver ended without a report
    timers,     \* armed retry timers
    turns,      \* human turns whose stream is open
    claims,     \* completing_node_runs
    reqs,       \* manual completions in progress
    manual, crashes

db == <<run, rows, decided, inter, minted>>
loop == <<gate, todo, ended>>
drivers == <<preparing, prompting, timers, muted>>
human == <<turns, claims, reqs>>
bounds == <<manual, crashes>>
vars == <<db, proc, loop, drivers, human, bounds>>

Idle == [pc |-> "idle"]

(***************************************************************************)
(* Reading the rows                                                        *)
(***************************************************************************)
At(id, st) == id \in DOMAIN rows /\ rows[id].st = st
RowsOf(n) == {id \in DOMAIN rows : id[1] = n}
RunningRows == {id \in DOMAIN rows : rows[id].st = "Running"}
Swift(id) == Kind[id[1]] # "agent"
Fresh(n) == <<n, minted[n] + 1>>
Ids == DOMAIN rows \cup preparing \cup prompting \cup timers \cup turns

(* The rows with the new rows of N started, one each. *)
Started(N, row) ==
    [id \in DOMAIN rows \cup {Fresh(n) : n \in N} |->
        IF id \in DOMAIN rows THEN rows[id] ELSE row]
Without(S) == [id \in DOMAIN rows \ S |-> rows[id]]
Minted(N) == [n \in Nodes |-> IF n \in N THEN minted[n] + 1 ELSE minted[n]]
FirstAttempt == [st |-> "Running", used |-> 0, waiting |-> FALSE]

(***************************************************************************)
(* BranchProjection: what the graph, the rows and the branch decisions say *)
(* of every node.                                                          *)
(***************************************************************************)
EdgeActive(e) == Kind[e.from] = "condition" => e.port = decided[e.from]

Resolved == {"Succeeded", "Inactive", "Cancelled"}
Into(n) == {e \in Edges : e.to = n}
Blocked(P, n) == \E e \in Into(n) : P[e.from] \notin Resolved
Entered(P, n) == \E e \in Into(n) : P[e.from] = "Succeeded" /\ EdgeActive(e)

NodeState_MAnyEdge(P, n) ==
    IF RowsOf(n) # {} THEN rows[CHOOSE id \in RowsOf(n) : TRUE].st
    ELSE IF Into(n) = {} THEN IF n = Start THEN "Ready" ELSE "Inactive"
    ELSE IF Entered(P, n) THEN "Ready"
    ELSE IF Blocked(P, n) THEN "NotReached"
    ELSE "Inactive"

(* The state of node n when P is that of the nodes before it. *)
NodeState(P, n) ==
    IF RowsOf(n) # {} THEN rows[CHOOSE id \in RowsOf(n) : TRUE].st
    ELSE IF Into(n) = {} THEN IF n = Start THEN "Ready" ELSE "Inactive"
    ELSE IF Blocked(P, n) THEN "NotReached"
    ELSE IF Entered(P, n) THEN "Ready"
    ELSE "Inactive"

Projection[n \in Nodes] == NodeState(Projection, n)

ReadyNodes == {n \in Nodes : Projection[n] = "Ready"}

HasInFlight_MForgetsWaits == RunningRows # {}

HasInFlight == \E id \in DOMAIN rows : rows[id].st \in {"Running", "Pending"}

(***************************************************************************)
(* Transactions shared by several entry points                             *)
(***************************************************************************)
(* repository.fail_node for the rows S: only a Running row fails, the      *)
(* waiting attempts are settled with it, and a Running run fails.          *)
FailRows(S) ==
    LET hit == {id \in S : At(id, "Running")}
    IN /\ rows' = [id \in DOMAIN rows |->
                     IF id \in hit THEN [rows[id] EXCEPT !.st = "Failed", !.waiting = FALSE]
                     ELSE IF hit # {} /\ rows[id].waiting
                          THEN [rows[id] EXCEPT !.st = "Cancelled", !.waiting = FALSE]
                     ELSE rows[id]]
       /\ run' = IF hit # {} /\ run = "Running" THEN "Failed" ELSE run

(* Only the automatic attempts of an Agent node of a Running run retry, on *)
(* a failure of a retried kind, while budget is left.                      *)
Retries(id, transient) ==
    /\ run = "Running" /\ At(id, "Running")
    /\ transient /\ ~Swift(id) /\ id[1] \notin inter /\ rows[id].used < MaxRetries

(* schedule_node_retry: the failed attempt is soft-deleted and a waiting   *)
(* one takes its place in the same transaction.                            *)
Rescheduled(id) ==
    [i \in (DOMAIN rows \ {id}) \cup {Fresh(id[1])} |->
        IF i = Fresh(id[1])
        THEN [st |-> "Running", used |-> rows[id].used + 1, waiting |-> TRUE]
        ELSE rows[i]]

(* The engine's fail_node. *)
FailNode(id, transient) ==
    IF Retries(id, transient)
    THEN /\ rows' = Rescheduled(id)
         /\ minted' = Minted({id[1]})
         /\ timers' = timers \cup {Fresh(id[1])}
         /\ UNCHANGED run
    ELSE FailRows({id}) /\ UNCHANGED <<minted, timers>>

(* Completing a row is allowed whatever the run's status; an Advanced      *)
(* result enters the scheduling loop, a stale callback changes nothing.    *)
CompleteNode(id) ==
    LET advances == At(id, "Running") \/ At(id, "Pending")
    IN /\ rows' = IF advances THEN [rows EXCEPT ![id].st = "Succeeded"] ELSE rows
       /\ gate' = IF advances THEN "head" ELSE "free"

ParkRow(id) ==
    rows' = IF At(id, "Running") THEN [rows EXCEPT ![id].st = "Pending"] ELSE rows

Free == proc = "up" /\ gate = "free"

(***************************************************************************)
(* Commands                                                                *)
(***************************************************************************)
StartRun ==
    /\ proc = "up" /\ gate \in {"free", "restart"}
    /\ run = "Pending"
    /\ run' = "Running"
    /\ rows' = Started({Start}, FirstAttempt) /\ minted' = Minted({Start})
    /\ gate' = "head"
    /\ UNCHANGED <<decided, inter, proc, todo, ended, drivers, human, bounds>>

RestartRun ==
    /\ Free /\ run # "Running" /\ manual < MaxManual
    /\ run' = "Pending"
    /\ rows' = Without(DOMAIN rows)
    /\ decided' = [n \in Nodes |-> "none"]
    /\ gate' = "restart" /\ manual' = manual + 1
    /\ UNCHANGED <<inter, minted, proc, todo, ended, drivers, human, crashes>>

CancelRun ==
    /\ Free /\ run = "Running"
    /\ run' = "Cancelled"
    /\ rows' = [id \in DOMAIN rows |->
                  IF rows[id].st \in {"Running", "Pending"}
                  THEN [rows[id] EXCEPT !.st = "Cancelled", !.waiting = FALSE] ELSE rows[id]]
    /\ muted' = {}
    /\ UNCHANGED <<decided, inter, minted, proc, loop, preparing, prompting, timers, human,
                   bounds>>

(* The sets of nodes that hold, with a node, all its transitive successors. *)
Downstreams == {S \in SUBSET Nodes : \A e \in Edges : e.from \in S => e.to \in S}

(* resume_clear_node_ids: the failed nodes and all that comes after them. *)
ToClear ==
    LET failed == {n \in Nodes : \E id \in RowsOf(n) : rows[id].st \in {"Failed", "Cancelled"}}
    IN {n \in Nodes : \A S \in Downstreams : failed \subseteq S => n \in S}

Resumable == run \in {"Failed", "Cancelled"} /\ RunningRows = {} /\ ToClear # {}

(* resume_from_failure may first pin another published snapshot, in a      *)
(* transaction of its own; the live rows bind its nodes and their types,   *)
(* not their interactive flag.                                             *)
SwitchSnapshot(V) ==
    /\ Free /\ Resumable /\ manual < MaxManual
    /\ V # inter /\ inter' = V
    /\ gate' = "resume"
    /\ UNCHANGED <<run, rows, decided, minted, proc, todo, ended, drivers, human, bounds>>

ResumeRun ==
    /\ proc = "up" /\ gate \in {"free", "resume"}
    /\ Resumable /\ manual < MaxManual
    /\ run' = "Running"
    /\ rows' = Without({id \in DOMAIN rows : id[1] \in ToClear})
    /\ decided' = [n \in Nodes |-> IF n \in ToClear THEN "none" ELSE decided[n]]
    /\ gate' = "head" /\ manual' = manual + 1
    /\ UNCHANGED <<inter, minted, proc, todo, ended, drivers, human, crashes>>

(***************************************************************************)
(* run_schedule, under the gate                                            *)
(***************************************************************************)
Head_MIgnoresRunStatus ==
    /\ proc = "up" /\ gate = "head"
    /\ LET swift == {id \in RunningRows : Swift(id)}
       IN /\ gate' = IF swift # {} THEN "pass" ELSE "plan"
          /\ todo' = swift
          /\ ended' = {id \in DOMAIN rows :
                         Kind[id[1]] = "output" /\ rows[id].st = "Succeeded"}
    /\ UNCHANGED <<db, proc, drivers, human, bounds>>

(* The head of the loop loads the run and its rows.  A run that is not     *)
(* Running is left alone; Running swift rows are completed first, one      *)
(* transaction each, against what this pass loaded.                        *)
Head ==
    /\ proc = "up" /\ gate = "head"
    /\ LET swift == {id \in RunningRows : Swift(id)}
       IN IF run # "Running"
          THEN gate' = "free" /\ UNCHANGED <<todo, ended>>
          ELSE /\ gate' = IF swift # {} THEN "pass" ELSE "plan"
               /\ todo' = swift
               /\ ended' = {id \in DOMAIN rows :
                              Kind[id[1]] = "output" /\ rows[id].st = "Succeeded"}
    /\ UNCHANGED <<db, proc, drivers, human, bounds>>

(* Every swift node but the start node reads variables that may be unset,  *)
(* and fails on them; an Output also fails when this pass loaded another   *)
(* Output that had succeeded.                                              *)
MayFail(id) == Kind[id[1]] # "start"
MayComplete(id) == Kind[id[1]] = "output" => ended = {}

SwiftCompletes(id, port) ==
    /\ proc = "up" /\ gate = "pass" /\ id \in todo /\ MayComplete(id)
    /\ rows' = [rows EXCEPT ![id].st = "Succeeded"]
    /\ port \in IF Kind[id[1]] = "condition"
                THEN Branches ELSE {"none"}
    /\ decided' = [decided EXCEPT ![id[1]] = port]
    /\ todo' = todo \ {id}
    /\ gate' = IF todo' = {} THEN "head" ELSE "pass"
    /\ UNCHANGED <<run, inter, minted, proc, ended, drivers, human, bounds>>

(* The first failure ends the pass and the schedule. *)
SwiftFails(id) ==
    /\ proc = "up" /\ gate = "pass" /\ id \in todo /\ MayFail(id)
    /\ FailRows({id})
    /\ todo' = {} /\ gate' = "free"
    /\ UNCHANGED <<decided, inter, minted, proc, ended, drivers, human, bounds>>

(* Every ready node is started in one transaction and dispatched; with     *)
(* nothing ready and nothing in flight the run has succeeded.              *)
Plan ==
    /\ proc = "up" /\ gate = "plan"
    /\ rows' = Started(ReadyNodes, FirstAttempt) /\ minted' = Minted(ReadyNodes)
    /\ preparing' = preparing \cup {Fresh(n) : n \in {m \in ReadyNodes : Kind[m] = "agent"}}
    /\ run' = IF ReadyNodes = {} /\ ~HasInFlight THEN "Succeeded" ELSE run
    /\ gate' = IF ReadyNodes = {} THEN "free" ELSE "head"
    /\ UNCHANGED <<decided, inter, proc, todo, ended, prompting, timers, muted, human, bounds>>

(***************************************************************************)
(* Session drivers and retry timers                                        *)
(***************************************************************************)
(* The binding is not under the gate; a row that is no longer Running      *)
(* refuses it, and the driver's report of that changes nothing.            *)
BindSession(id) ==
    /\ proc = "up" /\ id \in preparing
    /\ preparing' = preparing \ {id}
    /\ prompting' = IF At(id, "Running") THEN prompting \cup {id} ELSE prompting
    /\ UNCHANGED <<db, proc, loop, timers, muted, human, bounds>>

DriverCompletes(id) ==
    /\ Free /\ id \in prompting /\ id[1] \notin inter
    /\ prompting' = prompting \ {id}
    /\ CompleteNode(id)
    /\ UNCHANGED <<run, decided, inter, minted, proc, todo, ended, preparing, timers, muted,
                   human, bounds>>

(* The first turn of an interactive node parks it. *)
DriverParks(id) ==
    /\ Free /\ id \in prompting /\ id[1] \in inter
    /\ prompting' = prompting \ {id}
    /\ ParkRow(id)
    /\ UNCHANGED <<run, decided, inter, minted, proc, loop, preparing, timers, muted,
                   human, bounds>>

DriverFails(id, transient) ==
    /\ Free /\ id \in preparing \cup prompting
    /\ preparing' = preparing \ {id} /\ prompting' = prompting \ {id}
    /\ FailNode(id, transient)
    /\ UNCHANGED <<decided, inter, proc, loop, muted, human, bounds>>

(* The user stops the prompt of an automatic node (cancelSessionPrompt):   *)
(* the turn ends as Cancelled, which report_outcome leaves to the cancel   *)
(* flow of the run.                                                        *)
PromptStopped(id) ==
    /\ proc = "up" /\ id \in prompting /\ id[1] \notin inter
    /\ prompting' = prompting \ {id} /\ muted' = IF At(id, "Running") THEN muted \cup {id} ELSE muted
    /\ UNCHANGED <<db, proc, loop, preparing, timers, human, bounds>>

WakeRetry_MForgetsDispatch(id) ==
    /\ Free /\ id \in timers
    /\ timers' = timers \ {id}
    /\ IF ~At(id, "Running") \/ ~rows[id].waiting
       THEN UNCHANGED <<run, rows, preparing>>
       ELSE /\ rows' = [rows EXCEPT ![id].waiting = FALSE]
            /\ UNCHANGED <<run, preparing>>
    /\ UNCHANGED <<decided, inter, minted, proc, loop, prompting, muted, human, bounds>>

(* begin_node_retry re-reads the marker; a started attempt is dispatched,  *)
(* or fails when it cannot be.                                             *)
WakeRetry(id) ==
    /\ Free /\ id \in timers
    /\ timers' = timers \ {id}
    /\ IF ~At(id, "Running") \/ ~rows[id].waiting
       THEN UNCHANGED <<run, rows, preparing>>
       ELSE IF run # "Running"
       THEN /\ rows' = [rows EXCEPT ![id].st = "Cancelled", ![id].waiting = FALSE]
            /\ UNCHANGED <<run, preparing>>
       ELSE \/ /\ rows' = [rows EXCEPT ![id].waiting = FALSE]
               /\ preparing' = preparing \cup {id}
               /\ UNCHANGED run
            \/ FailRows({id}) /\ UNCHANGED preparing
    /\ UNCHANGED <<decided, inter, minted, proc, loop, prompting, muted, human, bounds>>

(***************************************************************************)
(* Human turns and manual completions of an interactive node               *)
(***************************************************************************)
BeginTurn(id) ==
    /\ Free /\ run = "Running" /\ At(id, "Pending") /\ id \notin claims
    /\ rows' = [rows EXCEPT ![id].st = "Running"]
    /\ turns' = turns \cup {id}
    /\ UNCHANGED <<run, decided, inter, minted, proc, loop, drivers, claims, reqs, bounds>>

EndTurn(id) ==
    /\ Free /\ id \in turns
    /\ ParkRow(id) /\ turns' = turns \ {id}
    /\ UNCHANGED <<run, decided, inter, minted, proc, loop, drivers, claims, reqs, bounds>>

(* A prompt the runtime refused restores the row without the gate. *)
RestoreTurn(id) ==
    /\ proc = "up" /\ id \in turns
    /\ ParkRow(id) /\ turns' = turns \ {id}
    /\ UNCHANGED <<run, decided, inter, minted, proc, loop, drivers, claims, reqs, bounds>>

ClaimNode(q, id) ==
    /\ Free /\ reqs[q] = Idle
    /\ run = "Running" /\ At(id, "Pending") /\ id \notin claims
    /\ claims' = claims \cup {id}
    /\ reqs' = [reqs EXCEPT ![q] = [pc |-> "claimed", id |-> id]]
    /\ UNCHANGED <<db, proc, loop, drivers, turns, bounds>>

(* The preparation finds the row of the node again, whatever was claimed,  *)
(* and may refuse it (its blockers, its history); a refusal releases the   *)
(* claim.                                                                  *)
PrepareCompletion(q, id) ==
    /\ proc = "up" /\ reqs[q].pc = "claimed"
    /\ run = "Running" /\ id[1] = reqs[q].id[1] /\ At(id, "Pending") /\ id[1] \in inter
    /\ reqs' = [reqs EXCEPT ![q] = [pc |-> "prepared", id |-> id]]
    /\ UNCHANGED <<db, proc, loop, drivers, turns, claims, bounds>>

RefuseCompletion(q) ==
    /\ proc = "up" /\ reqs[q].pc = "claimed"
    /\ claims' = claims \ {reqs[q].id}
    /\ reqs' = [reqs EXCEPT ![q] = Idle]
    /\ UNCHANGED <<db, proc, loop, drivers, turns, bounds>>

(* Revalidation and completion are one critical section. *)
CommitCompletion(q) ==
    /\ Free /\ reqs[q].pc = "prepared"
    /\ IF run = "Running" /\ At(reqs[q].id, "Pending")
       THEN CompleteNode(reqs[q].id) ELSE UNCHANGED <<rows, gate>>
    /\ claims' = claims \ {reqs[q].id}
    /\ reqs' = [reqs EXCEPT ![q] = Idle]
    /\ UNCHANGED <<run, decided, inter, minted, proc, todo, ended, drivers, turns, bounds>>

(***************************************************************************)
(* The end of the process and the recovery of the next one                 *)
(***************************************************************************)
Crash ==
    /\ proc # "down" /\ crashes < MaxCrashes
    /\ proc' = "down" /\ crashes' = crashes + 1
    /\ gate' = "free" /\ todo' = {} /\ ended' = {}
    /\ preparing' = {} /\ prompting' = {} /\ timers' = {} /\ muted' = {}
    /\ turns' = {} /\ claims' = {} /\ reqs' = [q \in Requests |-> Idle]
    /\ UNCHANGED <<db, manual>>

(* The boot sweep fails what was interrupted, waits included, in Running   *)
(* and in Failed runs.                                                     *)
Sweep ==
    /\ proc = "down" /\ proc' = "swept"
    /\ IF run \in {"Running", "Failed"} /\ RunningRows # {}
       THEN /\ rows' = [id \in DOMAIN rows |->
                          IF rows[id].st \in {"Running", "Pending"}
                          THEN [rows[id] EXCEPT !.st = "Failed", !.waiting = FALSE]
                          ELSE rows[id]]
            /\ run' = "Failed"
       ELSE UNCHANGED <<run, rows>>
    /\ UNCHANGED <<decided, inter, minted, loop, drivers, human, bounds>>

AwaitsInput(id) == At(id, "Pending") /\ id[1] \in inter
InvalidPending == {id \in DOMAIN rows : At(id, "Pending") /\ ~AwaitsInput(id)}

Reconcile_MNeverResumes ==
    /\ proc = "swept" /\ proc' = "up"
    /\ FailRows(InvalidPending)
    /\ UNCHANGED <<decided, inter, minted, loop, drivers, human, bounds>>

(* A Running run with neither a running nor an awaiting row is scheduled   *)
(* again; a Pending row that does not await input goes through fail_node.  *)
Reconcile ==
    /\ proc = "swept" /\ proc' = "up"
    /\ IF run = "Running" /\ RunningRows = {} /\ InvalidPending # {}
       THEN FailRows(InvalidPending) ELSE UNCHANGED <<run, rows>>
    /\ gate' = IF run = "Running" /\ RunningRows = {}
                    /\ \A id \in DOMAIN rows : ~At(id, "Pending")
               THEN "head" ELSE "free"
    /\ UNCHANGED <<decided, inter, minted, todo, ended, drivers, human, bounds>>

(***************************************************************************)
(* The specification                                                       *)
(***************************************************************************)
Init ==
    /\ run = "Pending" /\ rows = <<>>
    /\ decided = [n \in Nodes |-> "none"]
    /\ inter = Pinned
    /\ minted = [n \in Nodes |-> 0]
    /\ proc = "up" /\ gate = "free" /\ todo = {} /\ ended = {}
    /\ preparing = {} /\ prompting = {} /\ timers = {} /\ muted = {}
    /\ turns = {} /\ claims = {} /\ reqs = [q \in Requests |-> Idle]
    /\ manual = 0 /\ crashes = 0

Ports == Branches \cup {"none"}

(* The driver, the timer or the human turn that owns a row acts. *)
OwnerActs(id) ==
    \/ BindSession(id) \/ DriverCompletes(id) \/ DriverParks(id)
    \/ \E transient \in BOOLEAN : DriverFails(id, transient)
    \/ WakeRetry(id) \/ EndTurn(id)

Scheduling ==
    \/ Head \/ Plan
    \/ \E id \in todo : SwiftFails(id) \/ \E port \in Ports : SwiftCompletes(id, port)

Next ==
    \/ StartRun \/ RestartRun \/ CancelRun \/ ResumeRun
    \/ \E V \in Versions : SwitchSnapshot(V)
    \/ Scheduling
    \/ \E id \in Ids : OwnerActs(id) \/ PromptStopped(id) \/ BeginTurn(id) \/ RestoreTurn(id)
    \/ \E q \in Requests : \/ \E id \in Ids : ClaimNode(q, id) \/ PrepareCompletion(q, id)
                          \/ RefuseCompletion(q) \/ CommitCompletion(q)
    \/ Crash \/ Sweep \/ Reconcile

Spec == Init /\ [][Next]_vars

(* Every id a bounded behaviour can draw. *)
AllIds == Nodes \X (1 .. (MaxRetries + 1) * (MaxManual + 1))

(* Some attempt of node n has its owner act, or its session or timer. *)
NodeActs(n) == \E id \in {i \in Ids : i[1] = n} : OwnerActs(id)
NodeStarts(n) == \E id \in {i \in Ids : i[1] = n} : BindSession(id) \/ WakeRetry(id)

(* The fairness of the threads of a live process: the holder of the gate   *)
(* goes on, a session is bound, a timer fires, and the next process        *)
(* recovers the run.  The prompt of a node under the inactivity timeout    *)
(* ends, in an answer or a failure; that of a Patient node may stay silent *)
(* for ever.  Nothing is assumed of the user, who need not act.            *)
Fairness ==
    /\ WF_vars(Scheduling) /\ WF_vars(Sweep) /\ WF_vars(Reconcile)
    /\ WF_vars(gate = "restart" /\ StartRun) /\ WF_vars(gate = "resume" /\ ResumeRun)
    /\ \A n \in {m \in Nodes : Kind[m] = "agent"} \ Patient : WF_vars(NodeActs(n))
    /\ \A n \in Patient : WF_vars(NodeStarts(n))

FairSpec == Spec /\ Fairness

(***************************************************************************)
(* Properties                                                              *)
(***************************************************************************)
(* The type of every variable; an attempt never exceeds the retry budget. *)
WorkflowTypeOK ==
    /\ run \in RunStates
    /\ DOMAIN rows \subseteq AllIds
    /\ \A id \in DOMAIN rows :
         rows[id] \in [st : RowStates, used : 0 .. MaxRetries, waiting : BOOLEAN]
    /\ decided \in [Nodes -> Ports] /\ inter \in Versions
    /\ minted \in [Nodes -> Nat]
    /\ proc \in {"up", "down", "swept"}
    /\ gate \in {"free", "head", "pass", "plan", "restart", "resume"}
    /\ todo \cup ended \cup preparing \cup prompting \cup timers \cup muted \cup turns \cup claims
          \subseteq AllIds
    /\ \A q \in Requests : reqs[q] = Idle
          \/ reqs[q] \in [pc : {"claimed", "prepared"}, id : AllIds]
    /\ manual \in 0 .. MaxManual /\ crashes \in 0 .. MaxCrashes

(* The run's status agrees with its rows, whatever retries, cancellations, *)
(* resumes and restarts of the process came before: a Running run carries  *)
(* no failed or cancelled row, a run that ended has no attempt waiting for *)
(* a retry, a run that was never started or was reset has no rows, and a   *)
(* Succeeded run has finished every node its branches reach.               *)
RunAgreesWithRows ==
    /\ run = "Running" =>
         \A id \in DOMAIN rows : rows[id].st \notin {"Failed", "Cancelled"}
    /\ run # "Running" => \A id \in DOMAIN rows : ~rows[id].waiting
    /\ run = "Pending" => rows = <<>>
    /\ run = "Succeeded" => \A n \in Nodes : Projection[n] \in {"Succeeded", "Inactive"}

(* Every live row is the only one of its node, and stands on the work it   *)
(* was scheduled from: all the sources of its edges have settled, and one  *)
(* active edge comes from a row that still is Succeeded.  A resume that    *)
(* keeps succeeded work, a retry or a late callback never leaves a row     *)
(* whose predecessor is missing, running again or failed.                  *)
RowsFollowGraph ==
    LET P == Projection IN
    \A id \in DOMAIN rows :
        /\ RowsOf(id[1]) = {id}
        /\ id[1] # Start =>
             /\ \A e \in Edges : e.to = id[1] => P[e.from] \in {"Succeeded", "Inactive"}
             /\ \E e \in Edges : e.to = id[1] /\ EdgeActive(e) /\ P[e.from] = "Succeeded"

(* retry_scheduler.rs: a Running row must not be left that "no executor    *)
(* and no timer will ever finish".  In a live process every Running Agent  *)
(* row has exactly one owner: a driver, an armed timer or a human turn;    *)
(* only a prompt the user stopped leaves one without.                      *)
RunningAgentIsDriven ==
    proc = "up" => \A id \in RunningRows : ~Swift(id) /\ id \notin muted =>
        \E owner \in {"driver", "timer", "turn"} :
            /\ owner = "driver" <=> id \in preparing \cup prompting
            /\ owner = "timer" <=> id \in timers /\ rows[id].waiting
            /\ owner = "turn" <=> id \in turns

(* Late, duplicate and stale callbacks are no-ops: a settled row never     *)
(* changes while it is live, and a run that ended changes its status only  *)
(* by a resume or a restart of the user.                                   *)
EndedIsFinal ==
    [][/\ \A id \in DOMAIN rows \cap DOMAIN rows' :
            rows[id].st \in {"Succeeded", "Failed", "Cancelled"} => rows'[id] = rows[id]
       /\ run \in {"Succeeded", "Failed", "Cancelled"} /\ run' # run => manual' > manual]_vars

(* The rows that may stay as they are until the user acts: one that awaits *)
(* input, one whose prompt the user stopped, and one of a Patient node     *)
(* whose prompt or human turn is open.                                     *)
LeftToUser(id) ==
    \/ AwaitsInput(id)
    \/ id \in muted
    \/ At(id, "Running") /\ id[1] \in Patient /\ id \in prompting \cup turns

(* A run never waits for nothing: a Running run ends or comes to a row     *)
(* that is left to the user, and a Running Agent node, also of a failed    *)
(* run, settles, parks or comes to such a row, through its retries and     *)
(* restarts of the process.  The one other way to stay Running is a        *)
(* Pending row that a snapshot switch made non-interactive, which          *)
(* InvalidPendingFailsClosed is about.                                     *)
RunProgresses ==
    /\ run = "Running" ~> \/ run # "Running" \/ InvalidPending # {}
                         \/ \E id \in DOMAIN rows : LeftToUser(id)
    /\ \A n \in Nodes : Kind[n] = "agent" =>
         (RowsOf(n) \cap RunningRows # {} ~>
             \A id \in RowsOf(n) \cap RunningRows : LeftToUser(id))

(* recovery.rs: "invalid `Pending` nodes fail closed".  Once a run that    *)
(* was left Running has been reconciled, it has failed or has no Pending   *)
(* row that nobody can complete.                                           *)
InvalidPendingFailsClosed ==
    [][proc = "swept" /\ proc' = "up" /\ run' = "Running" => InvalidPending' = {}]_vars
=============================================================================
