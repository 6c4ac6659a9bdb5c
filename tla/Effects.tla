------------------------------ MODULE Effects ------------------------------
(***************************************************************************)
(* Effects convergence of one Scope: the single effect worker of the       *)
(* backend (crates/backend/src/effect_worker.rs) driving the reconciler    *)
(* (crates/effect/src/reconcile.rs) over the durable requests, claims,     *)
(* statuses, journals and ledger of crates/db/src/repository/effect/ and   *)
(* the Skill directories of crates/effect-skill/src/filesystem.rs, while   *)
(* API threads replace Desired State, retire and retry Targets and run     *)
(* explicit recovery, users edit the directories, leases run out and the   *)
(* process crashes.                                                        *)
(*                                                                         *)
(* Every database transaction is one step.  load_reconcile_snapshot reads  *)
(* outside a transaction and is several.  A filesystem rename is a step of *)
(* its own, and so is each external call of the reconciler.                *)
(***************************************************************************)
EXTENDS EffectState, FiniteSets

CONSTANTS
    MaxGen,      \* bound on Scope generations
    MaxEdits,    \* bound on edits of the directories by their user
    MaxFaults,   \* bound on failing calls, storage faults, overrun leases and crashes
    Retirable    \* the Targets whose Consumer may be uninstalled

ASSUME BoundAssumption ==
    /\ MaxGen \in Nat \ {0} /\ MaxEdits \in Nat /\ MaxFaults \in Nat
    /\ Retirable \subseteq Targets

VARIABLES
    scope,       \* effect_scopes and effect_desired_effects: [gen, want]
    target,      \* effect_targets and effect_target_status
    resource,    \* effect_resource_status
    request,     \* effect_reconcile_requests
    claim,       \* effect_resource_claims
    attempt,     \* the open effect_reconcile_attempts and effect_operations
    ledger,      \* effect_managed_items: the content Ora owns in each Resource
    projected,   \* effect_target_projections, by Target and generation
    disk,        \* the item in each Skill directory
    stash,       \* the backup path of each Target's latest operation
    litter,      \* what earlier operations left behind in backup paths
    worker,      \* the effect worker thread
    pass,        \* the Target it reconciles, with its snapshot
    recoverer,   \* an API thread in recover_target
    spent        \* what is used up of the bounds, and what happened that nothing fences

db == <<scope, target, resource, request, claim, attempt, ledger, projected>>
files == <<disk, stash, litter>>
vars == <<db, files, worker, pass, recoverer, spent>>

NoClaim == [target |-> Missing, by |-> "none"]
NoAttempt == [phase |-> "none", ops |-> [r \in {} |-> Missing]]
Gone == [life |-> "gone", phase |-> "retiring", desired |-> 0, observed |-> 0, ready |-> 0]
Idle == [pc |-> "idle", batch |-> {}, lease |-> FALSE]
NoPass ==
    [pc |-> "none", target |-> Missing, life |-> "gone", gen |-> 0, want |-> Missing,
     active |-> {}, ledger |-> [r \in {} |-> Missing], desired |-> 0,
     ops |-> [r \in {} |-> Missing], todo |-> {}, at |-> Missing, trash |-> {}]
NoRecovery ==
    [pc |-> "idle", target |-> Missing, landed |-> {}, trash |-> {}]

\* A Scope whose Targets have just been declared: nothing observed, one request each.
EffectInit ==
    /\ scope \in [gen : {1}, want : Contents \cup {Missing}]
    /\ target = [t \in Targets |->
         [life |-> "active", phase |-> "pending", desired |-> 1, observed |-> 0, ready |-> 0]]
    /\ resource = [r \in Resources |-> [phase |-> "pending", observed |-> 0, applied |-> 0]]
    /\ request = [t \in Targets |-> Pending(1)]
    /\ claim = [r \in Resources |-> NoClaim]
    /\ attempt = [t \in Targets |-> NoAttempt]
    /\ ledger = [r \in Resources |-> Missing]
    /\ projected = [t \in Targets |-> [g \in 1..MaxGen |-> "none"]]
    /\ disk = [r \in Resources |-> Missing]
    /\ stash = [t \in Targets |-> [r \in Resources |-> Missing]]
    /\ litter = {}
    /\ worker = Idle
    /\ pass = NoPass
    /\ recoverer = NoRecovery
    /\ spent = [edits |-> 0, faults |-> 0, overrun |-> FALSE, raced |-> FALSE]

Fault == /\ spent.faults < MaxFaults
         /\ spent' = [spent EXCEPT !.faults = @ + 1]

-----------------------------------------------------------------------------
(* Claims.  A claim is identified by token, worker and lease, not by       *)
(* whether the lease still runs.                                           *)

\* claim_is_valid, for the claim of the worker's current batch.
Holds(t) == request[t].state = "claimed" /\ request[t].by = "worker"

\* verify_resource_claims
HoldsResources(t) == \A r \in Bind[t] : claim[r] = [target |-> t, by |-> "worker"]

Runs(by) == by = "gone" \/ (by = "worker" /\ worker.lease)

\* release_resource_claims
Released(t) ==
    [r \in Resources |-> IF claim[r] = [target |-> t, by |-> "worker"] THEN NoClaim ELSE claim[r]]

\* What the claims of the worker are once nobody works under them.
Left(by) == IF by = "worker" THEN IF worker.lease THEN "gone" ELSE "expired" ELSE by

-----------------------------------------------------------------------------
(* Quarantine and convergence epochs. *)

Quarantined(t) == attempt[t].phase = "recovery"

Stranded_MLeaseless(t) == attempt[t].phase \notin {"none", "recovery"}

\* An unfinished journal whose Target no live claim covers.
Stranded(t) ==
    /\ attempt[t].phase \notin {"none", "recovery"}
    /\ ~(request[t].state = "claimed" /\ Runs(request[t].by))

Parked_MStaysClaimable(t) == [request[t] EXCEPT !.state = "pending", !.by = "none"]

\* The request of a quarantined Target waits for manual recovery.
Parked(t) == [request[t] EXCEPT !.state = "blocked", !.by = "none"]

\* quarantine_unfinished_operations
Quarantine ==
    LET stranded == {t \in Targets : Stranded(t)}
        touched == UNION {DOMAIN attempt[t].ops : t \in stranded}
    IN  /\ attempt' = [t \in Targets |-> IF t \in stranded
                         THEN [attempt[t] EXCEPT !.phase = "recovery"] ELSE attempt[t]]
        /\ target' = [t \in Targets |-> IF t \in stranded
                        THEN [target[t] EXCEPT !.phase = "recovery"] ELSE target[t]]
        /\ resource' = [r \in Resources |-> IF r \in touched
                          THEN [resource[r] EXCEPT !.phase = "recovery"] ELSE resource[r]]
        /\ request' = [t \in Targets |-> IF t \in stranded THEN Parked(t) ELSE request[t]]
        /\ claim' = [r \in Resources |-> IF claim[r].target \in stranded THEN NoClaim ELSE claim[r]]
        /\ UNCHANGED <<scope, ledger, projected>>

\* wake_scope_targets, with the Targets and journals of the same transaction.
Woke(gen, targets, attempts) ==
    [t \in Targets |-> IF targets[t].life = "gone" THEN request[t]
                       ELSE Woken(request[t], gen, attempts[t].phase = "recovery")]

\* The status update of advance_scope_epoch: active Targets owe the new generation.
Advanced(gen, targets) ==
    [t \in Targets |-> IF targets[t].life # "active" THEN targets[t]
       ELSE [targets[t] EXCEPT !.desired = Larger(@, gen),
                               !.phase = IF @ \in {"retiring", "recovery"} THEN @ ELSE "pending"]]

\* replace_desired_state with the current generation: statuses are left to the next pass.
ReplaceDesired(want) ==
    /\ scope.gen < MaxGen /\ want # scope.want
    /\ scope' = [gen |-> scope.gen + 1, want |-> want]
    /\ request' = Woke(scope.gen + 1, target, attempt)
    /\ UNCHANGED <<target, resource, claim, attempt, ledger, projected,
                   files, worker, pass, recoverer, spent>>

\* advance_changed_scopes: a published or retired Skill source changes what the Scope desires.
PublishSource(want) ==
    /\ scope.gen < MaxGen /\ want # scope.want
    /\ scope' = [gen |-> scope.gen + 1, want |-> want]
    /\ target' = Advanced(scope.gen + 1, target)
    /\ request' = Woke(scope.gen + 1, target, attempt)
    /\ UNCHANGED <<resource, claim, attempt, ledger, projected,
                   files, worker, pass, recoverer, spent>>

\* The Target half of retire_consumer.
Retiring(t) ==
    [target EXCEPT ![t].life = "retiring",
                   ![t].phase = IF @ = "recovery" THEN @ ELSE "retiring"]

NextEpoch_MSame == scope.gen

\* A topology change opens a convergence epoch of its own.
NextEpoch == scope.gen + 1

\* retire_consumer
RetireTarget(t) ==
    /\ scope.gen < MaxGen
    /\ target[t].life = "active" /\ t \in Retirable
    /\ scope' = [scope EXCEPT !.gen = NextEpoch]
    /\ target' = Advanced(NextEpoch, Retiring(t))
    /\ request' = Woke(NextEpoch, target, attempt)
    /\ UNCHANGED <<resource, claim, attempt, ledger, projected,
                   files, worker, pass, recoverer, spent>>

\* retry_target: request_reconcile at the current generation.
RetryTarget(t) ==
    /\ target[t].life # "gone"
    /\ request[t] # Woken(request[t], scope.gen, Quarantined(t))
    /\ request' = [request EXCEPT ![t] = Woken(@, scope.gen, Quarantined(t))]
    /\ UNCHANGED <<scope, target, resource, claim, attempt, ledger, projected,
                   files, worker, pass, recoverer, spent>>

\* The user of a Workspace edits, replaces or removes the item in a Skill directory.
UserEdits(r, item) ==
    /\ spent.edits < MaxEdits
    /\ item \in UserWork \cup {Missing} /\ item # disk[r]
    /\ item = Drift => disk[r] \in Contents
    /\ disk' = [disk EXCEPT ![r] = item]
    /\ spent' = [spent EXCEPT !.edits = @ + 1]
    /\ UNCHANGED <<db, stash, litter, worker, pass, recoverer>>

-----------------------------------------------------------------------------
(* The worker: EffectWorker::run_pass. *)

\* The scan that precedes every claim.
StartPass ==
    /\ worker.pc = "idle"
    /\ Quarantine
    /\ worker' = [worker EXCEPT !.pc = "claim"]
    /\ UNCHANGED <<files, pass, recoverer, spent>>

Claimable_MNeverReclaims(t, due) ==
    /\ request[t].state = "pending" \/ (request[t].state = "retry" /\ t \in due)
    /\ attempt[t].phase = "none"

Claimable_MIgnoresJournals(t, due) ==
    \/ request[t].state = "pending" \/ request[t].by = "expired"
    \/ request[t].state = "retry" /\ t \in due

\* The WHERE clause of claim_due_targets.
Claimable(t, due) ==
    /\ \/ request[t].state = "pending" \/ request[t].by = "expired"
       \/ request[t].state = "retry" /\ t \in due
    /\ attempt[t].phase = "none"

\* claim_due_targets; "due" are the scheduled retries whose time has come.
ClaimDue(due) ==
    LET batch == {t \in Targets : Claimable(t, due)}
    IN  /\ worker.pc = "claim"
        /\ due \subseteq {t \in Targets : request[t].state = "retry"}
        /\ request' = [t \in Targets |-> IF t \in batch
                         THEN [request[t] EXCEPT !.state = "claimed", !.by = "worker"]
                         ELSE request[t]]
        /\ worker' = IF batch = {} THEN Idle ELSE [pc |-> "busy", batch |-> batch, lease |-> TRUE]
        /\ UNCHANGED <<scope, target, resource, claim, attempt, ledger, projected,
                       files, pass, recoverer, spent>>

\* The next Target of the batch, or the end of the pass.
NextTarget ==
    /\ worker.pc = "busy" /\ pass.pc = "none"
    /\ IF worker.batch = {}
       THEN worker' = Idle /\ UNCHANGED pass
       ELSE \E t \in worker.batch :
              /\ worker' = [worker EXCEPT !.batch = @ \ {t}]
              /\ pass' = [NoPass EXCEPT !.pc = "claim", !.target = t]
    /\ UNCHANGED <<db, files, recoverer, spent>>

\* An error leaves reconcile for the error arm of reconcile_target.
Failed == [NoPass EXCEPT !.pc = "failed", !.target = pass.target]

Abort == pass' = Failed /\ UNCHANGED <<db, files>>

\* One call of the reconciler: "ok" is the repository's verdict on the claims.
Call(pc, ok, effect) ==
    /\ pass.pc = pc
    /\ \/ ok /\ effect
       \/ ~ok /\ Abort
    /\ UNCHANGED <<worker, recoverer, spent>>

-----------------------------------------------------------------------------
(* The reconciler: EffectReconciler::reconcile. *)

\* claim_resources: every Resource or none, refused only while another claim's lease runs.
ClaimResources ==
    LET t == pass.target
    IN  Call("claim", Holds(t) /\ \A r \in Bind[t] : ~Runs(claim[r].by),
             /\ claim' = [r \in Resources |-> IF r \in Bind[t]
                            THEN [target |-> t, by |-> "worker"] ELSE claim[r]]
             /\ pass' = [pass EXCEPT !.pc = "load"]
             /\ UNCHANGED <<scope, target, resource, request, attempt, ledger, projected, files>>)

\* load_reconcile_snapshot, in the order of its queries: the Target, ...
LoadTarget ==
    Call("load", Holds(pass.target),
         /\ pass' = [pass EXCEPT !.pc = "desired", !.life = target[pass.target].life]
         /\ UNCHANGED <<db, files>>)

\* ... the Desired State, ...
LoadDesired ==
    Call("desired", TRUE,
         /\ pass' = [pass EXCEPT !.pc = "related", !.gen = scope.gen, !.want = scope.want]
         /\ UNCHANGED <<db, files>>)

\* ... the Targets that share a Resource, ...
LoadRelated ==
    LET t == pass.target
    IN  Call("related", TRUE,
             /\ pass' = [pass EXCEPT !.pc = "status",
                           !.active = {u \in Related(t) :
                             IF u = t THEN pass.life = "active" ELSE target[u].life = "active"}]
             /\ UNCHANGED <<db, files>>)

\* ... statuses and ledger.  Recording the observation rejects a generation that regresses.
LoadStatuses ==
    LET t == pass.target
    IN  Call("status", /\ target[t].observed <= pass.gen
                       /\ \A r \in Bind[t] : resource[r].observed <= pass.gen,
             /\ pass' = [pass EXCEPT !.pc = "plan", !.desired = Larger(target[t].desired, pass.gen),
                                     !.ledger = [r \in Bind[t] |-> ledger[r]]]
             /\ UNCHANGED <<db, files>>)

Wanted(r) == Merged(pass.active, pass.want, r)

\* The operation a mutation of r is journaled as.
Operation(r) ==
    [expected |-> IF Matched(pass.ledger[r], disk[r]) THEN disk[r] ELSE Missing,
     planned |-> Wanted(r)]

\* plan_snapshot, and the choice of reconcile between its three outcomes.
PlanPass ==
    LET bound == Bind[pass.target]
        mutated == {r \in bound : Change(Wanted(r), pass.ledger[r], disk[r]) \in Mutations}
    IN  Call("plan", TRUE,
             /\ pass' = IF \E r \in bound : Obstructed(Wanted(r), pass.ledger[r], disk[r])
                        THEN [pass EXCEPT !.pc = "block"]
                        ELSE [pass EXCEPT !.pc = IF mutated = {} THEN "commit" ELSE "prepare",
                                          !.ops = [r \in mutated |-> Operation(r)],
                                          !.todo = mutated]
             /\ UNCHANGED <<db, files>>)

\* block_target
CommitBlocked ==
    LET t == pass.target
    IN  Call("block", Holds(t) /\ HoldsResources(t),
             /\ target' = [target EXCEPT ![t] =
                  SavedStatus(@, [@ EXCEPT !.phase = "planning", !.desired = pass.desired,
                                           !.observed = pass.gen])]
             /\ resource' = [r \in Resources |-> IF r \in Bind[t]
                  THEN [resource[r] EXCEPT !.phase = "reconciling", !.observed = pass.gen]
                  ELSE resource[r]]
             /\ request' = [request EXCEPT ![t].state = "blocked", ![t].by = "none"]
             /\ claim' = Released(t)
             /\ pass' = NoPass
             /\ UNCHANGED <<scope, attempt, ledger, projected, files>>)

\* Immutable projections: a contributor selects everything desired, or nothing.
Projection(u) == IF u \in pass.active /\ pass.want # Missing THEN "full" ELSE "empty"

Contributors == {u \in Related(pass.target) : target[u].life # "gone"}

\* save_projections accepts a new identity or an exact replay.
Projectable == \A u \in Contributors : projected[u][pass.gen] \in {"none", Projection(u)}

SavedProjections ==
    [u \in Targets |-> IF u \in Contributors
                       THEN [projected[u] EXCEPT ![pass.gen] = Projection(u)] ELSE projected[u]]

\* validate_managed_transition: the rows to remove are exactly those the ledger still has.
LedgerUnmoved ==
    \A r \in Bind[pass.target] :
        Wanted(r) = Missing => (ledger[r] = Missing <=> pass.ledger[r] = Missing)

\* The status a completed pass leaves, or no Target at all (finish_retiring_target).
Ready(t) ==
    IF target[t].life = "retiring" THEN Gone
    ELSE SavedStatus(target[t], [target[t] EXCEPT !.phase = "current", !.desired = pass.desired,
                                                  !.observed = pass.gen, !.ready = pass.gen])

\* What commit_projection and finalize_attempt share: ledger, statuses, request and claims.
Complete(t) ==
    /\ ledger' = [r \in Resources |-> IF r \in Bind[t] THEN Wanted(r) ELSE ledger[r]]
    /\ target' = [target EXCEPT ![t] = Ready(t)]
    /\ resource' = [r \in Resources |-> IF r \in Bind[t]
                      THEN [phase |-> "current", observed |-> pass.gen, applied |-> pass.gen]
                      ELSE resource[r]]
    /\ request' = [request EXCEPT ![t] = IF target[t].life = "retiring" THEN NoRequest
                                         ELSE Completed(@, pass.gen)]
    /\ claim' = Released(t)

\* commit_current_without_mutation, with commit_projection
CommitCurrent ==
    LET t == pass.target
    IN  Call("commit", Holds(t) /\ HoldsResources(t) /\ LedgerUnmoved /\ Projectable,
             /\ Complete(t)
             /\ projected' = SavedProjections
             /\ pass' = NoPass
             /\ UNCHANGED <<scope, attempt, files>>)

\* The artifacts of closed operations are due for cleanup; their paths are never reused.
Artifacts(t, ops) ==
    {[resource |-> r, item |-> stash[t][r], expected |-> ops[r].expected] : r \in DOMAIN ops}

Unstashed(t) == [stash EXCEPT ![t] = [r \in Resources |-> Missing]]

\* prepare_attempt: journal and artifact authority are durable before any side effect.
Prepare ==
    LET t == pass.target
    IN  Call("prepare", Holds(t) /\ HoldsResources(t) /\ Projectable,
             /\ attempt' = [attempt EXCEPT ![t] = [phase |-> "prepared", ops |-> pass.ops]]
             /\ projected' = SavedProjections
             /\ litter' = litter \cup {[resource |-> r, state |-> "orphan", item |-> stash[t][r]] :
                                         r \in {q \in Resources : stash[t][q] # Missing}}
             /\ stash' = Unstashed(t)
             /\ pass' = [pass EXCEPT !.pc = "coordinate"]
             /\ UNCHANGED <<scope, target, resource, request, claim, ledger, disk>>)

\* record_attempt_progress, under the claim
Record(from, phase, to) ==
    LET t == pass.target
    IN  Call(from, Holds(t),
             /\ attempt' = [attempt EXCEPT ![t].phase = phase]
             /\ pass' = [pass EXCEPT !.pc = to]
             /\ UNCHANGED <<scope, target, resource, request, claim, ledger, projected, files>>)

\* Every participant has agreed to pause.
Coordinate == Record("coordinate", "coordinated", "apply")

\* apply_operation: the exact expected or planned state, or nothing is touched.
ApplyStarts(r) ==
    LET op == pass.ops[r]
    IN  /\ pass.pc = "apply" /\ r \in pass.todo
        /\ pass' = IF disk[r] \notin {op.planned, op.expected} THEN Failed
                   ELSE [pass EXCEPT !.todo = @ \ {r}, !.at = r,
                           !.pc = IF disk[r] = op.planned THEN "record"
                                  ELSE IF op.expected = Missing THEN "install" ELSE "backup"]
        /\ UNCHANGED <<db, files, worker, recoverer, spent>>

\* The rename of the previous tree to the backup path, whatever it holds by now.
BackUp ==
    LET r == pass.at
    IN  Call("backup", disk[r] # Missing,
             /\ stash' = [stash EXCEPT ![pass.target][r] = disk[r]]
             /\ disk' = [disk EXCEPT ![r] = Missing]
             /\ pass' = [pass EXCEPT !.pc = IF pass.ops[r].planned = Missing
                                            THEN "record" ELSE "install"]
             /\ UNCHANGED <<db, litter>>)

\* The rename of the staged tree into place; an occupied path refuses it.
Install ==
    LET r == pass.at
    IN  Call("install", disk[r] = Missing,
             /\ disk' = [disk EXCEPT ![r] = pass.ops[r].planned]
             /\ pass' = [pass EXCEPT !.pc = "record"]
             /\ UNCHANGED <<db, stash, litter>>)

\* restore_backup, after a failed installation
InstallFails ==
    LET t == pass.target
        r == pass.at
    IN  /\ pass.pc = "install" /\ disk[r] = Missing
        /\ Fault
        /\ disk' = [disk EXCEPT ![r] = stash[t][r]]
        /\ stash' = [stash EXCEPT ![t][r] = Missing]
        /\ pass' = Failed
        /\ UNCHANGED <<db, litter, worker, recoverer>>

\* The journal of one applied operation, and its verification.
RecordApplied ==
    LET r == pass.at
    IN  Call("record", Holds(pass.target),
             /\ pass' = IF disk[r] # pass.ops[r].planned THEN Failed
                        ELSE [pass EXCEPT !.pc = IF pass.todo = {} THEN "verified" ELSE "apply"]
             /\ UNCHANGED <<db, files>>)

\* The applied and verified phases of the attempt, then the participants resume.
MarkVerified == Record("verified", "verified", "activate")

Activate == Record("activate", "activated", "finalize")

\* finalize_attempt
Finalize ==
    LET t == pass.target
    IN  Call("finalize", /\ Holds(t) /\ HoldsResources(t) /\ LedgerUnmoved
                         /\ attempt[t].phase = "activated",
             /\ Complete(t)
             /\ attempt' = [attempt EXCEPT ![t] = NoAttempt]
             /\ pass' = [NoPass EXCEPT !.pc = "clean", !.target = t,
                                       !.trash = Artifacts(t, pass.ops)]
             /\ stash' = Unstashed(t)
             /\ UNCHANGED <<scope, projected, disk, litter>>)

Exact_MAnything(a) == TRUE

\* cleanup_artifact removes only the exact tree its authority names.
Exact(a) == a.item \in {Missing, a.expected}

Leftovers(trash, state) ==
    {[resource |-> a.resource, state |-> state, item |-> a.item] : a \in trash}

\* The cleanup of one artifact: complete_artifact_cleanup or mark_artifact_cleanup_failed.
CleanUp(a) ==
    \/ Exact(a) /\ UNCHANGED <<litter, spent>>
    \/ /\ \/ ~Exact(a) /\ UNCHANGED spent
          \/ Exact(a) /\ Fault
       /\ litter' = litter \cup Leftovers({a}, "failed")

PassCleansUp(a) ==
    /\ pass.pc = "clean" /\ a \in pass.trash
    /\ CleanUp(a)
    /\ pass' = IF pass.trash = {a} THEN NoPass ELSE [pass EXCEPT !.trash = @ \ {a}]
    /\ UNCHANGED <<db, disk, stash, worker, recoverer>>

\* Any call of the reconciler may fail: plugin IPC, the filesystem, the database.
StepFails ==
    /\ pass.pc \notin {"none", "failed", "retry", "install"}
    /\ Fault
    /\ pass' = Failed
    /\ litter' = litter \cup Leftovers(pass.trash, "pending")
    /\ UNCHANGED <<db, disk, stash, worker, recoverer>>

\* The error arm of reconcile_target: the scan, ...
FailureScan ==
    /\ pass.pc = "failed"
    /\ Quarantine
    /\ pass' = [pass EXCEPT !.pc = "retry"]
    /\ UNCHANGED <<files, worker, recoverer, spent>>

\* ... then schedule_retry, which ignores a claim that is no longer valid, ...
ScheduleRetry ==
    LET t == pass.target
    IN  /\ pass.pc = "retry"
        /\ request' = IF Holds(t) THEN [request EXCEPT ![t].state = "retry", ![t].by = "none"]
                      ELSE request
        /\ claim' = IF Holds(t) THEN Released(t) ELSE claim
        /\ pass' = NoPass
        /\ UNCHANGED <<scope, target, resource, attempt, ledger, projected,
                       files, worker, recoverer, spent>>

\* ... unless storage fails as well: the claim stays until its lease runs out.
GiveUp ==
    LET t == pass.target
    IN  /\ pass.pc \in {"failed", "retry"}
        /\ Fault
        /\ request' = [request EXCEPT ![t].by = Left(@)]
        /\ claim' = [r \in Resources |-> IF claim[r].target = t
                       THEN [claim[r] EXCEPT !.by = Left(@)] ELSE claim[r]]
        /\ pass' = NoPass
        /\ UNCHANGED <<scope, target, resource, attempt, ledger, projected,
                       files, worker, recoverer>>

-----------------------------------------------------------------------------
(* Explicit recovery: EffectRecoverer::recover, on an API thread that holds *)
(* no claim.                                                               *)

\* The scan of every worker pass comes first.
RecoverBegin(t) ==
    /\ worker.pc # "down" /\ recoverer.pc = "idle" /\ target[t].life # "gone"
    /\ Quarantine
    /\ recoverer' = [NoRecovery EXCEPT !.pc = "prove", !.target = t]
    /\ UNCHANGED <<files, worker, pass, spent>>

\* prove_closure: each operation is where it was meant to be, or where it began.
Provable(t) ==
    \A r \in DOMAIN attempt[t].ops :
        disk[r] \in {attempt[t].ops[r].planned, attempt[t].ops[r].expected}

Landed(t) == {r \in DOMAIN attempt[t].ops : disk[r] = attempt[t].ops[r].planned}

\* A healthy Target, or an operation that proves neither state, ends the call.
RecoverProve ==
    LET t == recoverer.target
    IN  /\ recoverer.pc = "prove"
        /\ recoverer' = IF Quarantined(t) /\ Provable(t)
                        THEN [recoverer EXCEPT !.pc = "finalize", !.landed = Landed(t)]
                        ELSE NoRecovery
        /\ UNCHANGED <<db, files, worker, pass, spent>>

\* resume_recovered_resource: no other Target's operation still awaits recovery on r.
Freed(t, r) == \A u \in Targets \ {t} : Quarantined(u) => r \notin DOMAIN attempt[u].ops

Recoverable(t) ==
    /\ Quarantined(t) /\ target[t].phase = "recovery"
    /\ \A r \in DOMAIN attempt[t].ops : Freed(t, r) => resource[r].phase = "recovery"

\* A retiring Target needs a fresh epoch for its empty projection.
RecoveryEpoch(t) == IF target[t].life = "retiring" THEN scope.gen + 1 ELSE scope.gen

GrantedRows_MAll(ops, landed) == DOMAIN ops

\* apply_recovery_ledger: only a planned-state proof advances ownership.
GrantedRows(ops, landed) == landed

\* The recovery holds no Resource claim: by its commit the proof is out of date, or the
\* pass of another Target is at work on what was proven.
Raced(t) ==
    \/ ~Provable(t) \/ recoverer.landed # Landed(t)
    \/ \E r \in DOMAIN attempt[t].ops : claim[r].by = "worker"

\* finalize_target_recovery; what it cannot resume rolls the whole transaction back.
RecoverFinalize ==
    LET t == recoverer.target
        ops == attempt[t].ops
        epoch == RecoveryEpoch(t)
        retiring == target[t].life = "retiring"
        closed == [attempt EXCEPT ![t] = NoAttempt]
        resumed == [target EXCEPT ![t].phase = IF retiring THEN "retiring" ELSE "pending"]
    IN  /\ recoverer.pc = "finalize"
        /\ \/ /\ Recoverable(t) /\ epoch <= MaxGen
              /\ attempt' = closed
              /\ ledger' = [r \in Resources |-> IF r \in GrantedRows(ops, recoverer.landed)
                                                THEN ops[r].planned ELSE ledger[r]]
              /\ resource' = [r \in Resources |-> IF r \in DOMAIN ops /\ Freed(t, r)
                                THEN [resource[r] EXCEPT !.phase = "pending"] ELSE resource[r]]
              /\ scope' = [scope EXCEPT !.gen = epoch]
              /\ target' = IF retiring THEN Advanced(epoch, resumed) ELSE resumed
              /\ request' = IF retiring THEN Woke(epoch, target, closed)
                            ELSE [request EXCEPT ![t] = Woken(@, epoch, FALSE)]
              /\ recoverer' = [NoRecovery EXCEPT !.pc = "clean", !.trash = Artifacts(t, ops)]
              /\ stash' = Unstashed(t)
              /\ spent' = [spent EXCEPT !.raced = @ \/ Raced(t)]
              /\ UNCHANGED <<claim, projected>>
           \/ ~Recoverable(t) /\ recoverer' = NoRecovery /\ UNCHANGED <<db, stash, spent>>
        /\ UNCHANGED <<disk, litter, worker, pass>>

\* cleanup_artifacts
RecovererCleansUp(a) ==
    /\ recoverer.pc = "clean" /\ a \in recoverer.trash
    /\ CleanUp(a)
    /\ recoverer' = IF recoverer.trash = {a} THEN NoRecovery
                    ELSE [recoverer EXCEPT !.trash = @ \ {a}]
    /\ UNCHANGED <<db, disk, stash, worker, pass>>

-----------------------------------------------------------------------------
(* Time and crashes. *)

Lapsed(by) == IF by = "gone" THEN "expired" ELSE by

\* The lease of a batch runs out under a worker that is slow or suspended; every
\* claim nobody works under is older.
LeaseExpires ==
    /\ worker.pc = "busy" /\ worker.lease
    /\ spent.faults < MaxFaults
    /\ spent' = [spent EXCEPT !.faults = @ + 1, !.overrun = TRUE]
    /\ worker' = [worker EXCEPT !.lease = FALSE]
    /\ request' = [t \in Targets |-> [request[t] EXCEPT !.by = Lapsed(@)]]
    /\ claim' = [r \in Resources |-> [claim[r] EXCEPT !.by = Lapsed(@)]]
    /\ UNCHANGED <<scope, target, resource, attempt, ledger, projected,
                   files, pass, recoverer>>

\* The lease of an abandoned batch runs out.
AbandonedLeaseExpires ==
    /\ \/ \E t \in Targets : request[t].by = "gone"
       \/ \E r \in Resources : claim[r].by = "gone"
    /\ request' = [t \in Targets |-> [request[t] EXCEPT !.by = Lapsed(@)]]
    /\ claim' = [r \in Resources |-> [claim[r] EXCEPT !.by = Lapsed(@)]]
    /\ UNCHANGED <<scope, target, resource, attempt, ledger, projected,
                   files, worker, pass, recoverer, spent>>

\* The process dies: the database and the directories are all that is left.
Crash ==
    /\ worker.pc # "down"
    /\ Fault
    /\ request' = [t \in Targets |-> [request[t] EXCEPT !.by = Left(@)]]
    /\ claim' = [r \in Resources |-> [claim[r] EXCEPT !.by = Left(@)]]
    /\ litter' = litter \cup Leftovers(pass.trash \cup recoverer.trash, "pending")
    /\ worker' = [Idle EXCEPT !.pc = "down"]
    /\ pass' = NoPass /\ recoverer' = NoRecovery
    /\ UNCHANGED <<scope, target, resource, attempt, ledger, projected, disk, stash>>

\* EffectWorker::recover, before the worker thread starts.
Boot ==
    /\ worker.pc = "down"
    /\ Quarantine
    /\ worker' = Idle
    /\ UNCHANGED <<files, pass, recoverer, spent>>

-----------------------------------------------------------------------------
(* The specification. *)

\* The requests and edits that reach Effects from outside.
Environment ==
    \/ \E want \in Contents \cup {Missing} : ReplaceDesired(want) \/ PublishSource(want)
    \/ \E t \in Targets : RetireTarget(t) \/ RetryTarget(t) \/ RecoverBegin(t)
    \/ \E r \in Resources, item \in Items : UserEdits(r, item)

Reconcile ==
    \/ ClaimResources \/ LoadTarget \/ LoadDesired \/ LoadRelated \/ LoadStatuses \/ PlanPass
    \/ CommitBlocked \/ CommitCurrent \/ Prepare \/ Coordinate
    \/ \E r \in Resources : ApplyStarts(r)
    \/ BackUp \/ Install \/ RecordApplied \/ MarkVerified \/ Activate \/ Finalize
    \/ \E a \in pass.trash : PassCleansUp(a)
    \/ FailureScan \/ ScheduleRetry

Recover ==
    \/ RecoverProve \/ RecoverFinalize
    \/ \E a \in recoverer.trash : RecovererCleansUp(a)

Faults == InstallFails \/ StepFails \/ GiveUp \/ Crash \/ LeaseExpires

Next ==
    \/ Environment
    \/ StartPass \/ \E due \in SUBSET Targets : ClaimDue(due)
    \/ NextTarget \/ Reconcile
    \/ Recover
    \/ Faults
    \/ AbandonedLeaseExpires \/ Boot

EffectSpec == EffectInit /\ [][Next]_vars

\* The worker thread and an API thread keep running, time passes (leases and retry
\* delays run out), and the application is started again after a crash.  Users,
\* sources and faults owe nothing.
FairEffectSpec ==
    /\ EffectSpec
    /\ WF_vars(StartPass) /\ WF_vars(NextTarget) /\ WF_vars(Reconcile) /\ WF_vars(Recover)
    /\ WF_vars(\E due \in SUBSET Targets : ClaimDue(due))
    /\ SF_vars(ClaimDue({t \in Targets : request[t].state = "retry"}))
    /\ WF_vars(AbandonedLeaseExpires) /\ WF_vars(Boot)

-----------------------------------------------------------------------------
(* Properties. *)

Operations == [expected : Contents \cup {Missing}, planned : Contents \cup {Missing}]
Journals == UNION {[rs -> Operations] : rs \in SUBSET Resources}

\* Type correctness of the durable rows, the directories and the threads.
EffectsTypeOK ==
    /\ scope \in [gen : 1..MaxGen, want : Contents \cup {Missing}]
    /\ target \in [Targets -> [life : {"active", "retiring", "gone"}, phase : TargetPhases,
                               desired : 0..MaxGen, observed : 0..MaxGen, ready : 0..MaxGen]]
    /\ resource \in [Resources -> [phase : {"pending", "reconciling", "current", "recovery"},
                                   observed : 0..MaxGen, applied : 0..MaxGen]]
    /\ request \in [Targets -> [state : {"none", "pending", "claimed", "retry", "blocked"},
                                gen : 0..MaxGen, by : {"none", "worker", "gone", "expired"}]]
    /\ \A t \in Targets : request[t].by # "none" <=> request[t].state = "claimed"
    /\ \A r \in Resources : claim[r] = NoClaim \/ (claim[r].target \in Targets /\ r \in Bind[claim[r].target])
    /\ \A t \in Targets : attempt[t].ops \in Journals /\ DOMAIN attempt[t].ops \subseteq Bind[t]
    /\ ledger \in [Resources -> Contents \cup {Missing}]
    /\ disk \in [Resources -> Items]
    /\ pass.target \in Targets \cup {Missing} /\ pass.ops \in Journals
    /\ recoverer.target \in Targets \cup {Missing}

\* An unfinished journal always has its Target and its request row: without them the scan of
\* quarantine_unfinished_operations errors out and claiming pauses for every Target.
JournalHasOwner ==
    \A t \in Targets : attempt[t].phase # "none" =>
        target[t].life # "gone" /\ request[t].state # "none"

\* A quarantined Target stays out of the queue and says so: its request is blocked and its
\* status is RecoveryRequired, whatever wakes it, until its journal is closed.
QuarantineHolds ==
    \A t \in Targets : Quarantined(t) =>
        request[t].state = "blocked" /\ target[t].phase = "recovery"

\* A worker whose lease still runs is never quarantined, by any of the scans that run beside it.
LiveWorkIsNotQuarantined ==
    pass.pc \in {"coordinate", "apply", "backup", "install", "record", "verified",
                 "activate", "finalize"} /\ worker.lease =>
        attempt[pass.target].phase \notin {"none", "recovery"} /\ Holds(pass.target)

\* A Target that has not proven the Scope's generation has a request that asks for it.
IntentIsNotLost ==
    \A t \in Targets : target[t].life # "gone" /\ target[t].ready < scope.gen =>
        request[t].state # "none" /\ request[t].gen = scope.gen

\* No user interfered, no worker outlived its lease and no recovery raced a pass.
Undisturbed == spent.edits = 0 /\ ~spent.overrun /\ ~spent.raced

\* Undisturbed and with no operation open, the ledger names exactly what is in the directory,
\* after any failures, crashes and recoveries.
LedgerMatchesDisk ==
    Undisturbed => \A r \in Resources :
        (\A t \in Targets : r \notin DOMAIN attempt[t].ops) => ledger[r] = disk[r]

\* The places a user's work can be in: the directory and the backup paths.
Kept(r) ==
    {disk[r]} \cup {stash[t][r] : t \in Targets}
        \cup {x.item : x \in {y \in pass.trash \cup recoverer.trash \cup litter : y.resource = r}}

\* Ora never destroys work it did not write: only the user makes it disappear.
UserWorkIsKept ==
    [][\A r \in Resources : Kept(r) \cap UserWork \subseteq Kept(r)' \/ spent'.edits # spent.edits]_vars

\* Every request is worked off or explicitly blocked, unless a quarantine stands in the way.
RequestsAreSettled ==
    \A t \in Targets :
        []<>(request[t].state \in {"none", "blocked"} \/ \E u \in Targets : Quarantined(u))

\* A retiring Target leaves, unless it is blocked or a quarantine stands in the way.
RetirementEnds ==
    \A t \in Targets : target[t].life = "retiring" ~>
        \/ target[t].life = "gone" \/ request[t].state = "blocked"
        \/ \E u \in Targets : Quarantined(u)

-----------------------------------------------------------------------------
(* What the documentation says and the code does not keep. *)

\* docs/agents/effects.md: an older completion "cannot lower a watermark or report `Current`
\* while newer work remains, and the newer request stays pending for the next pass".
OlderPassKeepsNewerWork ==
    [][(CommitCurrent \/ Finalize) /\ target' # target /\ request[pass.target].gen > pass.gen =>
         /\ target'[pass.target].phase # "current"
         /\ request'[pass.target] = Pending(request[pass.target].gen)]_vars

\* docs/agents/effects.md: "the Resource keeps its evidence pointed at a still-quarantined
\* operation", and "Nothing clears RecoveryRequired automatically".
ResourceKeepsQuarantine ==
    \A t \in Targets : Quarantined(t) =>
        \A r \in DOMAIN attempt[t].ops : resource[r].phase = "recovery"

=============================================================================
