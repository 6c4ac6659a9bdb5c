---------------------------- MODULE EffectState ----------------------------
(***************************************************************************)
(* What the Effects reconciler decides without touching anything: the      *)
(* Skill planner's change of one Resource (crates/effect-skill/src/        *)
(* planner.rs), the merge of Target statuses, and the transitions of       *)
(* requests (crates/db/src/repository/effect/).                            *)
(*                                                                         *)
(* A Scope desires at most one Skill, so every Resource has one native     *)
(* item with one managed identity.  A content stands for a revision and    *)
(* its fingerprint, and Missing for an absent item, an absent ledger row   *)
(* and an empty Desired set alike.                                         *)
(***************************************************************************)
EXTENDS Naturals

CONSTANTS
    Targets,
    Resources,
    Bind,        \* the Resources each Target declares (TargetDeclaration.bindings)
    Contents,    \* the contents a Scope may desire
    Missing

Foreign == "foreign"    \* an item without Ora's marker
Drift == "drift"        \* an item with Ora's marker whose content Ora never wrote

UserWork == {Foreign, Drift}
Items == Contents \cup {Missing} \cup UserWork

ASSUME EffectAssumption ==
    /\ Bind \in [Targets -> SUBSET Resources]
    /\ Missing \notin Contents \cup UserWork
    /\ Contents \cap UserWork = {}

Larger(m, n) == IF m < n THEN n ELSE m

\* The Targets that may contribute to a Resource of t, t itself included.
Related(t) == {u \in Targets : u = t \/ Bind[u] \cap Bind[t] # {}}

\* What the contributors in "active" together desire of Resource r: a retiring
\* Target selects nothing.
Merged(active, want, r) ==
    IF \E u \in active : r \in Bind[u] THEN want ELSE Missing

\* An item counts as managed only if its marker matches a ledger row.
Matched(row, seen) == row # Missing /\ seen \in Contents \cup {Drift}

\* A Preserved Item is in the way, or a Managed Item has drifted.
Obstructed(wanted, row, seen) ==
    \/ /\ wanted # Missing /\ seen # Missing
       /\ ~Matched(row, seen)
    \/ Matched(row, seen) /\ seen # row

\* plan_changes, for an unobstructed Resource.
Change(wanted, row, seen) ==
    LET owned == IF Matched(row, seen) THEN seen ELSE Missing
    IN  CASE wanted = owned                          -> IF row = owned THEN "keep" ELSE "forget"
          [] wanted # Missing /\ owned = Missing     -> "create"
          [] wanted = Missing /\ owned # Missing     -> "delete"
          [] wanted # owned /\ Missing \notin {wanted, owned} -> "update"

Mutations == {"create", "update", "delete"}

-----------------------------------------------------------------------------
(* Target statuses.  The applied watermark is written only together with   *)
(* the ready one, so one field stands for both.                            *)

TargetPhases == {"pending", "planning", "current", "retiring", "recovery"}

\* Newer intent arrived while the reconciler worked on "new".
Superseded(old, new) ==
    \/ old.desired > new.desired
    \/ new.phase = "current" /\ Larger(old.desired, new.desired) > Larger(old.ready, new.ready)

\* The phase CASE of save_target_status.
SavedPhase(old, new) ==
    IF "recovery" \in {old.phase, new.phase} THEN "recovery"
    ELSE IF "retiring" \in {old.phase, new.phase} THEN "retiring"
    ELSE IF Superseded(old, new) THEN "pending" ELSE new.phase

\* save_target_status: watermarks only rise, and an older completion never hides newer work.
SavedStatus(old, new) ==
    [old EXCEPT !.desired = Larger(old.desired, new.desired),
                !.observed = Larger(old.observed, new.observed),
                !.ready = Larger(old.ready, new.ready),
                !.phase = SavedPhase(old, new)]

-----------------------------------------------------------------------------
(* Reconcile requests, one row per Target at most.  "by" is the worker that *)
(* holds a claim: "worker" for the token of the batch being reconciled,    *)
(* "gone" for a token nobody uses any more whose lease still runs,         *)
(* "expired" once that lease is over.                                      *)

NoRequest == [state |-> "none", gen |-> 0, by |-> "none"]

Pending(gen) == [state |-> "pending", gen |-> gen, by |-> "none"]

\* upsert_target_wakeup; "quarantined" says an operation of the Target awaits recovery.
Woken(request, gen, quarantined) ==
    IF request.state = "claimed" \/ (request.state = "blocked" /\ quarantined)
    THEN [request EXCEPT !.gen = Larger(@, gen)]
    ELSE Pending(Larger(request.gen, gen))

Completed_MForgets(request, ready) == NoRequest

\* complete_request: only what was proven ready is done.
Completed(request, ready) ==
    IF request.gen <= ready THEN NoRequest ELSE Pending(request.gen)
=============================================================================
