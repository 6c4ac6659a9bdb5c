----------------------------- MODULE RunLedger -----------------------------
(***************************************************************************)
(* What a guardian promises its hosts, without how it keeps it: a ledger   *)
(* of accepted Runs whose facts only advance, an admission that is sealed  *)
(* once, and a session that only moves to later host epochs.  The module   *)
(* Guardian implements it; the module ProcessHost relies on it.            *)
(*                                                                         *)
(* A row says what the ledger confirms of a Run and whether its stop was   *)
(* requested; tracked holds the Runs the guardian follows, and executed    *)
(* those of them whose workload may have been executed.  A row outside     *)
(* tracked is lost: its acceptance was durable, but nothing follows it.    *)
(***************************************************************************)
EXTENDS ScopeKernel

CONSTANTS
    Runs,        \* RunIds
    Epochs,      \* host epochs
    Facts        \* the facts a row can hold

ASSUME LedgerAssumption ==
    /\ Epochs \subseteq Nat \ {0}
    /\ Facts \subseteq [launch : Launches, direct : Directs, cleanup : Cleanups]

Accepted == [launch |-> "Unknown", direct |-> "Unknown", cleanup |-> "Pending"]

EmptyLedger(epoch) ==
    [session |-> epoch, scope |-> "Open", tracked |-> {}, executed |-> {},
     facts |-> [r \in {} |-> Accepted], stops |-> {}]

\* Whether a row can say this of a Run: only executed workloads have started, a Run
\* proven not to have started was not executed, and cleanup is complete only after
\* the direct process.
Truthful(executed, r, f) ==
    /\ f.launch = "Started" => r \in executed
    /\ f.launch = "NotStarted" => r \notin executed
    /\ Complete(f) => f.direct \in {"NotStarted"} \cup Exits

\* h is g after the guardian has followed its tracked Runs: facts advance, a lost
\* row is never touched again, and a sealed scope closes only when every accepted
\* Run is tracked and complete.
Follows(g, h) ==
    /\ \A r \in DOMAIN g.facts :
          /\ FactsAdvance(g.facts[r], h.facts[r])
          /\ Truthful(g.executed, r, h.facts[r])
          /\ h.facts[r] # g.facts[r] => r \in g.tracked
    /\ \/ h.scope = g.scope
       \/ /\ g.scope = "Closing" /\ h.scope \in Evidences
          /\ \A r \in DOMAIN h.facts : r \in g.tracked /\ Complete(h.facts[r])

\* The ledgers that follow g.
FollowUps(g) ==
    {h \in [session : {g.session}, scope : ScopeStates, tracked : {g.tracked},
            executed : {g.executed}, facts : [DOMAIN g.facts -> Facts],
            stops : {g.stops}] : Follows(g, h)}

\* What each request does to a ledger it is accepted by, before following it.  A Run
\* is accepted as lost, or tracked and then executed or proven not started.
WithRun(g, r, tracked, executed) ==
    [g EXCEPT !.facts = [q \in DOMAIN g.facts \cup {r} |->
                            IF q = r THEN Accepted ELSE g.facts[q]],
              !.tracked = @ \cup tracked, !.executed = @ \cup executed]

WithStop(g, r) == [g EXCEPT !.stops = @ \cup {r}]

Sealed(g) == [g EXCEPT !.scope = "Closing", !.stops = DOMAIN g.facts]

-----------------------------------------------------------------------------

VARIABLE ledger

Takeover(epoch) ==
    /\ epoch > ledger.session
    /\ ledger' = [ledger EXCEPT !.session = epoch]

Accept(r) ==
    /\ ledger.scope = "Open" /\ r \notin DOMAIN ledger.facts
    /\ \E tracked \in SUBSET {r} : \E executed \in SUBSET tracked :
          ledger' \in FollowUps(WithRun(ledger, r, tracked, executed))

Stop(r) ==
    /\ r \in DOMAIN ledger.facts
    /\ ledger' \in FollowUps(WithStop(ledger, r))

Close ==
    /\ ledger.scope = "Open"
    /\ ledger' \in FollowUps(Sealed(ledger))

Follow == ledger' \in FollowUps(ledger)

Init == \E epoch \in Epochs : ledger = EmptyLedger(epoch)

Next ==
    \/ \E epoch \in Epochs : Takeover(epoch)
    \/ \E r \in Runs : Accept(r) \/ Stop(r)
    \/ Close
    \/ Follow

Spec == Init /\ [][Next]_ledger
=============================================================================
