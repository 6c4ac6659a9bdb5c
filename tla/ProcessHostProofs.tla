------------------------- MODULE ProcessHostProofs -------------------------
(***************************************************************************)
(* The safety of the process host (crates/process-runtime/src/host.rs,     *)
(* host/worker.rs, host_state/) against any guardian that keeps RunLedger, *)
(* for every number of Runs, host incarnations, waiting requests and       *)
(* faults.                                                                 *)
(*                                                                         *)
(* What a worker learns may be old when it is committed, and what earlier  *)
(* workers asked may still be executed.  HostInv therefore says of all     *)
(* that is under way (the answer not read, the exchange not committed, the *)
(* requests waiting at the guardian) how it stands to the ledger.  A       *)
(* cancellation is the hard case: it is a claim about the future, that no  *)
(* Start of the Run will ever be executed (Barred).                        *)
(***************************************************************************)
EXTENDS ProcessHost, ScopeKernelProofs, WellFoundedInduction

(* The invariant.                                                           *)

\* An exchange waits for the guardian.
Active == work.pc \in {"bind", "scope", "runs"}

\* The Runs an exchange prepared from journal j stops.
StopSet(j) == IF j.close THEN j.runs ELSE j.stops

\* No Start of Run r is waiting or will be sent.
Barred(r) ==
    /\ r \in StopSet(journal)
    /\ Active => r \in work.stops
    /\ \A i \in 1..Len(queue) : queue[i].op = "Start" => queue[i].run # r

\* Facts f of Run r are an earlier state of the row ledger g has of it, or g has none.
Agrees(g, r, f) ==
    IF r \in DOMAIN g.facts THEN FactsAdvance(f, g.facts[r]) ELSE f = Cancelled

\* What the host may hold of Run r: facts of the guardian, or a cancellation the
\* guardian can no longer contradict.
SeenOK(r, f) == Agrees(ledger, r, f) /\ (r \in DOMAIN ledger.facts \/ Barred(r))

\* The journal does not hold more of Run r than f.
NotOlder(r, f) == r \in DOMAIN journal.seen => FactsAdvance(journal.seen[r], f)

\* What a guardian keeps of its ledger: rows for what it executed, no execution behind
\* a row that says NotStarted, and a closed scope has only complete rows.
LedgerOK(g) ==
    /\ g.executed \subseteq DOMAIN g.facts
    /\ \A r \in DOMAIN g.facts : g.facts[r].launch = "NotStarted" => r \notin g.executed
    /\ g.scope \in Evidences => \A r \in DOMAIN g.facts : Complete(g.facts[r])

\* One guardian, no row before it is up, no request waiting without it.
LaunchOK ==
    /\ GuardianLaunchedOnce
    /\ guardian = "absent" <=> launches = 0
    /\ guardian \in {"absent", "starting"} =>
          ledger.facts = [r \in {} |-> Accepted] /\ ledger.scope = "Open"
    /\ guardian # "up" => queue = <<>>
    /\ journal.launched => journal.creator # 0

\* The awaited request q is the one the worker waits for.
Asked(q) ==
    /\ answer = NoAnswer /\ Active
    /\ work.pc = "bind" => q.op = "Bind"
    /\ work.pc = "scope" => q.op \in {"Scope", "Close"}
    /\ work.pc = "runs" =>
          /\ q.run = NextRun(work)
          /\ q.op = IF NextRun(work) \in work.stops THEN "Stop" ELSE "Start"

\* Once a bind is answered every older request has been overtaken, so none is left
\* when the scope request is served: while Runs are asked for, only the worker's own
\* request waits.
QueueOK ==
    \A i \in 1..Len(queue) :
        /\ queue[i].op \in {"Start", "Stop"} => queue[i].run \in Runs
        /\ queue[i].awaited => Asked(queue[i])
        /\ work.pc = "scope" \/ answer.kind = "Bound" => queue[i].awaited \/ queue[i].overtaken
        /\ work.pc = "runs" \/ answer.kind = "Scope" => queue[i].awaited

\* An answer not read yet belongs to the request of the worker and is still true.
AnswerOK ==
    /\ answer # NoAnswer => Active
    /\ answer.kind = "Bound" => work.pc = "bind"
    /\ answer.kind = "Scope" => work.pc = "scope"
    /\ answer.kind \in {"Run", "UnknownRun"} => work.pc = "runs"
    /\ answer.kind = "Run" =>
          /\ NextRun(work) \in DOMAIN ledger.facts
          /\ FactsAdvance(answer.facts, ledger.facts[NextRun(work)])
          /\ NotOlder(NextRun(work), answer.facts)
    /\ answer.kind = "UnknownRun" =>
          NextRun(work) \notin DOMAIN ledger.facts /\ NextRun(work) \in work.stops

\* An exchange stops only what the journal stops.
WorkOK ==
    /\ journal.stops \subseteq journal.runs
    /\ work.stops \subseteq StopSet(journal)
    /\ work.pc = "runs" => work.todo # {}

\* The journal and the exchange agree with the ledger, the exchange not older.
SeenInv ==
    /\ \A r \in DOMAIN journal.seen : SeenOK(r, journal.seen[r])
    /\ \A r \in DOMAIN work.seen : SeenOK(r, work.seen[r]) /\ NotOlder(r, work.seen[r])

\* Evidence that the scope is closed comes from the guardian, or there is none.
Confirmed(s) ==
    s \in Evidences => ledger.scope \in Evidences \/ (journal.close /\ ~journal.launched)

\* Every copy of the scope's state is confirmed.
ScopeOK ==
    /\ Confirmed(journal.scope) /\ Confirmed(work.scope)
    /\ answer.kind = "Scope" => Confirmed(answer.scope)

\* A settled scope has no exchange and a complete journal.
SettledOK ==
    progress.settled =>
        /\ work.pc = "idle" /\ journal.close /\ journal.scope \in Evidences
        /\ \A r \in journal.runs : r \in DOMAIN journal.seen /\ Complete(journal.seen[r])

HostInv ==
    /\ HostTypeOK /\ LaunchOK /\ LedgerOK(ledger) /\ QueueOK /\ AnswerOK /\ WorkOK
    /\ SeenInv /\ ScopeOK /\ SettledOK

\* The members of Partial(domain, range), without the union.
LEMMA PartialIs ==
    ASSUME NEW domain, NEW range, NEW f
    PROVE  f \in Partial(domain, range) <=> DOMAIN f \subseteq domain /\ f \in [DOMAIN f -> range]
  BY Zenon DEF Partial

\* A set of Runs that is not empty has a first one.
LEMMA NextRunType ==
    ASSUME NEW w, w.todo \subseteq Runs, w.todo # {}
    PROVE  NextRun(w) \in w.todo /\ NextRun(w) \in Runs
  <1>1. w.todo \subseteq Nat
    BY Zenon, HostAssumption
  <1> DEFINE R == {ss \in Nat \X Nat : ss[1] < ss[2]}
  <1>5. R = OpToRel(<, Nat)
    BY Zenon DEF OpToRel
  <1>2. PICK r \in w.todo : \A q \in w.todo : ~(<<q, r>> \in R)
    <2>1. IsWellFoundedOn(R, Nat) BY Zenon, <1>5, NatLessThanWellFounded
    <2> HIDE DEF R
    <2> QED BY Zenon, <1>1, <2>1, WFMin
  <1>3. \A q \in w.todo : r <= q
    <2> SUFFICES ASSUME NEW q \in w.todo PROVE r <= q
      BY Zenon
    <2>1. ~(<<q, r>> \in R) /\ q \in Nat /\ r \in Nat
      BY Zenon, <1>1, <1>2
    <2>2. ~(q < r)
      BY Zenon, <2>1
    <2> QED BY <2>1, <2>2
  <1> QED BY Zenon, <1>3 DEF NextRun

-----------------------------------------------------------------------------
(* The ledger of the guardian.                                              *)

\* h holds what g holds, and at most the Runs of `new` besides.
LedgerGrows(g, h, new) ==
    /\ DOMAIN g.facts \subseteq DOMAIN h.facts
    /\ DOMAIN h.facts \subseteq DOMAIN g.facts \cup new
    /\ \A r \in DOMAIN g.facts : FactsAdvance(g.facts[r], h.facts[r])
    /\ g.scope \in Evidences => h.scope \in Evidences

\* The Runs a request can add.
Brings(q) == IF q.op = "Start" THEN {q.run} ELSE {}

\* Facts that stay as they are advance.
LEMMA FactsStay == \A f : FactsAdvance(f, f)
  BY Zenon DEF FactsAdvance, Exits

\* Following a ledger (the guardian's reconcile) keeps what it confirmed.
LEMMA FollowUpsGrow ==
    ASSUME NEW g \in Ledgers, LedgerOK(g), NEW h \in FollowUps(g)
    PROVE  h \in Ledgers /\ LedgerOK(h) /\ LedgerGrows(g, h, {})
  <1>1. /\ h \in [session : {g.session}, scope : ScopeStates, tracked : {g.tracked},
                  executed : {g.executed}, facts : [DOMAIN g.facts -> Facts], stops : {g.stops}]
        /\ Follows(g, h)
    BY Zenon DEF FollowUps
  <1>2. /\ h.executed = g.executed /\ DOMAIN h.facts = DOMAIN g.facts
        /\ h.facts \in [DOMAIN g.facts -> Facts]
    BY Zenon, <1>1
  <1>3. DOMAIN g.facts \subseteq Runs
    BY Zenon, PartialIs DEF Ledgers
  <1>4. h.facts \in Partial(Runs, Facts)
    BY Zenon, <1>2, <1>3, PartialIs
  <1>5. h \in Ledgers
    BY Zenon, <1>1, <1>4 DEF Ledgers
  <1>6. LedgerGrows(g, h, {})
    BY Zenon, <1>1, <1>2 DEF LedgerGrows, Follows
  <1>7. \A r \in DOMAIN h.facts : h.facts[r].launch = "NotStarted" => r \notin h.executed
    BY Zenon, <1>1, <1>2 DEF Follows, Truthful
  <1>8. ASSUME h.scope \in Evidences, NEW r \in DOMAIN h.facts
        PROVE  Complete(h.facts[r])
    <2>1. CASE h.scope = g.scope
      <3>1. Complete(g.facts[r]) /\ FactsAdvance(g.facts[r], h.facts[r])
        BY Zenon, <1>2, <1>6, <1>8, <2>1 DEF LedgerOK, LedgerGrows
      <3> QED BY Zenon, <3>1 DEF FactsAdvance, Complete
    <2> QED BY Zenon, <1>1, <1>8, <2>1 DEF Follows
  <1> QED BY Zenon, <1>2, <1>5, <1>6, <1>7, <1>8 DEF LedgerOK

\* Two steps of a ledger are one.
LEMMA GrowthsJoin ==
    ASSUME NEW g, NEW h, NEW k, NEW new, LedgerGrows(g, h, new), LedgerGrows(h, k, {})
    PROVE  LedgerGrows(g, k, new)
  <1>1. \A r \in DOMAIN g.facts : FactsAdvance(g.facts[r], k.facts[r])
    BY Zenon, FactsAdvanceTransitive DEF LedgerGrows
  <1> QED BY Zenon, <1>1 DEF LedgerGrows

\* Accepting a Run (start) adds its row and touches no other.
LEMMA WithRunGrows ==
    ASSUME NEW g \in Ledgers, LedgerOK(g), g.scope = "Open", NEW r \in Runs,
           r \notin DOMAIN g.facts,
           NEW tracked \in SUBSET {r}, NEW executed \in SUBSET {r}
    PROVE  LET h == WithRun(g, r, tracked, executed)
           IN  h \in Ledgers /\ LedgerOK(h) /\ LedgerGrows(g, h, {r})
  <1> DEFINE h == WithRun(g, r, tracked, executed)
             rows == [q \in DOMAIN g.facts \cup {r} |->
                         IF q = r THEN Accepted ELSE g.facts[q]]
  <1>1. g.facts \in [DOMAIN g.facts -> Facts] /\ DOMAIN g.facts \subseteq Runs
    BY Zenon, PartialIs DEF Ledgers
  <1>2. rows \in [DOMAIN g.facts \cup {r} -> Facts] /\ DOMAIN rows = DOMAIN g.facts \cup {r}
    BY Zenon, <1>1, HostAssumption
  <1>3. rows \in Partial(Runs, Facts)
    BY <1>1, <1>2, PartialIs
  <1>4. rows[r] = Accepted /\ \A q \in DOMAIN g.facts : rows[q] = g.facts[q]
    BY Zenon
  <1> HIDE DEF rows
  <1>5. /\ h \in Ledgers /\ h.facts = rows /\ h.executed = g.executed \cup executed
        /\ h.scope = g.scope
    BY Zenon, <1>3 DEF h, rows, WithRun, Ledgers
  <1> HIDE DEF h
  <1>6. LedgerGrows(g, h, {r})
    BY Zenon, <1>2, <1>4, <1>5, FactsStay DEF LedgerGrows
  <1>7. Accepted.launch # "NotStarted" /\ g.scope \notin Evidences
    BY Zenon DEF Accepted, Evidences
  <1>8. LedgerOK(h)
    BY Zenon, <1>2, <1>4, <1>5, <1>7 DEF LedgerOK
  <1> QED BY Zenon, <1>5, <1>6, <1>8 DEF h

\* Every operation of the guardian (execute_run, apply), or what a failing journal
\* leaves of it, keeps the ledger's promises and adds at most the Run of a Start.
LEMMA EffectsGrow ==
    ASSUME ledger \in Ledgers, LedgerOK(ledger), NEW q \in Messages,
           q.op \in {"Start", "Stop"} => q.run \in Runs, NEW g \in PartialEffects(q)
    PROVE  g \in Ledgers /\ LedgerOK(g) /\ LedgerGrows(ledger, g, Brings(q))
  <1>1. CASE g = ledger
    BY Zenon, <1>1, FactsStay DEF LedgerGrows
  <1>2. CASE q.op = "Close" /\ ledger.scope = "Open" /\ g = Sealed(ledger)
    <2>1. DOMAIN ledger.facts \subseteq Runs
      BY Zenon, PartialIs DEF Ledgers
    <2>2. /\ g \in Ledgers /\ g.facts = ledger.facts /\ g.executed = ledger.executed
          /\ g.scope = "Closing"
      BY Zenon, <1>2, <2>1 DEF Sealed, Ledgers, ScopeStates
    <2>3. ledger.scope \notin Evidences /\ g.scope \notin Evidences
      BY Zenon, <1>2, <2>2 DEF Evidences
    <2> QED BY Zenon, <2>2, <2>3, FactsStay DEF LedgerGrows, LedgerOK
  <1>3. CASE q.op = "Stop" /\ q.run \in DOMAIN ledger.facts /\ g = WithStop(ledger, q.run)
    <2>2. /\ g \in Ledgers /\ g.facts = ledger.facts /\ g.executed = ledger.executed
          /\ g.scope = ledger.scope
      BY Zenon, <1>3 DEF WithStop, Ledgers
    <2> QED BY Zenon, <2>2, FactsStay DEF LedgerGrows, LedgerOK
  <1>4. CASE /\ q.op = "Start" /\ q.run \notin DOMAIN ledger.facts /\ ledger.scope = "Open"
             /\ \E tracked, executed \in SUBSET {q.run} :
                   g = WithRun(ledger, q.run, tracked, executed)
    BY Zenon, <1>4, WithRunGrows DEF Brings
  <1>5. \/ g = ledger
        \/ q.op = "Close" /\ ledger.scope = "Open" /\ g = Sealed(ledger)
        \/ q.op = "Stop" /\ q.run \in DOMAIN ledger.facts /\ g = WithStop(ledger, q.run)
        \/ /\ q.op = "Start" /\ q.run \notin DOMAIN ledger.facts /\ ledger.scope = "Open"
           /\ \E tracked, executed \in SUBSET {q.run} :
                 g = WithRun(ledger, q.run, tracked, executed)
    BY Zenon DEF PartialEffects, Effects
  <1> QED BY Zenon, <1>1, <1>2, <1>3, <1>4, <1>5

\* Facts that agreed with a ledger agree with what it grows to.
LEMMA AgreesStays ==
    ASSUME NEW g, NEW h, NEW new, NEW r, NEW f, LedgerGrows(g, h, new), Agrees(g, r, f),
           r \in DOMAIN g.facts \/ r \notin new
    PROVE  Agrees(h, r, f) /\ (r \in DOMAIN g.facts => r \in DOMAIN h.facts)
                           /\ (r \notin DOMAIN g.facts => r \notin DOMAIN h.facts)
  <1>1. CASE r \in DOMAIN g.facts
    <2>1. FactsAdvance(f, g.facts[r]) /\ FactsAdvance(g.facts[r], h.facts[r])
      BY Zenon, <1>1 DEF Agrees, LedgerGrows
    <2>2. FactsAdvance(f, h.facts[r])
      BY Zenon, <2>1, FactsAdvanceTransitive
    <2> QED BY Zenon, <1>1, <2>2 DEF Agrees, LedgerGrows
  <1>2. CASE r \notin DOMAIN g.facts
    BY Zenon, <1>2 DEF Agrees, LedgerGrows
  <1> QED BY Zenon, <1>1, <1>2

-----------------------------------------------------------------------------
(* The guardian executes a request.                                         *)

\* The reply to request q is about the ledger after it.
Tells(q, reply) ==
    /\ reply \in Answers /\ reply # NoAnswer
    /\ reply.kind = "Bound" => q.op = "Bind"
    /\ reply.kind = "Scope" => q.op \in {"Scope", "Close"} /\ reply.scope = ledger'.scope
    /\ reply.kind = "Run" => /\ q.op \in {"Start", "Stop"} /\ q.run \in DOMAIN ledger'.facts
                             /\ reply.facts = ledger'.facts[q.run]
    /\ reply.kind = "UnknownRun" => q.op = "Stop" /\ q.run \notin DOMAIN ledger'.facts

\* What GuardianBinds, GuardianExecutes and GuardianStorageFails have in common.
Serves(i, reply) ==
    /\ Served(i) /\ Replies(i, reply) /\ Tells(queue[i], reply)
    /\ ledger' \in Ledgers /\ LedgerOK(ledger') /\ LedgerGrows(ledger, ledger', Brings(queue[i]))
    /\ faults' \in 0..MaxFaults

\* bind: the session moves, the Runs do not.
LEMMA SessionMoves ==
    ASSUME ledger \in Ledgers, LedgerOK(ledger), NEW epoch \in Epochs
    PROVE  LET h == [ledger EXCEPT !.session = epoch]
           IN  h \in Ledgers /\ LedgerOK(h) /\ \A new : LedgerGrows(ledger, h, new)
  <1> DEFINE h == [ledger EXCEPT !.session = epoch]
  <1>1. /\ h \in Ledgers /\ h.facts = ledger.facts /\ h.executed = ledger.executed
        /\ h.scope = ledger.scope
    BY Zenon DEF Ledgers
  <1> HIDE DEF h
  <1>2. LedgerOK(h) /\ \A new : LedgerGrows(ledger, h, new)
    BY Zenon, <1>1, FactsStay DEF LedgerOK, LedgerGrows
  <1> QED BY Zenon, <1>1, <1>2 DEF h

\* The replies of execute_run and apply tell the truth about the ledger.
LEMMA ReplyTells ==
    ASSUME NEW q \in Messages, ledger' \in Ledgers, q.op # "Bind"
    PROVE  Tells(q, Reply(q, ledger')) /\ Tells(q, [kind |-> "Rejected"])
  <1>1. ledger'.facts \in [DOMAIN ledger'.facts -> Facts] /\ ledger'.scope \in ScopeStates
    BY Zenon, PartialIs DEF Ledgers
  <1>2. Tells(q, [kind |-> "Rejected"])
    BY Zenon DEF Tells, Answers, NoAnswer
  <1>3. CASE q.op \in {"Scope", "Close"}
    <2>1. Reply(q, ledger') = [kind |-> "Scope", scope |-> ledger'.scope]
      BY Zenon, <1>3 DEF Reply
    <2> QED BY <1>1, <1>2, <1>3, <2>1 DEF Tells, Answers, NoAnswer
  <1>4. CASE q.op \in {"Start", "Stop"} /\ q.run \in DOMAIN ledger'.facts
    <2>1. Reply(q, ledger') = [kind |-> "Run", facts |-> ledger'.facts[q.run]]
      BY Zenon, <1>4 DEF Reply
    <2> QED BY <1>1, <1>2, <1>4, <2>1 DEF Tells, Answers, NoAnswer
  <1>5. CASE q.op = "Stop" /\ q.run \notin DOMAIN ledger'.facts
    <2>1. Reply(q, ledger') = [kind |-> "UnknownRun"]
      BY Zenon, <1>5 DEF Reply
    <2> QED BY <1>2, <1>5, <2>1 DEF Tells, Answers, NoAnswer
  <1>6. CASE q.op = "Start" /\ q.run \notin DOMAIN ledger'.facts
    <2>1. Reply(q, ledger') = [kind |-> "Rejected"]
      BY Zenon, <1>6 DEF Reply
    <2> QED BY Zenon, <1>2, <2>1
  <1> QED BY Zenon, <1>3, <1>4, <1>5, <1>6 DEF Messages

\* A request the guardian serves, whatever becomes of it, is one such step.
LEMMA GuardianServes ==
    ASSUME HostInv, NEW i \in DOMAIN queue,
           GuardianBinds(i) \/ GuardianExecutes(i) \/ GuardianStorageFails(i)
    PROVE  \E reply : Serves(i, reply)
  <1>1. /\ queue \in Seq(Messages) /\ ledger \in Ledgers /\ LedgerOK(ledger)
        /\ faults \in 0..MaxFaults
    BY Zenon DEF HostInv, HostTypeOK
  <1>2. PICK q : q = queue[i]
    BY Zenon
  <1>3. q \in Messages /\ (q.op \in {"Start", "Stop"} => q.run \in Runs) /\ q.epoch \in Epochs
    <2>1. i \in 1..Len(queue) /\ q \in Messages
      BY <1>1, <1>2
    <2> QED BY Zenon, <1>2, <2>1 DEF HostInv, QueueOK, Messages
  <1>4. LedgerGrows(ledger, ledger, Brings(q))
    BY Zenon, FactsStay DEF LedgerGrows
  <1>5. CASE GuardianBinds(i)
    <2>1. faults' = faults /\ Served(i) /\ q.op = "Bind"
      BY Zenon, <1>2, <1>5 DEF GuardianBinds
    <2>2. CASE ledger' = ledger /\ Replies(i, [kind |-> "Rejected"])
      <3>1. Tells(q, [kind |-> "Rejected"])
        BY Zenon DEF Tells, Answers, NoAnswer
      <3> QED BY Zenon, <1>1, <1>2, <1>4, <2>1, <2>2, <3>1 DEF Serves
    <2>3. CASE ledger' = [ledger EXCEPT !.session = q.epoch] /\ Replies(i, [kind |-> "Bound"])
      <3>1. Tells(q, [kind |-> "Bound"])
        BY Zenon, <2>1 DEF Tells, Answers, NoAnswer
      <3>2. ledger' \in Ledgers /\ LedgerOK(ledger') /\ LedgerGrows(ledger, ledger', Brings(q))
        BY Zenon, <1>1, <1>3, <2>3, SessionMoves
      <3> QED BY Zenon, <1>1, <1>2, <2>1, <2>3, <3>1, <3>2 DEF Serves
    <2> QED BY Zenon, <1>2, <1>5, <2>2, <2>3 DEF GuardianBinds
  <1>6. ASSUME NEW g \in PartialEffects(q), ledger' \in FollowUps(g)
        PROVE  ledger' \in Ledgers /\ LedgerOK(ledger') /\ LedgerGrows(ledger, ledger', Brings(q))
    <2>1. g \in Ledgers /\ LedgerOK(g) /\ LedgerGrows(ledger, g, Brings(q))
      BY Zenon, <1>1, <1>3, EffectsGrow
    <2>2. ledger' \in Ledgers /\ LedgerOK(ledger') /\ LedgerGrows(g, ledger', {})
      BY Zenon, <1>6, <2>1, FollowUpsGrow
    <2> QED BY Zenon, <2>1, <2>2, GrowthsJoin
  <1>7. CASE GuardianExecutes(i)
    <2>1. faults' = faults /\ Served(i) /\ q.op # "Bind"
      BY Zenon, <1>2, <1>7 DEF GuardianExecutes
    <2>2. CASE ledger' = ledger /\ Replies(i, [kind |-> "Rejected"])
      <3>1. Tells(q, [kind |-> "Rejected"])
        BY Zenon DEF Tells, Answers, NoAnswer
      <3> QED BY Zenon, <1>1, <1>2, <1>4, <2>1, <2>2, <3>1 DEF Serves
    <2>3. CASE \E g \in Effects(q) :
                  ledger' \in FollowUps(g) /\ Replies(i, Reply(q, ledger'))
      <3>1. PICK g \in Effects(q) : ledger' \in FollowUps(g) /\ Replies(i, Reply(q, ledger'))
        BY Zenon, <2>3
      <3>2. g \in PartialEffects(q)
        BY Zenon DEF PartialEffects
      <3>3. ledger' \in Ledgers /\ LedgerOK(ledger') /\ LedgerGrows(ledger, ledger', Brings(q))
        BY Zenon, <1>6, <3>1, <3>2
      <3>4. Tells(q, Reply(q, ledger'))
        BY Zenon, <1>3, <2>1, <3>3, ReplyTells
      <3> QED BY Zenon, <1>1, <1>2, <2>1, <3>1, <3>3, <3>4 DEF Serves
    <2> QED BY Zenon, <1>2, <1>7, <2>2, <2>3 DEF GuardianExecutes
  <1>8. CASE GuardianStorageFails(i)
    <2>1. Served(i) /\ Replies(i, [kind |-> "Rejected"]) /\ faults' = faults + 1 /\ faults < MaxFaults
      BY Zenon, <1>8 DEF GuardianStorageFails
    <2>2. Tells(q, [kind |-> "Rejected"])
      BY Zenon DEF Tells, Answers, NoAnswer
    <2>3. ledger' \in Ledgers /\ LedgerOK(ledger') /\ LedgerGrows(ledger, ledger', Brings(q))
      <3>1. CASE ledger' = ledger
        BY Zenon, <1>1, <1>4, <3>1
      <3>2. CASE ledger' = [ledger EXCEPT !.session = q.epoch]
        BY Zenon, <1>1, <1>3, <3>2, SessionMoves
      <3>3. CASE \E g \in PartialEffects(q) : ledger' \in FollowUps(g)
        BY Zenon, <1>6, <3>3
      <3> QED BY Zenon, <1>2, <1>8, <3>1, <3>2, <3>3 DEF GuardianStorageFails
    <2>4. faults' \in 0..MaxFaults
      BY <1>1, <2>1, HostAssumption
    <2> QED BY Zenon, <1>2, <2>1, <2>2, <2>3, <2>4 DEF Serves
  <1> QED BY Zenon, <1>5, <1>7, <1>8

\* What is left of the queue: every request that stays is one that was there.
LEMMA QueueShifts ==
    ASSUME queue \in Seq(Messages), NEW i \in 1..Len(queue), NEW reply, Replies(i, reply)
    PROVE  /\ queue' \in Seq(Messages) /\ Len(queue') = Len(queue) - 1
           /\ \A j \in 1..Len(queue') : \E k \in 1..Len(queue) :
                 /\ IF j < i THEN k = j ELSE k = j + 1
                 /\ queue'[j].op = queue[k].op /\ queue'[j].run = queue[k].run
                 /\ queue'[j].awaited = queue[k].awaited
                 /\ queue[k].overtaken \/ j < i => queue'[j].overtaken
  <1>1. queue' = [j \in 1..(Len(queue) - 1) |->
                     IF j < i THEN [queue[j] EXCEPT !.overtaken = TRUE] ELSE queue[j + 1]]
    BY Zenon DEF Replies
  <1>2. Len(queue) \in Nat /\ Len(queue) >= 1 /\ \A k \in 1..Len(queue) : queue[k] \in Messages
    OBVIOUS
  <1>3. \A k \in 1..Len(queue) : [queue[k] EXCEPT !.overtaken = TRUE] \in Messages
    BY Zenon, <1>2 DEF Messages
  <1>4. ASSUME NEW j \in 1..(Len(queue) - 1)
        PROVE  /\ queue'[j] \in Messages
               /\ j < i => j \in 1..Len(queue) /\ queue'[j] = [queue[j] EXCEPT !.overtaken = TRUE]
               /\ ~(j < i) => j + 1 \in 1..Len(queue) /\ queue'[j] = queue[j + 1]
    BY <1>1, <1>2, <1>3
  <1>5. queue' \in [1..(Len(queue) - 1) -> Messages] /\ Len(queue) - 1 \in Nat
    BY <1>1, <1>2, <1>4
  <1>6. queue' \in Seq(Messages) /\ Len(queue') = Len(queue) - 1
    BY <1>5
  <1>7. ASSUME NEW j \in 1..(Len(queue) - 1)
        PROVE  \E k \in 1..Len(queue) :
                 /\ IF j < i THEN k = j ELSE k = j + 1
                 /\ queue'[j].op = queue[k].op /\ queue'[j].run = queue[k].run
                 /\ queue'[j].awaited = queue[k].awaited
                 /\ queue[k].overtaken \/ j < i => queue'[j].overtaken
    <2>1. CASE j < i
      <3>1. j \in 1..Len(queue) /\ queue'[j] = [queue[j] EXCEPT !.overtaken = TRUE]
        BY Zenon, <1>4, <2>1
      <3>2. /\ queue'[j].op = queue[j].op /\ queue'[j].run = queue[j].run
            /\ queue'[j].awaited = queue[j].awaited /\ queue'[j].overtaken
        BY Zenon, <1>2, <3>1 DEF Messages
      <3> QED BY Zenon, <2>1, <3>1, <3>2
    <2>2. CASE ~(j < i)
      BY Zenon, <1>4, <2>2
    <2> QED BY Zenon, <2>1, <2>2
  <1> QED BY Zenon, <1>6, <1>7

\* A served request keeps the invariant.
LEMMA ServesKeeps ==
    ASSUME HostInv, NEW i \in DOMAIN queue, NEW reply, Serves(i, reply)
    PROVE  HostInv'
  <1>1. /\ queue \in Seq(Messages) /\ Len(queue) <= MaxQueue /\ i \in 1..Len(queue)
        /\ \A k \in 1..Len(queue) : queue[k].awaited => k = Len(queue)
    BY DEF HostInv, HostTypeOK
  <1>2. /\ journal' = journal /\ up' = up /\ progress' = progress /\ work' = work
        /\ guardian' = guardian /\ launches' = launches /\ guardian = "up"
        /\ answer' = IF queue[i].awaited THEN reply ELSE answer
    BY Zenon DEF Serves, Replies, Served
  <1>3. /\ Tells(queue[i], reply) /\ ledger' \in Ledgers /\ LedgerOK(ledger')
        /\ LedgerGrows(ledger, ledger', Brings(queue[i])) /\ faults' \in 0..MaxFaults
        /\ \A j \in 1..(i - 1) : ~queue[j].overtaken
    BY Zenon DEF Serves, Served
  <1>4. /\ queue' \in Seq(Messages) /\ Len(queue') = Len(queue) - 1
        /\ \A j \in 1..Len(queue') : \E k \in 1..Len(queue) :
                 /\ IF j < i THEN k = j ELSE k = j + 1
                 /\ queue'[j].op = queue[k].op /\ queue'[j].run = queue[k].run
                 /\ queue'[j].awaited = queue[k].awaited
                 /\ queue[k].overtaken \/ j < i => queue'[j].overtaken
    BY Zenon, <1>1, QueueShifts DEF Serves
  <1>5. queue[i].awaited => Asked(queue[i]) /\ i = Len(queue)
    BY Zenon, <1>1 DEF HostInv, QueueOK
  <1>6. HostTypeOK'
    <2>1. \A j \in 1..Len(queue') : queue'[j].awaited => j = Len(queue')
      <3> SUFFICES ASSUME NEW j \in 1..Len(queue')
                   PROVE  queue'[j].awaited => j = Len(queue')
        BY Zenon
      <3>1. PICK k \in 1..Len(queue) :
                 /\ IF j < i THEN k = j ELSE k = j + 1
                 /\ queue'[j].op = queue[k].op /\ queue'[j].run = queue[k].run
                 /\ queue'[j].awaited = queue[k].awaited
        BY Zenon, <1>4
      <3> QED BY <1>1, <1>4, <3>1
    <2>2. answer' \in Answers
      BY Zenon, <1>2, <1>3 DEF HostInv, HostTypeOK, Tells
    <2>3. Len(queue') <= MaxQueue
      BY <1>1, <1>4, HostAssumption
    <2> QED BY Zenon, <1>2, <1>3, <1>4, <2>1, <2>2, <2>3 DEF HostInv, HostTypeOK
  <1>7. LaunchOK'
    BY Zenon, <1>2 DEF HostInv, LaunchOK, GuardianLaunchedOnce
  <1>8. ASSUME NEW j \in 1..Len(queue')
        PROVE  /\ queue'[j].op \in {"Start", "Stop"} => queue'[j].run \in Runs
               /\ queue'[j].awaited => Asked(queue[j])'
               /\ work'.pc = "scope" \/ answer'.kind = "Bound"
                     => queue'[j].awaited \/ queue'[j].overtaken
               /\ work'.pc = "runs" \/ answer'.kind = "Scope" => queue'[j].awaited
    <2>1. PICK k \in 1..Len(queue) :
                 /\ IF j < i THEN k = j ELSE k = j + 1
                 /\ queue'[j].op = queue[k].op /\ queue'[j].run = queue[k].run
                 /\ queue'[j].awaited = queue[k].awaited
                 /\ queue[k].overtaken \/ j < i => queue'[j].overtaken
      BY Zenon, <1>4
    <2>2. /\ queue[k].op \in {"Start", "Stop"} => queue[k].run \in Runs
          /\ queue[k].awaited => Asked(queue[k])
          /\ work.pc = "scope" \/ answer.kind = "Bound" => queue[k].awaited \/ queue[k].overtaken
          /\ work.pc = "runs" \/ answer.kind = "Scope" => queue[k].awaited
      BY Zenon DEF HostInv, QueueOK
    <2>3. k # i /\ (queue[i].awaited => j < i /\ j = k /\ ~queue[k].awaited)
      BY <1>1, <1>4, <1>5, <2>1
    <2>4. queue'[j].awaited => Asked(queue[j])'
      BY Zenon, <1>1, <1>2, <2>1, <2>2, <2>3 DEF Asked, Active, NextRun
    <2>5. CASE ~queue[i].awaited
      BY Zenon, <1>2, <2>1, <2>2, <2>4, <2>5
    <2>6. CASE queue[i].awaited
      <3>1. j < i /\ queue'[j].overtaken /\ Asked(queue[i])
        BY Zenon, <1>5, <2>1, <2>3, <2>6
      <3>2. answer.kind # "Scope" /\ work.pc # "runs"
        BY Zenon, <2>2, <2>3, <2>6, <3>1 DEF Asked, NoAnswer
      <3>3. ASSUME answer'.kind = "Scope" PROVE FALSE
        <4>1. queue[i].op \in {"Scope", "Close"}
          BY Zenon, <1>2, <1>3, <2>6, <3>3 DEF Tells
        <4>2. work.pc = "scope"
          BY Zenon, <3>1, <3>2, <4>1 DEF Asked, Active
        <4>3. queue[k].overtaken
          BY Zenon, <2>2, <2>3, <2>6, <4>2
        <4> QED BY <1>1, <1>3, <2>3, <2>6, <4>3
      <3> QED BY Zenon, <1>2, <2>1, <2>2, <2>4, <3>1, <3>2, <3>3
    <2> QED BY Zenon, <2>5, <2>6
  <1>9. QueueOK'
    BY Zenon, <1>8 DEF QueueOK
  <1>10. ASSUME NEW r, Barred(r)
         PROVE  Barred(r)' /\ r \notin Brings(queue[i])
    <2>1. r \notin Brings(queue[i])
      BY Zenon, <1>1, <1>10 DEF Barred, Brings
    <2>2. \A j \in 1..Len(queue') : queue'[j].op = "Start" => queue'[j].run # r
      <3> SUFFICES ASSUME NEW j \in 1..Len(queue')
                   PROVE  queue'[j].op = "Start" => queue'[j].run # r
        BY Zenon
      <3>1. PICK k \in 1..Len(queue) :
                 /\ IF j < i THEN k = j ELSE k = j + 1
                 /\ queue'[j].op = queue[k].op /\ queue'[j].run = queue[k].run
                 /\ queue'[j].awaited = queue[k].awaited
        BY Zenon, <1>4
      <3> QED BY Zenon, <1>10, <3>1 DEF Barred
    <2>3. Barred(r)'
      BY Zenon, <1>2, <1>10, <2>2 DEF Barred, Active, StopSet
    <2> QED BY Zenon, <2>1, <2>3
  <1>11. ASSUME NEW r, NEW f, SeenOK(r, f)
         PROVE  SeenOK(r, f)'
    <2>1. r \in DOMAIN ledger.facts \/ Barred(r)
      BY Zenon, <1>11 DEF SeenOK
    <2>2. r \in DOMAIN ledger.facts \/ r \notin Brings(queue[i])
      BY Zenon, <1>10, <2>1
    <2>3. /\ Agrees(ledger', r, f)
          /\ r \in DOMAIN ledger.facts => r \in DOMAIN ledger'.facts
      BY Zenon, <1>3, <1>11, <2>2, AgreesStays DEF SeenOK
    <2> QED BY Zenon, <1>10, <2>1, <2>3 DEF SeenOK
  <1>12. SeenInv'
    <2>1. ASSUME NEW r \in DOMAIN journal.seen PROVE SeenOK(r, journal.seen[r])'
      <3>1. PICK f : f = journal.seen[r] /\ f = journal'.seen[r]
        BY Zenon, <1>2
      <3>2. SeenOK(r, f)'
        BY Zenon, <1>11, <3>1 DEF HostInv, SeenInv
      <3> QED BY Zenon, <3>1, <3>2 DEF SeenOK
    <2>2. ASSUME NEW r \in DOMAIN work.seen
          PROVE  SeenOK(r, work.seen[r])' /\ NotOlder(r, work.seen[r])'
      <3>1. PICK f : f = work.seen[r] /\ f = work'.seen[r]
        BY Zenon, <1>2
      <3>2. SeenOK(r, f)' /\ NotOlder(r, f)
        BY Zenon, <1>11, <3>1 DEF HostInv, SeenInv
      <3> QED BY Zenon, <1>2, <3>1, <3>2 DEF SeenOK, NotOlder
    <2> QED BY Zenon, <1>2, <2>1, <2>2 DEF SeenInv
  <1>13. AnswerOK'
    <2>1. CASE ~queue[i].awaited
      <3>1. answer' = answer /\ work' = work /\ journal' = journal
        BY Zenon, <1>2, <2>1
      <3>2. answer.kind # "UnknownRun"
        BY Zenon, <1>1, <2>1 DEF HostInv, AnswerOK, QueueOK
      <3>3. ASSUME answer.kind = "Run"
            PROVE  /\ NextRun(work) \in DOMAIN ledger'.facts
                   /\ FactsAdvance(answer.facts, ledger'.facts[NextRun(work)])
                   /\ NotOlder(NextRun(work), answer.facts)
        <4>1. PICK r : r = NextRun(work)
          BY Zenon
        <4>2. r \in DOMAIN ledger.facts /\ FactsAdvance(answer.facts, ledger.facts[r])
              /\ NotOlder(r, answer.facts)
          BY Zenon, <3>3, <4>1 DEF HostInv, AnswerOK
        <4>3. r \in DOMAIN ledger'.facts /\ FactsAdvance(answer.facts, ledger'.facts[r])
          BY Zenon, <1>3, <4>2, FactsAdvanceTransitive DEF LedgerGrows
        <4> QED BY Zenon, <4>1, <4>2, <4>3
      <3> QED BY Zenon, <3>1, <3>2, <3>3 DEF HostInv, AnswerOK, Active, NextRun, NotOlder
    <2>2. CASE queue[i].awaited
      <3>1. answer' = reply /\ Asked(queue[i])
        BY Zenon, <1>2, <1>5, <2>2
      <3>2. PICK q : q = queue[i]
        BY Zenon
      <3>3. /\ Tells(q, reply) /\ work.pc \in {"bind", "scope", "runs"}
            /\ work.pc = "bind" => q.op = "Bind"
            /\ work.pc = "scope" => q.op \in {"Scope", "Close"}
            /\ work.pc = "runs" => /\ q.run = NextRun(work)
                                   /\ q.op = IF NextRun(work) \in work.stops THEN "Stop" ELSE "Start"
        BY Zenon, <1>3, <3>1, <3>2 DEF Asked, Active
      <3>4. /\ reply.kind = "Bound" => work.pc = "bind"
            /\ reply.kind = "Scope" => work.pc = "scope"
            /\ reply.kind \in {"Run", "UnknownRun"} => work.pc = "runs"
        BY Zenon, <3>3 DEF Tells
      <3>5. ASSUME reply.kind = "Run"
            PROVE  /\ NextRun(work) \in DOMAIN ledger'.facts
                   /\ FactsAdvance(reply.facts, ledger'.facts[NextRun(work)])
                   /\ NotOlder(NextRun(work), reply.facts)
        <4>1. PICK r : r = NextRun(work)
          BY Zenon
        <4>2. r \in DOMAIN ledger'.facts /\ reply.facts = ledger'.facts[r]
          BY Zenon, <3>3, <3>4, <3>5, <4>1 DEF Tells
        <4>3. r \in DOMAIN journal.seen => FactsAdvance(journal.seen[r], ledger'.facts[r])
          <5> SUFFICES ASSUME r \in DOMAIN journal.seen
                       PROVE  FactsAdvance(journal.seen[r], ledger'.facts[r])
            BY Zenon
          <5>1. SeenOK(r, journal.seen[r])'
            BY Zenon, <1>2, <1>12 DEF SeenInv
          <5> QED BY Zenon, <1>2, <4>2, <5>1 DEF SeenOK, Agrees
        <4> QED BY Zenon, <4>1, <4>2, <4>3, FactsStay DEF NotOlder
      <3>6. reply.kind = "UnknownRun"
               => NextRun(work) \notin DOMAIN ledger'.facts /\ NextRun(work) \in work.stops
        BY Zenon, <3>3, <3>4 DEF Tells
      <3> QED BY Zenon, <1>2, <3>1, <3>3, <3>4, <3>5, <3>6 DEF AnswerOK, Active, NextRun, NotOlder
    <2> QED BY Zenon, <2>1, <2>2
  <1>14. WorkOK' /\ SettledOK'
    BY Zenon, <1>2 DEF HostInv, WorkOK, SettledOK, StopSet
  <1>15. ScopeOK'
    <2>1. \A s : Confirmed(s) => Confirmed(s)'
      BY Zenon, <1>2, <1>3 DEF Confirmed, LedgerGrows
    <2>2. answer'.kind = "Scope" => Confirmed(answer.scope)'
      <3>1. CASE ~queue[i].awaited
        BY Zenon, <1>2, <1>3, <3>1 DEF HostInv, ScopeOK, Confirmed, LedgerGrows
      <3>2. CASE queue[i].awaited
        BY Zenon, <1>2, <1>3, <3>2 DEF Tells, Confirmed
      <3> QED BY Zenon, <3>1, <3>2
    <2> QED BY Zenon, <1>2, <1>3, <2>2 DEF HostInv, ScopeOK, Confirmed, LedgerGrows
  <1> QED BY Zenon, <1>3, <1>6, <1>7, <1>9, <1>12, <1>13, <1>14, <1>15 DEF HostInv

-----------------------------------------------------------------------------
(* The worker sends its next request.                                       *)

\* The next request of exchange w.
LEMMA RequestIs ==
    ASSUME NEW w \in Exchanges, w.pc \in {"bind", "scope", "runs"},
           w.pc = "runs" => w.todo # {}, journal \in Journals
    PROVE  LET m == Request(w) IN
           /\ m \in Messages /\ m.awaited
           /\ w.pc = "bind" => m.op = "Bind"
           /\ w.pc = "scope" => m.op \in {"Scope", "Close"}
           /\ w.pc = "runs" => /\ m.run = NextRun(w) /\ m.run \in Runs
                               /\ m.op = IF NextRun(w) \in w.stops THEN "Stop" ELSE "Start"
           /\ w.pc # "runs" => m.op \notin {"Start", "Stop"}
  <1>1. w.pc = "runs" => NextRun(w) \in Runs
    BY Zenon, NextRunType DEF Exchanges
  <1>2. PICK r : r = NextRun(w)
    BY Zenon
  <1>3. journal.epoch \in Epochs
    BY Zenon DEF Journals
  <1>4. CASE w.pc = "bind"
    <2>1. Request(w) = [op |-> "Bind", run |-> 0, epoch |-> journal.epoch,
                        awaited |-> TRUE, overtaken |-> FALSE]
      BY Zenon, <1>4 DEF Request
    <2> QED BY <1>3, <1>4, <2>1 DEF Messages
  <1>5. CASE w.pc = "scope"
    <2>1. Request(w) = [op |-> IF w.close THEN "Close" ELSE "Scope", run |-> 0,
                        epoch |-> journal.epoch, awaited |-> TRUE, overtaken |-> FALSE]
      BY Zenon, <1>5 DEF Request
    <2> QED BY <1>3, <1>5, <2>1 DEF Messages
  <1>6. CASE w.pc = "runs"
    <2>1. Request(w) = [op |-> IF r \in w.stops THEN "Stop" ELSE "Start", run |-> r,
                        epoch |-> journal.epoch, awaited |-> TRUE, overtaken |-> FALSE]
      BY Zenon, <1>2, <1>6 DEF Request
    <2> QED BY <1>1, <1>2, <1>3, <1>6, <2>1 DEF Messages
  <1> QED BY Zenon, <1>4, <1>5, <1>6

\* A worker that goes on with w leaves a queue in which only its own request is
\* awaited, and sends no Start of a Run it stops.
LEMMA ContinueKeeps ==
    ASSUME HostTypeOK, QueueOK, NEW w \in Exchanges, w.pc # "idle",
           \A i \in 1..Len(queue) : ~queue[i].awaited,
           w.pc = "scope" => \A i \in 1..Len(queue) : queue[i].overtaken,
           w.pc = "runs" => Len(queue) = 0,
           answer' = NoAnswer, Continue(w)
    PROVE  /\ work' \in Exchanges /\ work'.pc \in {w.pc, "done"}
           /\ work'.stops = w.stops /\ work'.seen = w.seen /\ work'.scope = w.scope
           /\ work'.pc = "runs" => work'.todo # {}
           /\ queue' \in Seq(Messages) /\ Len(queue') <= MaxQueue
           /\ \A i \in 1..Len(queue') : queue'[i].awaited => i = Len(queue')
           /\ QueueOK'
           /\ guardian # "up" => queue' = queue
           /\ \A i \in 1..Len(queue') :
                 queue'[i].op = "Start" =>
                    \/ i \in 1..Len(queue) /\ queue'[i] = queue[i]
                    \/ work'.pc \in {"bind", "scope", "runs"} /\ queue'[i].run \notin w.stops
  <1>1. /\ queue \in Seq(Messages) /\ Len(queue) <= MaxQueue /\ journal \in Journals
        /\ Len(queue) \in Nat
    BY DEF HostTypeOK
  <1>2. answer'.kind = "none"
    BY Zenon DEF NoAnswer
  <1>3. CASE w.pc = "done" \/ (w.pc = "runs" /\ w.todo = {})
    <2>1. work' = [w EXCEPT !.pc = "done"] /\ queue' = queue
      BY Zenon, <1>3 DEF Continue
    <2>2. /\ work' \in Exchanges /\ work'.pc = "done" /\ work'.stops = w.stops
          /\ work'.seen = w.seen /\ work'.scope = w.scope
      BY Zenon, <2>1 DEF Exchanges
    <2>3. QueueOK'
      BY Zenon, <1>2, <2>1, <2>2 DEF QueueOK
    <2> QED BY Zenon, <1>1, <2>1, <2>2, <2>3
  <1>4. CASE ~(w.pc = "done" \/ (w.pc = "runs" /\ w.todo = {}))
    <2>1. /\ work' = w
          /\ queue' = IF guardian = "up" /\ Len(queue) < MaxQueue
                      THEN Append(queue, Request(w)) ELSE queue
      BY Zenon, <1>4 DEF Continue
    <2>2. w.pc \in {"bind", "scope", "runs"} /\ (w.pc = "runs" => w.todo # {})
      BY Zenon, <1>4 DEF Exchanges
    <2>3. CASE queue' = queue
      <3>1. QueueOK'
        BY <1>2, <2>1, <2>3 DEF QueueOK
      <3> QED BY Zenon, <1>1, <2>1, <2>2, <2>3, <3>1
    <2>4. CASE guardian = "up" /\ Len(queue) < MaxQueue /\ queue' = Append(queue, Request(w))
      <3>1. PICK m : m = Request(w)
        BY Zenon
      <3>2. /\ m \in Messages /\ m.awaited
            /\ w.pc = "bind" => m.op = "Bind"
            /\ w.pc = "scope" => m.op \in {"Scope", "Close"}
            /\ w.pc = "runs" => /\ m.run = NextRun(w) /\ m.run \in Runs
                                /\ m.op = IF NextRun(w) \in w.stops THEN "Stop" ELSE "Start"
            /\ w.pc # "runs" => m.op \notin {"Start", "Stop"}
        BY Zenon, <1>1, <2>2, <3>1, RequestIs
      <3>3. /\ queue' \in Seq(Messages) /\ Len(queue') = Len(queue) + 1
            /\ queue'[Len(queue')] = m
            /\ \A i \in 1..Len(queue') : i # Len(queue') => i \in 1..Len(queue) /\ queue'[i] = queue[i]
        <4>1. queue' = Append(queue, m)
          BY Zenon, <2>4, <3>1
        <4>2. /\ queue' \in Seq(Messages) /\ Len(queue') = Len(queue) + 1
              /\ queue'[Len(queue) + 1] = m
              /\ \A i \in 1..Len(queue) : queue'[i] = queue[i]
          BY <1>1, <3>2, <4>1
        <4> QED BY <1>1, <4>2
      <3>4. \A i \in 1..Len(queue') : queue'[i].awaited => i = Len(queue')
        BY Zenon, <3>3
      <3>5. Asked(m)'
        BY Zenon, <2>1, <2>2, <3>2 DEF Asked, Active, NextRun
      <3>6. ASSUME NEW i \in 1..Len(queue')
            PROVE  /\ queue'[i].op \in {"Start", "Stop"} => queue'[i].run \in Runs
                   /\ queue'[i].awaited => Asked(queue[i])'
                   /\ work'.pc = "scope" \/ answer'.kind = "Bound"
                         => queue'[i].awaited \/ queue'[i].overtaken
                   /\ work'.pc = "runs" \/ answer'.kind = "Scope" => queue'[i].awaited
        <4>1. CASE i = Len(queue')
          <5>1. queue'[i] = m
            BY Zenon, <3>3, <4>1
          <5>2. Asked(queue[i])'
            BY Zenon, <3>5, <5>1 DEF Asked
          <5> QED BY Zenon, <3>2, <5>1, <5>2
        <4>2. CASE i # Len(queue')
          <5>1. i \in 1..Len(queue) /\ queue'[i] = queue[i]
            BY Zenon, <3>3, <4>2
          <5> QED BY <1>2, <2>1, <5>1 DEF QueueOK
        <4> QED BY Zenon, <4>1, <4>2
      <3>7. QueueOK'
        BY Zenon, <3>6 DEF QueueOK
      <3>8. Len(queue') <= MaxQueue
        BY <1>1, <2>4, <3>3, HostAssumption
      <3>9. m.op = "Start" => m.run \notin w.stops
        BY Zenon, <3>2
      <3> QED BY Zenon, <2>1, <2>2, <2>4, <3>3, <3>4, <3>7, <3>8, <3>9
    <2> QED BY Zenon, <2>1, <2>3, <2>4
  <1> QED BY Zenon, <1>3, <1>4

\* What the worker makes of an answer (Work::observe).
LEMMA AdvancedIs ==
    ASSUME HostTypeOK, AnswerOK, WorkOK, answer # NoAnswer
    PROVE  LET w == Advanced(work) IN
           /\ w \in Exchanges /\ w.pc # "idle" /\ w.stops = work.stops
           /\ w.pc = "scope" => answer.kind = "Bound"
           /\ w.pc = "runs" => answer.kind = "Scope" \/ work.pc = "runs"
           /\ w.scope = work.scope \/ (answer.kind = "Scope" /\ w.scope = answer.scope)
           /\ \A q \in DOMAIN w.seen :
                 \/ q \in DOMAIN work.seen /\ w.seen[q] = work.seen[q]
                 \/ q = NextRun(work) /\ answer.kind = "Run" /\ w.seen[q] = answer.facts
                 \/ /\ q = NextRun(work) /\ answer.kind = "UnknownRun"
                    /\ q \in work.stops /\ w.seen[q] = Cancelled
  <1>1. work \in Exchanges /\ answer \in Answers /\ work.pc \in {"bind", "scope", "runs"}
    BY Zenon DEF HostTypeOK, AnswerOK, Active
  <1>2. "Rejected" \in Statuses
    BY Zenon DEF Statuses
  <1>3. CASE work.pc = "bind" /\ answer.kind = "Bound"
    <2>1. Advanced(work) = [work EXCEPT !.pc = "scope"]
      BY Zenon, <1>3 DEF Advanced
    <2> QED BY Zenon, <1>1, <1>3, <2>1 DEF Exchanges
  <1>4. CASE \/ work.pc = "bind" /\ answer.kind # "Bound"
             \/ work.pc = "scope" /\ answer.kind # "Scope"
    <2>1. Advanced(work) = [Reject(work) EXCEPT !.pc = "done"]
      BY Zenon, <1>4 DEF Advanced
    <2>2. Reject(work) \in Exchanges /\ Reject(work).stops = work.stops
          /\ Reject(work).seen = work.seen /\ Reject(work).scope = work.scope
      BY Zenon, <1>1, <1>2 DEF Reject, Exchanges
    <2> QED BY Zenon, <2>1, <2>2 DEF Exchanges
  <1>5. CASE work.pc = "scope" /\ answer.kind = "Scope"
    <2>1. Advanced(work) = [work EXCEPT !.pc = "runs", !.scope = answer.scope]
      BY Zenon, <1>5 DEF Advanced
    <2>2. answer.scope \in ScopeStates
      BY Zenon, <1>1, <1>5 DEF Answers
    <2> QED BY Zenon, <1>1, <1>5, <2>1, <2>2 DEF Exchanges
  <1>6. CASE work.pc = "runs"
    <2>1. PICK r : r = NextRun(work)
      BY Zenon
    <2>2. r \in Runs
      BY Zenon, <1>1, <1>6, <2>1, NextRunType DEF WorkOK, Exchanges
    <2> DEFINE rest == [work EXCEPT !.todo = @ \ {r}]
               sees(f) == [rest EXCEPT !.seen =
                             [q \in DOMAIN work.seen \cup {r} |-> IF q = r THEN f ELSE work.seen[q]]]
    <2>3. /\ rest \in Exchanges /\ rest.stops = work.stops /\ rest.seen = work.seen
          /\ rest.scope = work.scope /\ rest.pc = "runs"
      BY Zenon, <1>1, <1>6 DEF Exchanges
    <2>4. work.seen \in [DOMAIN work.seen -> Facts] /\ DOMAIN work.seen \subseteq Runs
      BY Zenon, <1>1, PartialIs DEF Exchanges
    <2> HIDE DEF rest
    <2>5. ASSUME NEW f \in Facts
          PROVE  /\ sees(f) \in Exchanges /\ sees(f).stops = work.stops
                 /\ sees(f).scope = work.scope /\ sees(f).pc = "runs"
                 /\ \A q \in DOMAIN sees(f).seen :
                       \/ q \in DOMAIN work.seen /\ sees(f).seen[q] = work.seen[q]
                       \/ q = r /\ sees(f).seen[q] = f
      <3> DEFINE seen == [q \in DOMAIN work.seen \cup {r} |-> IF q = r THEN f ELSE work.seen[q]]
      <3>1. seen \in [DOMAIN work.seen \cup {r} -> Facts] /\ DOMAIN seen = DOMAIN work.seen \cup {r}
        BY Zenon, <2>4
      <3>2. seen \in Partial(Runs, Facts)
        BY Zenon, <2>2, <2>4, <3>1, PartialIs
      <3>3. \A q \in DOMAIN seen :
               \/ q \in DOMAIN work.seen /\ seen[q] = work.seen[q]
               \/ q = r /\ seen[q] = f
        BY Zenon
      <3> HIDE DEF seen
      <3>4. [rest EXCEPT !.seen = seen] \in Exchanges
        BY Zenon, <2>3, <3>2 DEF Exchanges
      <3>5. /\ [rest EXCEPT !.seen = seen].stops = work.stops
            /\ [rest EXCEPT !.seen = seen].scope = work.scope
            /\ [rest EXCEPT !.seen = seen].pc = "runs"
            /\ [rest EXCEPT !.seen = seen].seen = seen
        BY Zenon, <2>3 DEF Exchanges
      <3> QED BY Zenon, <3>3, <3>4, <3>5 DEF seen
    <2> HIDE DEF sees
    <2>6. CASE answer.kind = "Run"
      <3>1. Advanced(work) = sees(answer.facts)
        BY Zenon, <1>6, <2>1, <2>6 DEF Advanced, sees, rest
      <3>2. answer.facts \in Facts
        BY Zenon, <1>1, <2>6 DEF Answers
      <3> QED BY Zenon, <1>6, <2>1, <2>5, <2>6, <3>1, <3>2
    <2>7. CASE answer.kind = "UnknownRun" /\ r \in work.stops
      <3>1. Advanced(work) = sees(Cancelled)
        BY Zenon, <1>6, <2>1, <2>7 DEF Advanced, sees, rest
      <3> QED BY Zenon, <1>6, <2>1, <2>5, <2>7, <3>1, HostAssumption
    <2>8. CASE ~(answer.kind = "Run") /\ ~(answer.kind = "UnknownRun" /\ r \in work.stops)
      <3>1. Advanced(work) = Reject(rest)
        BY Zenon, <1>6, <2>1, <2>8 DEF Advanced, rest
      <3>2. /\ Reject(rest) \in Exchanges /\ Reject(rest).stops = work.stops
            /\ Reject(rest).seen = work.seen /\ Reject(rest).scope = work.scope
            /\ Reject(rest).pc = "runs"
        BY Zenon, <1>2, <2>3 DEF Reject, Exchanges
      <3> QED BY Zenon, <1>6, <3>1, <3>2
    <2> QED BY Zenon, <2>6, <2>7, <2>8
  <1> QED BY Zenon, <1>1, <1>3, <1>4, <1>5, <1>6

\* Reading an answer keeps the invariant.
LEMMA ReadsKeeps ==
    ASSUME HostInv, WorkerReads
    PROVE  HostInv'
  <1>1. /\ work.pc \in {"bind", "scope", "runs"} /\ answer # NoAnswer /\ answer' = NoAnswer
        /\ journal' = journal /\ up' = up /\ progress' = progress /\ guardian' = guardian
        /\ ledger' = ledger /\ launches' = launches /\ faults' = faults
    BY Zenon DEF WorkerReads
  <1>2. PICK w : w = Advanced(work)
    BY Zenon
  <1>3. /\ w \in Exchanges /\ w.pc # "idle" /\ w.stops = work.stops
        /\ w.pc = "scope" => answer.kind = "Bound"
        /\ w.pc = "runs" => answer.kind = "Scope" \/ work.pc = "runs"
        /\ w.scope = work.scope \/ (answer.kind = "Scope" /\ w.scope = answer.scope)
        /\ \A q \in DOMAIN w.seen :
              \/ q \in DOMAIN work.seen /\ w.seen[q] = work.seen[q]
              \/ q = NextRun(work) /\ answer.kind = "Run" /\ w.seen[q] = answer.facts
              \/ /\ q = NextRun(work) /\ answer.kind = "UnknownRun"
                 /\ q \in work.stops /\ w.seen[q] = Cancelled
    BY Zenon, <1>1, <1>2, AdvancedIs DEF HostInv
  <1>4. \A i \in 1..Len(queue) : ~queue[i].awaited
    BY Zenon, <1>1 DEF HostInv, QueueOK, Asked
  <1>5. /\ w.pc = "scope" => \A i \in 1..Len(queue) : queue[i].overtaken
        /\ w.pc = "runs" \/ work.pc = "runs" => Len(queue) = 0
    <2>1. w.pc = "scope" => \A i \in 1..Len(queue) : queue[i].overtaken
      BY Zenon, <1>3, <1>4 DEF HostInv, QueueOK
    <2>2. w.pc = "runs" \/ work.pc = "runs" => \A i \in 1..Len(queue) : FALSE
      BY Zenon, <1>3, <1>4 DEF HostInv, QueueOK
    <2>3. Len(queue) \in Nat
      BY DEF HostInv, HostTypeOK
    <2> QED BY <2>1, <2>2, <2>3
  <1>6. Continue(w)
    BY Zenon, <1>2 DEF WorkerReads
  <1>7. /\ work' \in Exchanges /\ work'.pc \in {w.pc, "done"}
        /\ work'.stops = w.stops /\ work'.seen = w.seen /\ work'.scope = w.scope
        /\ work'.pc = "runs" => work'.todo # {}
        /\ queue' \in Seq(Messages) /\ Len(queue') <= MaxQueue
        /\ \A i \in 1..Len(queue') : queue'[i].awaited => i = Len(queue')
        /\ QueueOK'
        /\ guardian # "up" => queue' = queue
        /\ \A i \in 1..Len(queue') :
              queue'[i].op = "Start" =>
                 \/ i \in 1..Len(queue) /\ queue'[i] = queue[i]
                 \/ work'.pc \in {"bind", "scope", "runs"} /\ queue'[i].run \notin w.stops
    BY Zenon, <1>1, <1>3, <1>4, <1>5, <1>6, ContinueKeeps DEF HostInv
  <1>8. HostTypeOK'
    BY Zenon, <1>1, <1>7 DEF HostInv, HostTypeOK, Answers, NoAnswer
  <1>9. LaunchOK'
    BY Zenon, <1>1, <1>7 DEF HostInv, LaunchOK, GuardianLaunchedOnce
  <1>10. AnswerOK'
    BY Zenon, <1>1 DEF AnswerOK, NoAnswer
  <1>11. WorkOK' /\ LedgerOK(ledger)'
    BY Zenon, <1>1, <1>3, <1>7 DEF HostInv, WorkOK, StopSet, LedgerOK
  <1>12. ASSUME NEW r, r \in StopSet(journal), r \in work.stops,
                \A i \in 1..Len(queue) : queue[i].op = "Start" => queue[i].run # r
         PROVE  Barred(r)'
    <2>1. \A i \in 1..Len(queue') : queue'[i].op = "Start" => queue'[i].run # r
      BY Zenon, <1>3, <1>7, <1>12
    <2> QED BY Zenon, <1>1, <1>3, <1>7, <1>12, <2>1 DEF Barred, StopSet
  <1>13. ASSUME NEW r, NEW f, SeenOK(r, f)
         PROVE  SeenOK(r, f)'
    <2>1. Barred(r) => Barred(r)'
      BY Zenon, <1>1, <1>12 DEF Barred, Active
    <2> QED BY Zenon, <1>1, <1>13, <2>1 DEF SeenOK
  <1>14. SeenInv'
    <2>1. ASSUME NEW r \in DOMAIN journal.seen PROVE SeenOK(r, journal.seen[r])'
      <3>1. PICK f : f = journal.seen[r] /\ f = journal'.seen[r]
        BY Zenon, <1>1
      <3>2. SeenOK(r, f)'
        BY Zenon, <1>13, <3>1 DEF HostInv, SeenInv
      <3> QED BY Zenon, <3>1, <3>2 DEF SeenOK
    <2>2. ASSUME NEW r \in DOMAIN w.seen
          PROVE  SeenOK(r, work.seen[r])' /\ NotOlder(r, work.seen[r])'
      <3>1. PICK f : f = w.seen[r] /\ f = work'.seen[r]
        BY Zenon, <1>7
      <3>2. CASE r \in DOMAIN work.seen /\ f = work.seen[r]
        <4>1. SeenOK(r, f)' /\ NotOlder(r, f)
          BY Zenon, <1>13, <3>2 DEF HostInv, SeenInv
        <4> QED BY Zenon, <1>1, <3>1, <4>1 DEF SeenOK, NotOlder
      <3>3. CASE r = NextRun(work) /\ answer.kind = "Run" /\ f = answer.facts
        <4>1. r \in DOMAIN ledger.facts /\ FactsAdvance(f, ledger.facts[r]) /\ NotOlder(r, f)
          BY Zenon, <3>3 DEF HostInv, AnswerOK
        <4> QED BY Zenon, <1>1, <3>1, <4>1 DEF SeenOK, Agrees, NotOlder
      <3>4. CASE r = NextRun(work) /\ answer.kind = "UnknownRun" /\ r \in work.stops /\ f = Cancelled
        <4>1. r \notin DOMAIN ledger.facts /\ work.pc = "runs" /\ r \in StopSet(journal)
          BY Zenon, <3>4 DEF HostInv, AnswerOK, WorkOK
        <4>2. Barred(r)'
          BY <1>5, <1>12, <3>4, <4>1
        <4>3. NotOlder(r, f)
          BY Zenon, <3>4, <4>1, FactsStay DEF HostInv, SeenInv, SeenOK, Agrees, NotOlder
        <4>4. SeenOK(r, f)'
          BY Zenon, <1>1, <3>4, <4>1, <4>2 DEF SeenOK, Agrees
        <4>5. NotOlder(r, f)'
          BY Zenon, <1>1, <4>3 DEF NotOlder
        <4> QED BY Zenon, <3>1, <4>4, <4>5 DEF SeenOK, NotOlder
      <3> QED BY Zenon, <1>3, <3>1, <3>2, <3>3, <3>4
    <2> QED BY Zenon, <1>1, <1>7, <2>1, <2>2 DEF SeenInv
  <1>15. ScopeOK'
    BY Zenon, <1>1, <1>3, <1>7 DEF HostInv, ScopeOK, Confirmed, NoAnswer
  <1>16. SettledOK'
    BY Zenon, <1>1 DEF HostInv, SettledOK
  <1> QED BY Zenon, <1>7, <1>8, <1>9, <1>10, <1>11, <1>14, <1>15, <1>16 DEF HostInv

-----------------------------------------------------------------------------
(* The coordinator commits a finished exchange and prepares the next one.   *)

\* observe_run commits facts the guardian agrees with, and never older ones.
LEMMA ObservedKeeps ==
    ASSUME HostTypeOK, SeenInv, NEW seen \in Partial(Runs, Facts),
           \A r \in DOMAIN seen : r \in DOMAIN work.seen /\ seen[r] = work.seen[r]
    PROVE  LET j == ObservedRuns(journal, seen) IN
           /\ j \in Journals /\ j.epoch = journal.epoch /\ j.creator = journal.creator
           /\ j.runs = journal.runs /\ j.stops = journal.stops /\ j.close = journal.close
           /\ j.launched = journal.launched /\ j.scope = journal.scope
           /\ \A r \in DOMAIN j.seen : SeenOK(r, j.seen[r])
  <1> DEFINE merged(r) == IF r \in DOMAIN journal.seen /\ ConfirmedLaunch(journal.seen[r])
                          THEN [seen[r] EXCEPT !.launch = "Started"] ELSE seen[r]
             news == {r \in DOMAIN seen : ~Contradictory(journal, r, seen[r])}
             after == [r \in DOMAIN journal.seen \cup news |->
                          IF r \in news THEN merged(r) ELSE journal.seen[r]]
  <1>1. /\ journal \in Journals /\ DOMAIN journal.seen \subseteq Runs
        /\ \A r \in DOMAIN journal.seen : journal.seen[r] \in Facts
        /\ DOMAIN seen \subseteq Runs /\ \A r \in DOMAIN seen : seen[r] \in Facts
    BY PartialIs DEF HostTypeOK, Journals
  <1>2. ASSUME NEW r \in DOMAIN seen
        PROVE  merged(r) = seen[r]
    <2>1. CASE r \in DOMAIN journal.seen /\ ConfirmedLaunch(journal.seen[r])
      <3>1. journal.seen[r].launch = "Started"
        BY Zenon, <1>1, <2>1, HostAssumption DEF ConfirmedLaunch
      <3>2. FactsAdvance(journal.seen[r], seen[r])
        BY Zenon, <2>1 DEF SeenInv, NotOlder
      <3>3. seen[r].launch = "Started"
        BY Zenon, <3>1, <3>2 DEF FactsAdvance
      <3>4. seen[r] \in [launch : Launches, direct : Directs, cleanup : Cleanups]
        BY Zenon, <1>1, LedgerAssumption
      <3>5. [seen[r] EXCEPT !.launch = "Started"] = seen[r]
        BY Zenon, <3>3, <3>4
      <3> QED BY Zenon, <2>1, <3>5
    <2> QED BY Zenon, <2>1
  <1>3. news \subseteq DOMAIN seen
    BY Zenon
  <1> HIDE DEF merged, news
  <1>4. /\ DOMAIN after = DOMAIN journal.seen \cup news
        /\ \A r \in DOMAIN after : \/ r \in DOMAIN seen /\ after[r] = seen[r]
                                   \/ r \in DOMAIN journal.seen /\ after[r] = journal.seen[r]
    BY Zenon, <1>2, <1>3
  <1>5. after \in Partial(Runs, Facts)
    <2>1. DOMAIN after \subseteq Runs /\ \A r \in DOMAIN after : after[r] \in Facts
      BY Zenon, <1>1, <1>3, <1>4
    <2>2. after \in [DOMAIN after -> Facts]
      BY Zenon, <2>1
    <2> QED BY Zenon, <2>1, <2>2, PartialIs
  <1>6. \A r \in DOMAIN after : SeenOK(r, after[r])
    BY Zenon, <1>4 DEF SeenInv
  <1>7. ObservedRuns(journal, seen) = [journal EXCEPT !.seen = after]
    BY Zenon DEF ObservedRuns, merged, news
  <1> HIDE DEF after
  <1>8. [journal EXCEPT !.seen = after] \in Journals
    BY Zenon, <1>1, <1>5 DEF Journals
  <1>9. LET j == [journal EXCEPT !.seen = after] IN
        /\ j.epoch = journal.epoch /\ j.creator = journal.creator
        /\ j.runs = journal.runs /\ j.stops = journal.stops /\ j.close = journal.close
        /\ j.launched = journal.launched /\ j.scope = journal.scope /\ j.seen = after
    BY Zenon, <1>1 DEF Journals
  <1> QED BY Zenon, <1>6, <1>7, <1>8, <1>9

\* The first half of tick.
LEMMA DrainedKeeps ==
    ASSUME HostInv
    PROVE  LET j == DrainedJournal
               p == DrainedProgress IN
           /\ j \in Journals /\ j.epoch = journal.epoch /\ j.creator = journal.creator
           /\ j.runs = journal.runs /\ j.stops = journal.stops /\ j.close = journal.close
           /\ j.launched = journal.launched /\ Confirmed(j.scope)
           /\ \A r \in DOMAIN j.seen : SeenOK(r, j.seen[r])
           /\ p \in Progresses /\ p.settled = progress.settled
           /\ work.pc # "done" => j = journal
  <1>1. /\ journal \in Journals /\ work \in Exchanges /\ progress \in Progresses
        /\ SeenInv /\ Confirmed(journal.scope) /\ Confirmed(work.scope)
    BY Zenon DEF HostInv, HostTypeOK, ScopeOK
  <1>2. CASE work.pc # "done"
    BY Zenon, <1>1, <1>2 DEF DrainedJournal, DrainedProgress, SeenInv
  <1>3. CASE work.pc = "done"
    <2>1. PICK j : j = ObservedRuns(journal, work.seen)
      BY Zenon
    <2>2. work.seen \in Partial(Runs, Facts)
      BY Zenon, <1>1 DEF Exchanges
    <2>3. /\ j \in Journals /\ j.epoch = journal.epoch /\ j.creator = journal.creator
          /\ j.runs = journal.runs /\ j.stops = journal.stops /\ j.close = journal.close
          /\ j.launched = journal.launched /\ j.scope = journal.scope
          /\ \A r \in DOMAIN j.seen : SeenOK(r, j.seen[r])
      BY Zenon, <2>1, <2>2, ObservedKeeps DEF HostInv
    <2>4. DrainedJournal = IF work.scope = "None" THEN j ELSE [j EXCEPT !.scope = work.scope]
      BY Zenon, <1>3, <2>1 DEF DrainedJournal
    <2>5. work.scope \in ScopeStates \cup {"None"}
      BY Zenon, <1>1 DEF Exchanges
    <2>6. LET k == [j EXCEPT !.scope = work.scope] IN
          /\ k \in Journals /\ k.epoch = j.epoch /\ k.creator = j.creator /\ k.runs = j.runs
          /\ k.stops = j.stops /\ k.close = j.close /\ k.launched = j.launched
          /\ k.scope = work.scope /\ k.seen = j.seen
      BY Zenon, <2>3, <2>5 DEF Journals
    <2>7. DrainedProgress \in Progresses /\ DrainedProgress.settled = progress.settled
      <3>1. PICK s : s = IF \E r \in DOMAIN work.seen : Contradictory(journal, r, work.seen[r])
                         THEN "Rejected" ELSE work.status
        BY Zenon
      <3>2. s \in Statuses
        BY Zenon, <1>1, <3>1 DEF Exchanges, Statuses
      <3>3. DrainedProgress = [progress EXCEPT !.known = TRUE, !.status = s,
                                               !.due = progress.pending, !.pending = FALSE]
        BY Zenon, <1>3, <3>1 DEF DrainedProgress
      <3> QED BY <1>1, <3>2, <3>3, Zenon DEF Progresses
    <2> QED BY Zenon, <1>1, <1>3, <2>3, <2>4, <2>6, <2>7
  <1> QED BY Zenon, <1>2, <1>3

\* An exchange that has not begun.
LEMMA IdleIs ==
    /\ Idle \in Exchanges /\ Idle.pc = "idle" /\ Idle.stops = {} /\ Idle.scope = "None"
    /\ DOMAIN Idle.seen = {}
  <1>1. [r \in {} |-> Accepted] \in Partial(Runs, Facts)
    <2>1. [r \in {} |-> Accepted] \in [{} -> Facts] /\ DOMAIN [r \in {} |-> Accepted] = {}
      BY Zenon
    <2> QED BY Zenon, <2>1, PartialIs
  <1>2. "Observing" \in Statuses
    BY Zenon DEF Statuses
  <1> QED BY Zenon, <1>1, <1>2 DEF Idle, Exchanges

\* worker::prepare: the exchange stops what the journal stops, and cancels only when
\* no guardian was ever launched.
LEMMA PreparedIs ==
    ASSUME NEW j \in Journals
    PROVE  LET w == Prepared(j) IN
           /\ w \in Exchanges /\ w.pc \in {"bind", "done"} /\ w.stops = StopSet(j)
           /\ \/ DOMAIN w.seen = {} /\ w.scope = "None"
              \/ /\ j.close /\ ~j.launched /\ w.pc = "done"
                 /\ DOMAIN w.seen = j.runs /\ \A r \in j.runs : w.seen[r] = Cancelled
  <1> DEFINE base == [Idle EXCEPT !.close = j.close, !.access = j.launched,
                                  !.stops = IF j.close THEN j.runs ELSE j.stops,
                                  !.todo = j.runs]
             none == [r \in j.runs |-> Cancelled]
  <1>1. j.close \in BOOLEAN /\ j.launched \in BOOLEAN /\ j.runs \subseteq Runs /\ j.stops \subseteq Runs
    BY Zenon DEF Journals
  <1>2. base \in Exchanges /\ base.stops = StopSet(j) /\ base.scope = "None" /\ base.seen = Idle.seen
    BY Zenon, <1>1, IdleIs DEF StopSet, Exchanges
  <1>3. none \in Partial(Runs, Facts) /\ DOMAIN none = j.runs /\ \A r \in j.runs : none[r] = Cancelled
    <2>1. none \in [j.runs -> Facts] /\ DOMAIN none = j.runs
      BY Zenon, HostAssumption
    <2> QED BY Zenon, <1>1, <2>1, PartialIs
  <1>4. "BestEffortComplete" \in ScopeStates /\ "Unavailable" \in Statuses
    BY Zenon DEF ScopeStates, Evidences, Statuses
  <1> HIDE DEF base, none
  <1>5. CASE j.launched
    <2>1. Prepared(j) = [base EXCEPT !.pc = "bind"]
      BY Zenon, <1>5 DEF Prepared, base
    <2>2. Prepared(j) \in Exchanges
      BY Zenon, <1>2, <2>1 DEF Exchanges
    <2>3. /\ Prepared(j).pc = "bind" /\ Prepared(j).stops = StopSet(j)
          /\ Prepared(j).seen = Idle.seen /\ Prepared(j).scope = "None"
      BY Zenon, <1>2, <2>1 DEF Exchanges
    <2> QED BY Zenon, <2>2, <2>3, IdleIs
  <1>6. CASE ~j.launched /\ j.close
    <2>1. Prepared(j) = [base EXCEPT !.pc = "done", !.scope = "BestEffortComplete", !.seen = none]
      BY Zenon, <1>6 DEF Prepared, base, none
    <2>2. Prepared(j) \in Exchanges
      BY <1>2, <1>3, <1>4, <2>1, Zenon DEF Exchanges
    <2>3. /\ Prepared(j).pc = "done" /\ Prepared(j).stops = StopSet(j)
          /\ Prepared(j).seen = none
      BY Zenon, <1>2, <2>1 DEF Exchanges
    <2> QED BY Zenon, <1>3, <1>6, <2>2, <2>3
  <1>7. CASE ~j.launched /\ ~j.close
    <2>1. Prepared(j) = [base EXCEPT !.pc = "done", !.status = "Unavailable"]
      BY Zenon, <1>7 DEF Prepared, base
    <2>2. Prepared(j) \in Exchanges
      BY Zenon, <1>2, <1>4, <2>1 DEF Exchanges
    <2>3. /\ Prepared(j).pc = "done" /\ Prepared(j).stops = StopSet(j)
          /\ Prepared(j).seen = Idle.seen /\ Prepared(j).scope = "None"
      BY Zenon, <1>2, <2>1 DEF Exchanges
    <2> QED BY Zenon, <2>2, <2>3, IdleIs
  <1> QED BY Zenon, <1>5, <1>6, <1>7

\* A coordinator that starts no exchange leaves an idle worker behind.
LEMMA RestsKeeps ==
    ASSUME HostInv, work.pc \in {"idle", "done"}, journal' = DrainedJournal,
           progress' \in Progresses, work' = Idle,
           progress'.settled =>
              \/ progress.settled
              \/ ScopeSettled(DrainedJournal),
           UNCHANGED <<up, guardian, ledger, queue, answer, launches, faults>>
    PROVE  HostInv'
  <1>1. PICK j : j = DrainedJournal
    BY Zenon
  <1>2. /\ j \in Journals /\ j.epoch = journal.epoch /\ j.creator = journal.creator
        /\ j.runs = journal.runs /\ j.stops = journal.stops /\ j.close = journal.close
        /\ j.launched = journal.launched /\ Confirmed(j.scope)
        /\ \A r \in DOMAIN j.seen : SeenOK(r, j.seen[r])
        /\ work.pc # "done" => j = journal
    BY Zenon, <1>1, DrainedKeeps
  <1>3. journal' = j
    BY Zenon, <1>1
  <1>4. answer = NoAnswer /\ \A i \in 1..Len(queue) : ~queue[i].awaited
    BY Zenon DEF HostInv, AnswerOK, QueueOK, Asked, Active
  <1>5. HostTypeOK'
    BY Zenon, <1>2, <1>3, IdleIs DEF HostInv, HostTypeOK
  <1>6. LaunchOK' /\ LedgerOK(ledger)'
    BY Zenon, <1>2, <1>3 DEF HostInv, LaunchOK, GuardianLaunchedOnce, LedgerOK
  <1>7. QueueOK'
    BY Zenon, <1>4, IdleIs DEF HostInv, QueueOK, NoAnswer
  <1>8. AnswerOK'
    BY Zenon, <1>4 DEF AnswerOK, NoAnswer
  <1>9. WorkOK'
    BY Zenon, <1>2, <1>3, IdleIs DEF HostInv, WorkOK
  <1>10. SeenInv'
    <2>1. ASSUME NEW r \in DOMAIN j.seen PROVE SeenOK(r, journal.seen[r])'
      <3>1. Barred(r) => Barred(r)'
        BY Zenon, <1>2, <1>3, IdleIs DEF Barred, Active, StopSet
      <3> QED BY Zenon, <1>2, <1>3, <3>1 DEF SeenOK
    <2> QED BY Zenon, <1>3, <2>1, IdleIs DEF SeenInv
  <1>11. ScopeOK'
    <2>1. Idle.scope \notin Evidences
      BY Zenon, IdleIs DEF Evidences
    <2> QED BY Zenon, <1>2, <1>3, <1>4, <2>1 DEF ScopeOK, Confirmed, NoAnswer
  <1>12. SettledOK'
    <2>1. CASE progress.settled
      BY Zenon, <1>2, <1>3, <2>1, IdleIs DEF HostInv, SettledOK
    <2>2. CASE ScopeSettled(j)
      BY Zenon, <1>2, <1>3, <2>2, IdleIs DEF SettledOK, ScopeSettled
    <2> QED BY Zenon, <1>1, <2>1, <2>2 DEF SettledOK
  <1> QED BY Zenon, <1>5, <1>6, <1>7, <1>8, <1>9, <1>10, <1>11, <1>12 DEF HostInv

\* The next exchange, and the one launch of a guardian, keep the invariant.
LEMMA PrepareKeeps ==
    ASSUME HostInv, work.pc \in {"idle", "done"},
           DrainedJournal.creator # 0, ~DrainedProgress.settled,
           Prepare(DrainedJournal, DrainedProgress), UNCHANGED <<up, ledger, answer>>
    PROVE  HostInv'
  <1>1. PICK j, p : j = DrainedJournal /\ p = DrainedProgress
    BY Zenon
  <1>2. /\ j \in Journals /\ j.epoch = journal.epoch /\ j.creator = journal.creator
        /\ j.runs = journal.runs /\ j.stops = journal.stops /\ j.close = journal.close
        /\ j.launched = journal.launched /\ Confirmed(j.scope)
        /\ \A r \in DOMAIN j.seen : SeenOK(r, j.seen[r])
        /\ p \in Progresses /\ j.creator # 0 /\ ~p.settled
    BY Zenon, <1>1, DrainedKeeps
  <1>3. PICK outcome \in {"none", "refused", "consumed", "spawned"} :
           LET after == [j EXCEPT !.launched = @ \/ outcome \in {"consumed", "spawned"}] IN
           /\ Launch(j, outcome)
           /\ journal' = after
           /\ progress' = [p EXCEPT !.pending = FALSE]
           /\ guardian' = IF outcome = "spawned" THEN "starting" ELSE guardian
           /\ launches' = launches + (IF outcome = "spawned" THEN 1 ELSE 0)
           /\ faults' = faults + (IF outcome = "refused" THEN 1 ELSE 0)
           /\ Continue(Prepared(after))
    BY Zenon, <1>1 DEF Prepare
  <1>4. /\ journal' \in Journals /\ journal'.creator = journal.creator
        /\ journal'.runs = journal.runs /\ journal'.stops = journal.stops
        /\ journal'.close = journal.close /\ journal'.scope = j.scope /\ journal'.seen = j.seen
        /\ journal'.launched = (j.launched \/ outcome \in {"consumed", "spawned"})
    BY Zenon, <1>2, <1>3 DEF Journals
  <1>22. journal'.launched = (journal.launched \/ outcome \in {"consumed", "spawned"})
    BY Zenon, <1>2, <1>4
  <1>5. /\ outcome = "none" \/ (~journal.close /\ ~journal.launched)
        /\ outcome = "refused" => faults < MaxFaults
    BY Zenon, <1>2, <1>3 DEF Launch
  <1>6. PICK w : w = Prepared(journal') /\ Continue(w)
    BY Zenon, <1>3
  <1>7. /\ w \in Exchanges /\ w.pc \in {"bind", "done"} /\ w.stops = StopSet(journal')
        /\ \/ DOMAIN w.seen = {} /\ w.scope = "None"
           \/ /\ journal'.close /\ ~journal'.launched /\ w.pc = "done"
              /\ DOMAIN w.seen = journal'.runs /\ \A r \in journal'.runs : w.seen[r] = Cancelled
    BY Zenon, <1>4, <1>6, PreparedIs
  <1>8. answer = NoAnswer /\ answer' = NoAnswer /\ \A i \in 1..Len(queue) : ~queue[i].awaited
    BY Zenon DEF HostInv, AnswerOK, QueueOK, Asked, Active
  <1>9. /\ work' \in Exchanges /\ work'.pc \in {w.pc, "done"}
        /\ work'.stops = w.stops /\ work'.seen = w.seen /\ work'.scope = w.scope
        /\ work'.pc = "runs" => work'.todo # {}
        /\ queue' \in Seq(Messages) /\ Len(queue') <= MaxQueue
        /\ \A i \in 1..Len(queue') : queue'[i].awaited => i = Len(queue')
        /\ QueueOK'
        /\ guardian # "up" => queue' = queue
        /\ \A i \in 1..Len(queue') :
              queue'[i].op = "Start" =>
                 \/ i \in 1..Len(queue) /\ queue'[i] = queue[i]
                 \/ work'.pc \in {"bind", "scope", "runs"} /\ queue'[i].run \notin w.stops
    BY Zenon, <1>6, <1>7, <1>8, ContinueKeeps DEF HostInv
  <1>10. progress' \in Progresses /\ ~progress'.settled
    <2>1. progress' = [p EXCEPT !.pending = FALSE]
      BY Zenon, <1>3
    <2> QED BY <1>2, <2>1, Zenon DEF Progresses
  <1>11. faults \in 0..MaxFaults /\ launches \in Nat /\ launches <= 1
         /\ (launches = 1 => journal.launched) /\ (guardian = "absent" <=> launches = 0)
    BY Zenon DEF HostInv, HostTypeOK, LaunchOK, GuardianLaunchedOnce
  <1>12. faults' \in 0..MaxFaults
    BY <1>3, <1>5, <1>11, HostAssumption
  <1>13. LaunchOK' /\ launches' \in Nat /\ guardian' \in {"absent", "starting", "up", "gone"}
    <2>1. CASE outcome = "spawned"
      <3>1. launches = 0 /\ guardian = "absent"
        BY <1>5, <1>11, <2>1
      <3>2. /\ ledger'.facts = [r \in {} |-> Accepted] /\ ledger'.scope = "Open"
            /\ queue' = <<>>
        BY Zenon, <1>9, <3>1 DEF HostInv, LaunchOK
      <3>3. launches' = 1 /\ guardian' = "starting" /\ journal'.launched
        <4>1. launches' = launches + 1 /\ guardian' = "starting"
          BY Zenon, <1>3, <2>1
        <4>2. launches' = 1
          BY <3>1, <4>1
        <4>3. journal'.launched
          BY <1>22, <2>1, Zenon
        <4> QED BY Zenon, <4>1, <4>2, <4>3
      <3>4. GuardianLaunchedOnce' /\ (guardian' = "absent" <=> launches' = 0)
        BY <3>3 DEF GuardianLaunchedOnce
      <3>5. journal'.creator # 0
        BY Zenon, <1>2, <1>4
      <3> QED BY Zenon, <3>2, <3>3, <3>4, <3>5 DEF LaunchOK
    <2>2. CASE outcome # "spawned"
      <3>1. launches' = launches /\ guardian' = guardian
        BY <1>3, <1>11, <2>2
      <3>2. guardian' # "up" => queue' = <<>>
        BY Zenon, <1>9, <3>1 DEF HostInv, LaunchOK
      <3>3. journal.launched => journal'.launched
        BY <1>22, Zenon
      <3>4. GuardianLaunchedOnce' /\ (guardian' = "absent" <=> launches' = 0)
        BY Zenon, <1>11, <3>1, <3>3 DEF GuardianLaunchedOnce
      <3>5. journal'.creator # 0
        BY Zenon, <1>2, <1>4
      <3>6. guardian' \in {"absent", "starting"} =>
               ledger'.facts = [r \in {} |-> Accepted] /\ ledger'.scope = "Open"
        BY Zenon, <3>1 DEF HostInv, LaunchOK
      <3>7. guardian' \in {"absent", "starting", "up", "gone"}
        BY Zenon, <3>1 DEF HostInv, HostTypeOK
      <3> QED BY Zenon, <1>11, <3>1, <3>2, <3>4, <3>5, <3>6, <3>7 DEF LaunchOK
    <2> QED BY Zenon, <2>1, <2>2
  <1>14. HostTypeOK'
    BY Zenon, <1>4, <1>9, <1>10, <1>12, <1>13 DEF HostInv, HostTypeOK
  <1>15. AnswerOK' /\ LedgerOK(ledger)' /\ SettledOK'
    BY Zenon, <1>8, <1>10 DEF HostInv, AnswerOK, NoAnswer, LedgerOK, SettledOK
  <1>16. WorkOK'
    BY Zenon, <1>4, <1>7, <1>9 DEF HostInv, WorkOK
  <1>17. ASSUME NEW r, Barred(r)
         PROVE  Barred(r)'
    <2>1. r \in StopSet(journal)' /\ r \in work'.stops
      BY Zenon, <1>4, <1>7, <1>9, <1>17 DEF Barred, StopSet
    <2>2. \A i \in 1..Len(queue') : queue'[i].op = "Start" => queue'[i].run # r
      BY Zenon, <1>9, <1>17, <2>1 DEF Barred
    <2> QED BY Zenon, <2>1, <2>2 DEF Barred
  <1>18. ASSUME NEW r \in DOMAIN j.seen PROVE SeenOK(r, journal.seen[r])'
    BY Zenon, <1>2, <1>4, <1>17 DEF SeenOK
  <1>19. ASSUME NEW r \in DOMAIN w.seen
         PROVE  SeenOK(r, work.seen[r])' /\ NotOlder(r, work.seen[r])'
    <2>1. /\ journal'.close /\ ~journal'.launched /\ w.pc = "done" /\ r \in journal'.runs
          /\ w.seen[r] = Cancelled
      BY Zenon, <1>7
    <2>2. guardian' = "absent" /\ guardian = "absent"
      <3>1. outcome # "spawned" /\ ~journal.launched
        BY <1>22, <2>1, Zenon
      <3>2. launches = 0
        BY <1>11, <3>1
      <3>3. guardian' = guardian
        BY Zenon, <1>3, <3>1
      <3> QED BY Zenon, <1>11, <3>2, <3>3
    <2>3. DOMAIN ledger.facts = {} /\ ledger'.facts = ledger.facts /\ Len(queue') = 0
      BY Zenon, <1>13, <2>2 DEF HostInv, LaunchOK
    <2>4. Barred(r)'
      <3>1. ~Active'
        BY Zenon, <1>9, <2>1 DEF Active
      <3>2. r \in StopSet(journal)'
        BY <2>1, Zenon DEF StopSet
      <3>3. \A i \in 1..Len(queue') : FALSE
        BY <2>3
      <3> QED BY Zenon, <3>1, <3>2, <3>3 DEF Barred
    <2>5. work'.seen[r] = Cancelled
      BY Zenon, <1>9, <2>1
    <2>6. r \in DOMAIN journal'.seen => journal'.seen[r] = Cancelled
      BY Zenon, <1>4, <1>18, <2>3 DEF SeenOK, Agrees
    <2> QED BY Zenon, <2>3, <2>4, <2>5, <2>6, FactsStay DEF SeenOK, Agrees, NotOlder
  <1>20. SeenInv'
    BY Zenon, <1>4, <1>9, <1>18, <1>19 DEF SeenInv
  <1>21. ScopeOK'
    <2>1. journal.close /\ ~journal.launched => journal'.close /\ ~journal'.launched
      <3>1. journal.close => outcome = "none"
        BY <1>5, Zenon
      <3> QED BY <1>4, <1>22, <3>1, Zenon
    <2>2. Confirmed(journal.scope)'
      BY Zenon, <1>2, <1>4, <2>1 DEF Confirmed
    <2>3. Confirmed(work.scope)'
      BY Zenon, <1>7, <1>9 DEF Confirmed, Evidences
    <2>4. answer'.kind # "Scope"
      BY <1>8 DEF NoAnswer
    <2> QED BY Zenon, <2>2, <2>3, <2>4 DEF ScopeOK
  <1> QED BY Zenon, <1>9, <1>13, <1>14, <1>15, <1>16, <1>20, <1>21 DEF HostInv

\* tick keeps the invariant.
LEMMA TickKeeps ==
    ASSUME HostInv, Tick
    PROVE  HostInv'
  <1>1. work.pc \in {"idle", "done"} /\ UNCHANGED <<up, ledger, answer>>
    BY Zenon DEF Tick
  <1>2. DrainedProgress \in Progresses /\ DrainedProgress.settled = progress.settled
    BY Zenon, DrainedKeeps
  <1>3. CASE /\ DrainedJournal.creator = 0 \/ DrainedProgress.settled \/ ~DrainedProgress.due
             /\ journal' = DrainedJournal /\ progress' = DrainedProgress /\ work' = Idle
             /\ UNCHANGED <<guardian, queue, launches, faults>>
    BY Zenon, <1>1, <1>2, <1>3, RestsKeeps
  <1>4. CASE /\ ScopeSettled(DrainedJournal)
             /\ journal' = DrainedJournal
             /\ progress' = [DrainedProgress EXCEPT !.settled = TRUE] /\ work' = Idle
             /\ UNCHANGED <<guardian, queue, launches, faults>>
    <2>1. progress' \in Progresses
      BY <1>2, <1>4, Zenon DEF Progresses
    <2> QED BY Zenon, <1>1, <1>4, <2>1, RestsKeeps
  <1>5. CASE /\ DrainedJournal.creator # 0 /\ ~DrainedProgress.settled
             /\ Prepare(DrainedJournal, DrainedProgress)
    BY Zenon, <1>1, <1>5, PrepareKeeps
  <1> QED BY Zenon, <1>3, <1>4, <1>5 DEF Tick

-----------------------------------------------------------------------------
(* The remaining steps.                                                     *)

\* What the requests of clients, a backoff and a recovery leave alone.
Requested ==
    /\ journal' \in Journals /\ journal'.seen = journal.seen /\ journal'.scope = journal.scope
    /\ journal'.launched = journal.launched
    /\ journal.runs \subseteq journal'.runs /\ journal.stops \subseteq journal'.stops
    /\ journal'.stops \subseteq journal'.runs
    /\ journal.close => journal'.close /\ journal'.runs = journal.runs
    /\ journal.creator # 0 => journal'.creator # 0
    /\ up' \in BOOLEAN /\ progress' \in Progresses /\ progress'.settled = progress.settled
    /\ UNCHANGED <<work, guardian, ledger, queue, answer, launches, faults>>

\* A step of that kind keeps the invariant: intents only grow.
LEMMA RequestedKeeps ==
    ASSUME HostInv, Requested
    PROVE  HostInv'
  <1>1. \A r : r \in StopSet(journal) => r \in StopSet(journal')
    BY Zenon DEF HostInv, WorkOK, StopSet, Requested
  <1>2. HostTypeOK'
    BY Zenon DEF HostInv, HostTypeOK, Requested
  <1>3. LaunchOK' /\ LedgerOK(ledger)'
    BY Zenon DEF HostInv, LaunchOK, GuardianLaunchedOnce, LedgerOK, Requested
  <1>4. QueueOK' /\ AnswerOK'
    BY Zenon DEF HostInv, QueueOK, AnswerOK, Asked, Active, NextRun, NotOlder, Requested
  <1>5. WorkOK'
    BY Zenon, <1>1 DEF HostInv, WorkOK, Requested
  <1>6. SeenInv'
    <2>1. ASSUME NEW r, Barred(r) PROVE Barred(r)'
      BY Zenon, <1>1, <2>1 DEF Barred, Active, Requested
    <2> QED BY Zenon, <2>1 DEF HostInv, SeenInv, SeenOK, NotOlder, Requested
  <1>7. ScopeOK'
    BY Zenon DEF HostInv, ScopeOK, Confirmed, Requested
  <1>8. SettledOK'
    BY Zenon DEF HostInv, SettledOK, Requested
  <1> QED BY Zenon, <1>2, <1>3, <1>4, <1>5, <1>6, <1>7, <1>8 DEF HostInv

\* The actions that are such steps.
LEMMA ClientsRequest ==
    ASSUME HostInv,
           \/ CreateScope \/ BackoffElapses \/ Recover
           \/ \E r \in Runs : StartRun(r) \/ StopRun(r)
           \/ \E acknowledged \in BOOLEAN : CloseScope(acknowledged)
    PROVE  Requested
  <1>1. /\ journal \in Journals /\ progress \in Progresses /\ up \in BOOLEAN
        /\ journal.stops \subseteq journal.runs
    BY Zenon DEF HostInv, HostTypeOK, WorkOK
  <1>2. CASE CreateScope
    <2>1. journal.epoch \in Epochs /\ journal.epoch # 0
      BY Zenon, <1>1, LedgerAssumption DEF Journals
    <2> QED BY Zenon, <1>1, <1>2, <2>1 DEF CreateScope, Requested, Journals
  <1>3. CASE BackoffElapses
    BY Zenon, <1>1, <1>3 DEF BackoffElapses, Requested, Progresses
  <1>4. CASE Recover
    <2>1. journal.epoch + 1 \in Epochs
      BY <1>1, <1>4, HostAssumption DEF Recover, Journals
    <2> QED BY Zenon, <1>1, <1>4, <2>1 DEF Recover, Requested, Journals
  <1>5. ASSUME NEW r \in Runs, StartRun(r) PROVE Requested
    BY Zenon, <1>1, <1>5 DEF StartRun, Requested, Journals
  <1>6. ASSUME NEW r \in Runs, StopRun(r) PROVE Requested
    BY Zenon, <1>1, <1>6 DEF StopRun, Requested, Journals
  <1>7. ASSUME NEW acknowledged \in BOOLEAN, CloseScope(acknowledged) PROVE Requested
    BY Zenon, <1>1, <1>7 DEF CloseScope, Requested, Journals, Progresses
  <1> QED BY Zenon, <1>2, <1>3, <1>4, <1>5, <1>6, <1>7

\* Requests nobody awaits any more are otherwise what they were.
LEMMA AbandonedIs ==
    ASSUME queue \in Seq(Messages)
    PROVE  /\ Abandoned(queue) \in Seq(Messages) /\ Len(Abandoned(queue)) = Len(queue)
           /\ \A i \in 1..Len(queue) :
                 /\ Abandoned(queue)[i].op = queue[i].op /\ Abandoned(queue)[i].run = queue[i].run
                 /\ ~Abandoned(queue)[i].awaited
  <1>1. DOMAIN queue = 1..Len(queue) /\ Len(queue) \in Nat
    OBVIOUS
  <1>2. \A i \in 1..Len(queue) : queue[i] \in Messages
    OBVIOUS
  <1>3. Abandoned(queue) = [i \in 1..Len(queue) |-> [queue[i] EXCEPT !.awaited = FALSE]]
    BY Zenon, <1>1 DEF Abandoned
  <1>4. ASSUME NEW i \in 1..Len(queue)
        PROVE  /\ Abandoned(queue)[i] \in Messages
               /\ Abandoned(queue)[i].op = queue[i].op /\ Abandoned(queue)[i].run = queue[i].run
               /\ ~Abandoned(queue)[i].awaited
    <2>1. Abandoned(queue)[i] = [queue[i] EXCEPT !.awaited = FALSE]
      BY Zenon, <1>3
    <2> QED BY Zenon, <1>2, <2>1 DEF Messages
  <1>5. Abandoned(queue) \in [1..Len(queue) -> Messages]
    BY Zenon, <1>3, <1>4
  <1>6. Abandoned(queue) \in Seq(Messages) /\ Len(Abandoned(queue)) = Len(queue)
    BY <1>1, <1>5
  <1> QED BY Zenon, <1>4, <1>6

\* An exchange ends and its request is abandoned or was never sent.
Ends(q) ==
    /\ q \in Seq(Messages) /\ Len(q) <= Len(queue)
    /\ \A i \in 1..Len(q) : /\ i \in 1..Len(queue) /\ ~q[i].awaited
                            /\ q[i].op = queue[i].op /\ q[i].run = queue[i].run

\* The two things a failed exchange may leave at the guardian.
LEMMA EndsIs ==
    ASSUME HostTypeOK
    PROVE  Ends(Abandoned(queue)) /\ Ends(Unsent(queue))
  <1>1. /\ queue \in Seq(Messages) /\ Len(queue) \in Nat
        /\ \A i \in 1..Len(queue) : queue[i].awaited => i = Len(queue)
    BY DEF HostTypeOK
  <1>2. Ends(Abandoned(queue))
    <2>1. PICK q : q = Abandoned(queue)
      BY Zenon
    <2>2. q \in Seq(Messages) /\ Len(q) = Len(queue)
      BY Zenon, <1>1, <2>1, AbandonedIs
    <2>3. \A i \in 1..Len(queue) : ~q[i].awaited /\ q[i].op = queue[i].op /\ q[i].run = queue[i].run
      BY Zenon, <1>1, <2>1, AbandonedIs
    <2>4. Len(q) <= Len(queue)
      BY <1>1, <2>2
    <2>5. Ends(q)
      BY Zenon, <2>2, <2>3, <2>4 DEF Ends
    <2> QED BY Zenon, <2>1, <2>5
  <1>3. CASE queue # <<>> /\ queue[Len(queue)].awaited
    <2>1. Unsent(queue) = [i \in 1..(Len(queue) - 1) |-> queue[i]] /\ Len(queue) >= 1
      BY <1>1, <1>3 DEF Unsent
    <2>2. Unsent(queue) \in [1..(Len(queue) - 1) -> Messages] /\ Len(queue) - 1 \in Nat
      BY <1>1, <2>1
    <2>3. Unsent(queue) \in Seq(Messages) /\ Len(Unsent(queue)) = Len(queue) - 1
      BY <2>2
    <2>4. \A i \in 1..(Len(queue) - 1) :
             i \in 1..Len(queue) /\ Unsent(queue)[i] = queue[i] /\ ~queue[i].awaited
      BY <1>1, <2>1
    <2>5. PICK q : q = Unsent(queue)
      BY Zenon
    <2>6. q \in Seq(Messages) /\ Len(q) <= Len(queue)
      BY <1>1, <2>3, <2>5
    <2>7. ASSUME NEW i \in 1..Len(q)
          PROVE  /\ i \in 1..Len(queue) /\ ~q[i].awaited
                 /\ q[i].op = queue[i].op /\ q[i].run = queue[i].run
      <3>1. i \in 1..(Len(queue) - 1)
        BY Zenon, <2>3, <2>5
      <3> QED BY Zenon, <2>4, <2>5, <3>1
    <2>8. Ends(q)
      BY Zenon, <2>6, <2>7 DEF Ends
    <2> QED BY Zenon, <1>2, <2>5, <2>8
  <1>4. CASE ~(queue # <<>> /\ queue[Len(queue)].awaited)
    <2>1. Unsent(queue) = queue /\ \A i \in 1..Len(queue) : ~queue[i].awaited
      BY <1>1, <1>4 DEF Unsent
    <2>2. Ends(queue)
      BY <1>1, <2>1 DEF Ends
    <2> QED BY Zenon, <1>2, <2>1, <2>2
  <1> QED BY Zenon, <1>2, <1>3, <1>4

\* A failed exchange (a timeout or a transport error) keeps the invariant.
LEMMA FailsKeeps ==
    ASSUME HostInv, WorkerFails
    PROVE  HostInv'
  <1>1. /\ work.pc \in {"bind", "scope", "runs"} /\ answer' = NoAnswer /\ Ends(queue')
        /\ work' = [work EXCEPT !.pc = "done", !.status = "Unavailable"]
        /\ journal' = journal /\ up' = up /\ progress' = progress /\ guardian' = guardian
        /\ ledger' = ledger /\ launches' = launches
    BY Zenon, EndsIs DEF WorkerFails, HostInv
  <1>2. /\ queue' \in Seq(Messages) /\ Len(queue') \in Nat /\ Len(queue') <= Len(queue)
        /\ \A i \in 1..Len(queue') :
              /\ i \in 1..Len(queue) /\ ~queue'[i].awaited
              /\ queue'[i].op = queue[i].op /\ queue'[i].run = queue[i].run
    BY <1>1 DEF Ends
  <1>3. /\ work' \in Exchanges /\ work'.pc = "done" /\ work'.stops = work.stops
        /\ work'.seen = work.seen /\ work'.scope = work.scope
    <2>1. work \in Exchanges /\ "Unavailable" \in Statuses
      BY Zenon DEF HostInv, HostTypeOK, Statuses
    <2>2. [work EXCEPT !.pc = "done", !.status = "Unavailable"] \in Exchanges
      BY <2>1, Zenon DEF Exchanges
    <2>3. /\ work'.pc = "done" /\ work'.stops = work.stops
          /\ work'.seen = work.seen /\ work'.scope = work.scope
      BY Zenon, <1>1, <2>1 DEF Exchanges
    <2> QED BY Zenon, <1>1, <2>2, <2>3
  <1>4. faults' \in 0..MaxFaults
    <2>1. faults \in 0..MaxFaults /\ (faults' = faults \/ (faults < MaxFaults /\ faults' = faults + 1))
      BY Zenon DEF HostInv, HostTypeOK, WorkerFails
    <2> QED BY <2>1, HostAssumption
  <1>5. HostTypeOK'
    <2>1. Len(queue') <= MaxQueue
      BY <1>2, HostAssumption DEF HostInv, HostTypeOK
    <2>2. NoAnswer \in Answers
      BY Zenon DEF Answers, NoAnswer
    <2> QED BY Zenon, <1>1, <1>2, <1>3, <1>4, <2>1, <2>2 DEF HostInv, HostTypeOK
  <1>6. LaunchOK' /\ LedgerOK(ledger)'
    <2>1. guardian # "up" => queue' = <<>>
      <3> SUFFICES ASSUME guardian # "up" PROVE queue' = <<>>
        BY Zenon
      <3>1. Len(queue) = 0
        BY DEF HostInv, LaunchOK
      <3> QED BY <1>2, <3>1
    <2> QED BY Zenon, <1>1, <2>1 DEF HostInv, LaunchOK, GuardianLaunchedOnce, LedgerOK
  <1>7. QueueOK'
    BY Zenon, <1>1, <1>2, <1>3 DEF HostInv, QueueOK, NoAnswer
  <1>8. AnswerOK' /\ WorkOK'
    BY Zenon, <1>1, <1>3 DEF HostInv, AnswerOK, NoAnswer, WorkOK
  <1>9. SeenInv'
    <2>1. ASSUME NEW r, Barred(r) PROVE Barred(r)'
      BY Zenon, <1>1, <1>2, <1>3, <2>1 DEF Barred, Active
    <2> QED BY Zenon, <1>1, <1>3, <2>1 DEF HostInv, SeenInv, SeenOK, NotOlder
  <1>10. ScopeOK' /\ SettledOK'
    BY Zenon, <1>1, <1>3 DEF HostInv, ScopeOK, Confirmed, SettledOK, NoAnswer
  <1> QED BY Zenon, <1>5, <1>6, <1>7, <1>8, <1>9, <1>10 DEF HostInv

\* A step of the guardian alone, over which its ledger only advances.
LEMMA AdvancesKeeps ==
    ASSUME HostInv, ledger' \in Ledgers, LedgerOK(ledger'), LedgerGrows(ledger, ledger', {}),
           guardian' = "up", guardian \in {"starting", "up"},
           UNCHANGED <<journal, up, progress, work, queue, answer, launches, faults>>
    PROVE  HostInv'
  <1>1. HostTypeOK' /\ LaunchOK' /\ QueueOK' /\ WorkOK' /\ SettledOK'
    <2>1. HostTypeOK'
      BY Zenon DEF HostInv, HostTypeOK
    <2>2. guardian # "absent" /\ guardian' # "absent" /\ guardian' \notin {"absent", "starting"}
      BY Zenon
    <2>3. LaunchOK'
      BY Zenon, <2>2 DEF HostInv, LaunchOK, GuardianLaunchedOnce
    <2>4. QueueOK'
      <3>1. queue' = queue /\ work' = work /\ answer' = answer
        BY Zenon
      <3>2. ASSUME NEW i \in 1..Len(queue), Asked(queue[i]) PROVE Asked(queue[i])'
        BY Zenon, <3>1, <3>2 DEF Asked, Active, NextRun
      <3> QED BY Zenon, <3>1, <3>2 DEF HostInv, QueueOK
    <2>5. WorkOK' /\ SettledOK'
      BY Zenon DEF HostInv, WorkOK, SettledOK
    <2> QED BY Zenon, <2>1, <2>3, <2>4, <2>5
  <1>2. ASSUME NEW r, NEW f, SeenOK(r, f)
        PROVE  SeenOK(r, f)'
    <2>1. Agrees(ledger', r, f) /\ (r \in DOMAIN ledger.facts => r \in DOMAIN ledger'.facts)
      BY Zenon, <1>2, AgreesStays DEF SeenOK
    <2>2. Barred(r) => Barred(r)'
      BY Zenon DEF Barred, Active
    <2> QED BY Zenon, <1>2, <2>1, <2>2 DEF SeenOK
  <1>3. SeenInv'
    <2>1. ASSUME NEW r \in DOMAIN journal.seen PROVE SeenOK(r, journal.seen[r])'
      <3>1. PICK f : f = journal.seen[r] /\ f = journal'.seen[r]
        BY Zenon
      <3>2. SeenOK(r, f)'
        BY Zenon, <1>2, <3>1 DEF HostInv, SeenInv
      <3> QED BY Zenon, <3>1, <3>2 DEF SeenOK
    <2>2. ASSUME NEW r \in DOMAIN work.seen
          PROVE  SeenOK(r, work.seen[r])' /\ NotOlder(r, work.seen[r])'
      <3>1. PICK f : f = work.seen[r] /\ f = work'.seen[r]
        BY Zenon
      <3>2. SeenOK(r, f)' /\ NotOlder(r, f)
        BY Zenon, <1>2, <3>1 DEF HostInv, SeenInv
      <3> QED BY Zenon, <3>1, <3>2 DEF SeenOK, NotOlder
    <2> QED BY Zenon, <2>1, <2>2 DEF SeenInv
  <1>4. AnswerOK'
    <2>1. PICK r : r = NextRun(work) /\ r = NextRun(work)'
      BY Zenon DEF NextRun
    <2>2. AnswerOK
      BY Zenon DEF HostInv
    <2>3. ASSUME answer.kind = "Run"
          PROVE  r \in DOMAIN ledger'.facts /\ FactsAdvance(answer.facts, ledger'.facts[r])
      <3>1. r \in DOMAIN ledger.facts /\ FactsAdvance(answer.facts, ledger.facts[r])
        BY Zenon, <2>1, <2>2, <2>3 DEF AnswerOK
      <3>2. r \in DOMAIN ledger'.facts /\ FactsAdvance(ledger.facts[r], ledger'.facts[r])
        BY Zenon, <3>1 DEF LedgerGrows
      <3> QED BY Zenon, <3>1, <3>2, FactsAdvanceTransitive
    <2>4. answer.kind = "UnknownRun" => r \notin DOMAIN ledger'.facts
      BY Zenon, <2>1, <2>2 DEF AnswerOK, LedgerGrows
    <2>5. NotOlder(r, answer.facts) => NotOlder(r, answer.facts)'
      BY Zenon DEF NotOlder
    <2> QED BY Zenon, <2>1, <2>2, <2>3, <2>4, <2>5 DEF AnswerOK, Active
  <1>5. ScopeOK'
    BY Zenon DEF HostInv, ScopeOK, Confirmed, LedgerGrows
  <1> QED BY Zenon, <1>1, <1>3, <1>4, <1>5 DEF HostInv

\* The reconcile of the guardian and its bootstrap are such steps.
LEMMA GuardianKeeps ==
    ASSUME HostInv, GuardianFollows \/ GuardianBoots
    PROVE  HostInv'
  <1>1. ledger \in Ledgers /\ LedgerOK(ledger)
    BY Zenon DEF HostInv, HostTypeOK
  <1>2. CASE GuardianFollows
    <2>1. ledger' \in Ledgers /\ LedgerOK(ledger') /\ LedgerGrows(ledger, ledger', {})
      BY Zenon, <1>1, <1>2, FollowUpsGrow DEF GuardianFollows, Follow
    <2> QED BY Zenon, <1>2, <2>1, AdvancesKeeps DEF GuardianFollows
  <1>3. CASE GuardianBoots
    <2>1. /\ guardian = "starting" /\ guardian' = "up" /\ ledger' = EmptyLedger(journal.creator)
          /\ UNCHANGED <<journal, up, progress, work, queue, answer, launches, faults>>
      BY Zenon, <1>3 DEF GuardianBoots
    <2>2. ledger.facts = [r \in {} |-> Accepted] /\ ledger.scope = "Open"
      BY Zenon, <2>1 DEF HostInv, LaunchOK
    <2>3. journal.creator \in Epochs
      <3>1. launches # 0 /\ launches \in Nat /\ launches <= 1
        BY Zenon, <2>1 DEF HostInv, HostTypeOK, LaunchOK, GuardianLaunchedOnce
      <3>2. launches = 1
        BY <3>1
      <3>3. journal.creator # 0 /\ journal.creator \in Epochs \cup {0}
        BY Zenon, <3>2 DEF HostInv, HostTypeOK, LaunchOK, GuardianLaunchedOnce, Journals
      <3> QED BY Zenon, <3>3
    <2>4. [r \in {} |-> Accepted] \in Partial(Runs, Facts)
      BY Zenon, IdleIs DEF Idle, Exchanges
    <2>5. /\ ledger' \in Ledgers /\ ledger'.facts = [r \in {} |-> Accepted]
          /\ ledger'.executed = {} /\ ledger'.scope = "Open"
      BY Zenon, <2>1, <2>3, <2>4 DEF EmptyLedger, Ledgers, ScopeStates
    <2>6. LedgerOK(ledger') /\ LedgerGrows(ledger, ledger', {})
      BY Zenon, <2>2, <2>5, FactsStay DEF LedgerOK, LedgerGrows, Evidences
    <2> QED BY Zenon, <2>1, <2>5, <2>6, AdvancesKeeps
  <1> QED BY Zenon, <1>2, <1>3

\* The guardian dies with what waits at it; its ledger stays as it is.
LEMMA DiesKeeps ==
    ASSUME HostInv, GuardianDies
    PROVE  HostInv'
  <1>1. /\ guardian \in {"starting", "up"} /\ guardian' = "gone" /\ queue' = <<>>
        /\ UNCHANGED <<journal, up, progress, work, ledger, answer, launches, faults>>
    BY Zenon DEF GuardianDies
  <1>2. queue' \in Seq(Messages) /\ Len(queue') = 0 /\ Len(queue') <= MaxQueue
    BY <1>1, HostAssumption
  <1>3. HostTypeOK' /\ QueueOK'
    <2>1. QueueOK'
      BY <1>2 DEF QueueOK
    <2>2. HostTypeOK
      BY Zenon DEF HostInv
    <2>3. HostTypeOK'
      BY <1>1, <1>2, <2>2 DEF HostTypeOK
    <2> QED BY Zenon, <2>1, <2>3
  <1>4. LaunchOK' /\ LedgerOK(ledger)'
    <2>1. LaunchOK /\ LedgerOK(ledger)
      BY Zenon DEF HostInv
    <2>2. LaunchOK'
      BY Zenon, <1>1, <2>1 DEF LaunchOK, GuardianLaunchedOnce
    <2> QED BY Zenon, <1>1, <2>1, <2>2 DEF LedgerOK
  <1>5. AnswerOK' /\ WorkOK' /\ ScopeOK' /\ SettledOK'
    <2>1. AnswerOK /\ WorkOK /\ ScopeOK /\ SettledOK
      BY Zenon DEF HostInv
    <2>2. NextRun(work)' = NextRun(work)
      BY Zenon, <1>1 DEF NextRun
    <2>3. AnswerOK'
      BY Zenon, <1>1, <2>1, <2>2 DEF AnswerOK, Active, NotOlder
    <2>4. WorkOK' /\ SettledOK'
      BY Zenon, <1>1, <2>1 DEF WorkOK, SettledOK, StopSet
    <2>5. ScopeOK'
      BY Zenon, <1>1, <2>1 DEF ScopeOK, Confirmed
    <2> QED BY Zenon, <2>3, <2>4, <2>5
  <1>6. SeenInv'
    <2>1. ASSUME NEW r, Barred(r) PROVE Barred(r)'
      <3>1. r \in StopSet(journal)' /\ (Active => r \in work.stops)'
        BY Zenon, <1>1, <2>1 DEF Barred, Active
      <3>2. \A i \in 1..Len(queue') : FALSE
        BY <1>2
      <3> QED BY Zenon, <3>1, <3>2 DEF Barred
    <2> QED BY Zenon, <1>1, <2>1 DEF HostInv, SeenInv, SeenOK, NotOlder
  <1> QED BY Zenon, <1>3, <1>4, <1>5, <1>6 DEF HostInv

\* A crash of the host, between the commits of an exchange or outside them, keeps the
\* invariant.
LEMMA CrashKeeps ==
    ASSUME HostInv, Crash
    PROVE  HostInv'
  <1>1. PICK last \in {0} \cup (IF work.pc = "done" THEN DOMAIN work.seen ELSE {}) :
           journal' = ObservedRuns(journal, SeenUpTo(last))
    BY Zenon DEF Crash
  <1>2. PICK seen : seen = SeenUpTo(last)
    BY Zenon
  <1>3. \A r \in DOMAIN seen : r \in DOMAIN work.seen /\ seen[r] = work.seen[r]
    BY Zenon, <1>2 DEF SeenUpTo
  <1>4. seen \in Partial(Runs, Facts)
    <2>1. DOMAIN work.seen \subseteq Runs /\ work.seen \in [DOMAIN work.seen -> Facts]
      BY Zenon, PartialIs DEF HostInv, HostTypeOK, Exchanges
    <2>2. DOMAIN seen \subseteq Runs /\ \A r \in DOMAIN seen : seen[r] \in Facts
      BY Zenon, <1>3, <2>1
    <2>3. seen \in [DOMAIN seen -> Facts]
      BY Zenon, <1>2, <2>2 DEF SeenUpTo
    <2> QED BY Zenon, <2>2, <2>3, PartialIs
  <1>5. /\ journal' \in Journals /\ journal'.creator = journal.creator
        /\ journal'.runs = journal.runs /\ journal'.stops = journal.stops
        /\ journal'.close = journal.close /\ journal'.launched = journal.launched
        /\ journal'.scope = journal.scope
        /\ \A r \in DOMAIN journal'.seen : SeenOK(r, journal'.seen[r])
    BY Zenon, <1>1, <1>2, <1>3, <1>4, ObservedKeeps DEF HostInv
  <1>6. /\ up' = FALSE /\ progress' = NoProgress /\ work' = Idle /\ answer' = NoAnswer
        /\ queue' = Abandoned(queue) /\ guardian' = guardian /\ ledger' = ledger
        /\ launches' = launches /\ faults' = faults + 1 /\ faults < MaxFaults
    BY Zenon DEF Crash
  <1>7. /\ queue \in Seq(Messages) /\ Len(queue) <= MaxQueue
        /\ queue' \in Seq(Messages) /\ Len(queue') = Len(queue)
        /\ \A i \in 1..Len(queue) :
              queue'[i].op = queue[i].op /\ queue'[i].run = queue[i].run /\ ~queue'[i].awaited
    BY Zenon, <1>6, AbandonedIs DEF HostInv, HostTypeOK
  <1>8. HostTypeOK'
    <2>1. faults' \in 0..MaxFaults
      <3>1. faults \in 0..MaxFaults
        BY Zenon DEF HostInv, HostTypeOK
      <3> QED BY <1>6, <3>1, HostAssumption
    <2>2. NoAnswer \in Answers /\ NoProgress \in Progresses
      BY Zenon DEF Answers, NoAnswer, NoProgress, Progresses, Statuses
    <2>3. \A i \in 1..Len(queue') : queue'[i].awaited => i = Len(queue')
      BY Zenon, <1>7
    <2>4. guardian \in {"absent", "starting", "up", "gone"} /\ ledger \in Ledgers /\ launches \in Nat
      BY Zenon DEF HostInv, HostTypeOK
    <2> QED BY Zenon, <1>5, <1>6, <1>7, <2>1, <2>2, <2>3, <2>4, IdleIs DEF HostTypeOK
  <1>9. LaunchOK' /\ LedgerOK(ledger)'
    <2>1. guardian # "up" => queue' = <<>>
      <3> SUFFICES ASSUME guardian # "up" PROVE queue' = <<>>
        BY Zenon
      <3>1. Len(queue) = 0
        BY DEF HostInv, LaunchOK
      <3> QED BY <1>7, <3>1
    <2> QED BY Zenon, <1>5, <1>6, <2>1 DEF HostInv, LaunchOK, GuardianLaunchedOnce, LedgerOK
  <1>10. QueueOK'
    BY Zenon, <1>6, <1>7, IdleIs DEF HostInv, QueueOK, NoAnswer
  <1>11. AnswerOK' /\ WorkOK' /\ SettledOK'
    BY Zenon, <1>5, <1>6, IdleIs DEF HostInv, AnswerOK, NoAnswer, WorkOK, SettledOK, NoProgress
  <1>12. SeenInv'
    <2>1. ASSUME NEW r, Barred(r) PROVE Barred(r)'
      BY Zenon, <1>5, <1>6, <1>7, <2>1, IdleIs DEF Barred, Active, StopSet
    <2>2. ASSUME NEW r \in DOMAIN journal'.seen PROVE SeenOK(r, journal.seen[r])'
      BY Zenon, <1>5, <1>6, <2>1 DEF SeenOK
    <2> QED BY Zenon, <1>6, <2>2, IdleIs DEF SeenInv
  <1>13. ScopeOK'
    <2>1. Idle.scope \notin Evidences
      BY Zenon, IdleIs DEF Evidences
    <2> QED BY Zenon, <1>5, <1>6, <2>1 DEF HostInv, ScopeOK, Confirmed, NoAnswer
  <1> QED BY Zenon, <1>8, <1>9, <1>10, <1>11, <1>12, <1>13 DEF HostInv

-----------------------------------------------------------------------------
(* The theorems.                                                            *)

\* The invariant holds of a new host and scope (HostState::create).
LEMMA HostInvInit ==
    ASSUME HostInit
    PROVE  HostInv
  <1>1. [r \in {} |-> Accepted] \in Partial(Runs, Facts)
    BY Zenon, IdleIs DEF Idle, Exchanges
  <1>2. /\ journal \in Journals /\ journal.seen = [r \in {} |-> Accepted] /\ journal.scope = "None"
        /\ journal.stops = {} /\ journal.runs = {} /\ ~journal.launched
    <2>1. 1 \in Epochs
      BY HostAssumption
    <2> QED BY Zenon, <1>1, <2>1 DEF HostInit, Journals
  <1>3. /\ ledger \in Ledgers /\ ledger.facts = [r \in {} |-> Accepted] /\ ledger.scope = "Open"
        /\ ledger.executed = {}
    <2>1. 1 \in Epochs
      BY HostAssumption
    <2> QED BY Zenon, <1>1, <2>1 DEF HostInit, EmptyLedger, Ledgers, ScopeStates
  <1>4. /\ queue = <<>> /\ queue \in Seq(Messages) /\ Len(queue) = 0 /\ answer = NoAnswer
        /\ work = Idle /\ progress = NoProgress /\ guardian = "absent" /\ launches = 0
        /\ up = TRUE /\ faults = 0
    BY DEF HostInit
  <1>5. HostTypeOK
    <2>1. NoAnswer \in Answers /\ NoProgress \in Progresses
      BY Zenon DEF Answers, NoAnswer, NoProgress, Progresses, Statuses
    <2>2. 0 \in 0..MaxFaults /\ 0 <= MaxQueue
      BY HostAssumption
    <2>3. Idle \in Exchanges
      BY Zenon, IdleIs
    <2>4. \A i \in 1..Len(queue) : FALSE
      BY <1>4
    <2>5. launches \in Nat /\ faults \in 0..MaxFaults /\ Len(queue) <= MaxQueue
      BY Zenon, <1>4, <2>2
    <2>6. answer \in Answers /\ progress \in Progresses /\ work \in Exchanges /\ up \in BOOLEAN
      BY Zenon, <1>4, <2>1, <2>3
    <2> QED BY Zenon, <1>2, <1>3, <1>4, <2>4, <2>5, <2>6 DEF HostTypeOK
  <1>6. LaunchOK /\ LedgerOK(ledger)
    <2>1. GuardianLaunchedOnce
      BY <1>4 DEF GuardianLaunchedOnce
    <2>2. LaunchOK
      BY Zenon, <1>2, <1>3, <1>4, <2>1 DEF LaunchOK
    <2>3. LedgerOK(ledger)
      BY Zenon, <1>3 DEF LedgerOK, Evidences
    <2> QED BY Zenon, <2>2, <2>3
  <1>7. QueueOK /\ AnswerOK /\ WorkOK /\ SettledOK
    <2>1. QueueOK
      BY <1>4 DEF QueueOK
    <2>2. AnswerOK
      BY Zenon, <1>4 DEF AnswerOK, NoAnswer
    <2>3. WorkOK
      BY Zenon, <1>2, <1>4, IdleIs DEF WorkOK
    <2>4. SettledOK
      BY Zenon, <1>4 DEF SettledOK, NoProgress
    <2> QED BY Zenon, <2>1, <2>2, <2>3, <2>4
  <1>8. SeenInv /\ ScopeOK
    BY Zenon, <1>2, <1>4, IdleIs DEF SeenInv, ScopeOK, Confirmed, NoAnswer, Evidences
  <1> QED BY Zenon, <1>3, <1>5, <1>6, <1>7, <1>8 DEF HostInv

\* Every step of the host, its worker, its guardian and their faults keeps it.
LEMMA HostInvStep ==
    ASSUME HostInv, HostNext
    PROVE  HostInv'
  <1>1. CASE CreateScope \/ BackoffElapses \/ Recover
             \/ (\E r \in Runs : StartRun(r) \/ StopRun(r))
             \/ (\E acknowledged \in BOOLEAN : CloseScope(acknowledged))
    BY Zenon, <1>1, ClientsRequest, RequestedKeeps
  <1>2. CASE Tick
    BY Zenon, <1>2, TickKeeps
  <1>3. CASE WorkerReads
    BY Zenon, <1>3, ReadsKeeps
  <1>4. CASE WorkerFails
    BY Zenon, <1>4, FailsKeeps
  <1>5. ASSUME NEW i \in DOMAIN queue,
               GuardianBinds(i) \/ GuardianExecutes(i) \/ GuardianStorageFails(i)
        PROVE  HostInv'
    BY Zenon, <1>5, GuardianServes, ServesKeeps
  <1>6. CASE GuardianFollows \/ GuardianBoots
    BY Zenon, <1>6, GuardianKeeps
  <1>7. CASE GuardianDies
    BY Zenon, <1>7, DiesKeeps
  <1>8. CASE Crash
    BY Zenon, <1>8, CrashKeeps
  <1> QED BY Zenon, <1>1, <1>2, <1>3, <1>4, <1>5, <1>6, <1>7, <1>8 DEF HostNext

\* A step that changes nothing keeps it.
LEMMA HostInvStutters ==
    ASSUME HostInv, UNCHANGED vars
    PROVE  HostInv'
  <1>1. Requested
    BY Zenon DEF vars, Requested, HostInv, HostTypeOK, WorkOK
  <1> QED BY Zenon, <1>1, RequestedKeeps

\* What the host knows and what its guardian holds fit together in every reachable
\* state.
THEOREM HostInvariant == HostSpec => []HostInv
  <1>1. HostInit => HostInv
    BY Zenon, HostInvInit
  <1>2. HostInv /\ [HostNext]_vars => HostInv'
    BY Zenon, HostInvStep, HostInvStutters
  <1> QED BY <1>1, <1>2, PTL DEF HostSpec

\* begin_guardian executes at most one guardian for a scope, over any number of
\* crashes and recoveries.
THEOREM OneGuardian == HostSpec => []GuardianLaunchedOnce
  <1>1. HostInv => GuardianLaunchedOnce
    BY Zenon DEF HostInv, LaunchOK
  <1> QED BY <1>1, HostInvariant, PTL

\* What observe_run commits is what the guardian's ledger confirmed, or the
\* cancellation of a Run it never accepts.
THEOREM HostNeverAhead == HostSpec => []HostFollowsTheGuardian
  <1>1. HostInv => HostFollowsTheGuardian
    BY Zenon DEF HostInv, SeenInv, SeenOK, Agrees, HostFollowsTheGuardian
  <1> QED BY <1>1, HostInvariant, PTL

\* A Run recorded as cancelled or as not started is never executed, however late a
\* request for it arrives.
THEOREM CancellationHolds == HostSpec => []CancelledNeverExecutes
  <1>1. HostInv => CancelledNeverExecutes
    <2> SUFFICES ASSUME HostInv, NEW r \in DOMAIN journal.seen,
                        journal.seen[r].launch = "NotStarted"
                 PROVE  r \notin ledger.executed
      BY Zenon DEF CancelledNeverExecutes
    <2>1. LedgerOK(ledger) /\ Agrees(ledger, r, journal.seen[r])
      BY Zenon DEF HostInv, SeenInv, SeenOK
    <2>2. CASE r \in DOMAIN ledger.facts
      <3>1. ledger.facts[r].launch = "NotStarted"
        BY Zenon, <2>1, <2>2 DEF Agrees, FactsAdvance
      <3> QED BY Zenon, <2>1, <2>2, <3>1 DEF LedgerOK
    <2>3. CASE r \notin DOMAIN ledger.facts
      BY Zenon, <2>1, <2>3 DEF LedgerOK
    <2> QED BY Zenon, <2>2, <2>3
  <1> QED BY <1>1, HostInvariant, PTL

\* When the coordinator settles a scope, every Run of its journal is complete, and so
\* is every workload its guardian executed.
THEOREM SettlingIsFinal == HostSpec => []SettledLeavesNothing
  <1>1. HostInv => SettledLeavesNothing
    <2> SUFFICES ASSUME HostInv, progress.settled
                 PROVE  /\ \A r \in journal.runs : r \in DOMAIN journal.seen /\ Complete(journal.seen[r])
                        /\ \A r \in ledger.executed : Complete(ledger.facts[r])
                        /\ launches = 1 => ledger.scope \in Evidences
      BY Zenon DEF SettledLeavesNothing
    <2>1. /\ \A r \in journal.runs : r \in DOMAIN journal.seen /\ Complete(journal.seen[r])
          /\ ledger.scope \in Evidences \/ ~journal.launched
          /\ LedgerOK(ledger) /\ LaunchOK
      BY Zenon DEF HostInv, SettledOK, ScopeOK, Confirmed
    <2>2. CASE ledger.scope \in Evidences
      BY Zenon, <2>1, <2>2 DEF LedgerOK
    <2>3. CASE ~journal.launched
      <3>1. launches \in Nat /\ launches <= 1 /\ launches # 1
        BY Zenon, <2>1, <2>3 DEF HostInv, HostTypeOK, LaunchOK, GuardianLaunchedOnce
      <3>2. launches = 0
        BY <3>1
      <3>3. DOMAIN ledger.facts = {}
        BY Zenon, <2>1, <3>2 DEF LaunchOK
      <3> QED BY <2>1, <3>2, <3>3 DEF LedgerOK
    <2> QED BY Zenon, <2>1, <2>2, <2>3
  <1> QED BY <1>1, HostInvariant, PTL
=============================================================================
