-------------------------- MODULE CloneResultProofs --------------------------
(***************************************************************************)
(* What the Node's records say is what happened, and what its checks ask   *)
(* for is always there, for any number of executions, steps, restarts and  *)
(* faults.                                                                 *)
(*                                                                         *)
(* drive.rs decides from the answer it has in hand; complete_clone and     *)
(* ProcessJournal::record check against rows written before, perhaps by    *)
(* another process.  TrailInv says that the two agree: the steps counted   *)
(* so far ended with zero and are cleaned, the fetches they rest on were   *)
(* made, and the transport repository is there while a step may read it.   *)
(* ResidueInv says the same of the directory a clone is made in.           *)
(***************************************************************************)
EXTENDS NodeClonesProofs

-----------------------------------------------------------------------------
(* The trail of an execution: what its fetches and Runs have left behind.   *)

\* The ending of the current Run, and the steps before it, back a result of this kind.
Verdict(r, a, kind) ==
    IF r.phase = "Dispatched"
    THEN /\ Current(r, a) /\ a[Len(a)].cleaned
         /\ kind = "Ready" => a[Len(a)].ended = "zero" /\ Len(a) = WorkloadSteps
         /\ kind = "Interrupted" => a[Len(a)].ended = "signal"
         /\ kind \notin {"Ready", "Interrupted"} => a[Len(a)].ended = "fail"
    ELSE kind \notin {"Ready", "Interrupted"}

\* The last Run has ended badly.
Bad(u) == Len(u) > 0 /\ u[Len(u)] \in {"fail", "signal"}

\* Execution e has performed f fetches and gone through the steps it counts, and a step
\* that reads its transport repository finds it in T.
Trail(e, r, a, u, f, T) ==
    /\ r.phase \in {"Reserved", "DirectoryCreated"} => f = 0
    /\ r.phase = "Fetching" => f <= r.n
    /\ r.phase = "Dispatched" =>
          /\ f \in 1..MaxFetches
          /\ \A i \in 1..r.n : a[i].ended = "zero" /\ a[i].cleaned
          /\ r.mode # "Completed" /\ r.n <= TransportStep => e \in T \/ Bad(u)
    /\ r.mode = "Completed" => Verdict(r, a, r.result.kind)

\* The executor: a fetch was counted before it began, and only a finished workload is
\* inspected.
FlightTrail(g, r, a, f, T) ==
    /\ g.kind = "Fetch" /\ g.seen = "none" => f < r.n
    /\ g.kind = "Fetch" /\ g.seen \in {"busy", "Ready"} => f > 0 /\ g.exec \in T
    /\ g.kind = "Inspect" => r.phase = "Dispatched" /\ Verdict(r, a, "Ready")

\* The worker: what it is about to do follows from what is recorded.
WorkTrail(w, r, a) ==
    /\ w.todo \in {"continue", "dispatch"} /\ r.phase = "Dispatched" => Len(a) = r.n
    /\ w.todo \in {"clean", "settle"} =>
          /\ w.with \in Ended \cup {"unverified"}
          /\ w.with \in Ended => a[Len(a)].ended = w.with
    /\ w.todo = "fail" => Verdict(r, a, w.with)
    /\ w.todo = "remove" /\ r.mode # "Completed" => r.phase = "Dispatched" /\ r.n > TransportStep

TrailInv ==
    /\ \A e \in Execs : Trail(e, rec[e], attempts[e], runs[e], fetched[e], transports)
    /\ flight # Idle =>
          FlightTrail(flight, rec[flight.exec], attempts[flight.exec], fetched[flight.exec],
                      transports)
    /\ work # Idle => WorkTrail(work, rec[work.exec], attempts[work.exec])

\* A step that concerns execution e alone.
LEMMA TrailStep ==
    ASSUME NodeInv, TrailInv, NEW e \in Execs,
           \A d \in Execs : d # e =>
              /\ rec'[d] = rec[d] /\ attempts'[d] = attempts[d] /\ runs'[d] = runs[d]
              /\ fetched'[d] = fetched[d] /\ (d \in transports' <=> d \in transports),
           Trail(e, rec'[e], attempts'[e], runs'[e], fetched'[e], transports'),
           flight' # Idle =>
              \/ flight' = flight /\ flight.exec # e
              \/ flight'.exec = e /\ FlightTrail(flight', rec'[e], attempts'[e], fetched'[e], transports'),
           work' # Idle =>
              \/ work' = work /\ work.exec # e
              \/ work'.exec = e /\ WorkTrail(work', rec'[e], attempts'[e])
    PROVE  TrailInv'
  <1>1. ASSUME NEW d \in Execs
        PROVE  Trail(d, rec'[d], attempts'[d], runs'[d], fetched'[d], transports')
    <2>1. CASE d = e
      BY Zenon, <2>1
    <2>2. CASE d # e
      <3>1. Trail(d, rec[d], attempts[d], runs[d], fetched[d], transports)
        BY Zenon DEF TrailInv
      <3>2. Trail(d, rec'[d], attempts'[d], runs'[d], fetched'[d], transports)
        BY Zenon, <2>2, <3>1
      <3>3. d \in transports' <=> d \in transports
        BY Zenon, <2>2
      <3> QED
        BY Zenon, <3>2, <3>3 DEF Trail
    <2> QED
      BY Zenon, <2>1, <2>2
  <1>2. flight' # Idle =>
          FlightTrail(flight', rec'[flight'.exec], attempts'[flight'.exec], fetched'[flight'.exec],
                      transports')
    <2>1. CASE flight' # Idle /\ flight' = flight /\ flight.exec # e
      <3>1. PICK d \in Execs : d = flight.exec
        BY Zenon, <2>1 DEF NodeInv, MemoryTypeOK, Flights
      <3>2. FlightTrail(flight, rec[d], attempts[d], fetched[d], transports)
        BY Zenon, <2>1, <3>1 DEF TrailInv
      <3>3. /\ rec'[d] = rec[d] /\ attempts'[d] = attempts[d] /\ fetched'[d] = fetched[d]
            /\ (d \in transports' <=> d \in transports)
        BY Zenon, <2>1, <3>1
      <3>4. FlightTrail(flight, rec'[d], attempts'[d], fetched'[d], transports')
        BY Zenon, <3>1, <3>2, <3>3 DEF FlightTrail
      <3> QED
        BY Zenon, <2>1, <3>1, <3>4
    <2> QED
      BY Zenon, <2>1
  <1>3. work' # Idle => WorkTrail(work', rec'[work'.exec], attempts'[work'.exec])
    <2>1. work # Idle => work.exec \in Execs
      BY Zenon DEF NodeInv, MemoryTypeOK, Works
    <2> QED
      BY Zenon, <2>1 DEF TrailInv
  <1> QED
    BY Zenon, <1>1, <1>2, <1>3 DEF TrailInv

\* A step that writes the record of e, no process row, and may remove its transport
\* repository.
LEMMA TrailWrite ==
    ASSUME NodeInv, TrailInv, NEW e \in Execs, NEW r, UNCHANGED <<attempts, runs, fetched>>,
           rec' = [rec EXCEPT ![e] = r], transports' \in {transports, transports \ {e}},
           Trail(e, r, attempts[e], runs[e], fetched[e], transports'),
           flight' # Idle =>
              \/ flight' = flight /\ flight.exec # e
              \/ flight'.exec = e /\ FlightTrail(flight', r, attempts[e], fetched[e], transports'),
           work' # Idle => work'.exec = e /\ WorkTrail(work', r, attempts[e])
    PROVE  TrailInv'
  <1>1. rec'[e] = r /\ \A d \in Execs : d # e => rec'[d] = rec[d]
    BY Zenon DEF NodeInv, MemoryTypeOK
  <1>2. \A d \in Execs : d # e => (d \in transports' <=> d \in transports)
    BY Zenon
  <1> QED
    BY Zenon, <1>1, <1>2, TrailStep

\* What is known of an execution.
LEMMA TrailFacts ==
    ASSUME NodeInv, JournalInv, TypesInv, TrailInv, NEW e \in Execs
    PROVE  /\ rec[e] \in Recs /\ rec[e].n \in Nat /\ fetched[e] \in Nat
           /\ Journal(rec[e], attempts[e], runs[e])
           /\ Trail(e, rec[e], attempts[e], runs[e], fetched[e], transports)
           /\ rec[e].phase = "Dispatched" => rec[e].n < WorkloadSteps
           /\ rec[e].phase = "Fetching" => rec[e].n <= MaxFetches
           /\ WorkloadSteps \in Nat /\ TransportStep + 1 < WorkloadSteps /\ MaxFetches \in Nat \ {0}
  <1>1. rec[e] \in Recs /\ rec[e].n \in Nat
    BY Zenon, RecordWrites DEF Recs
  <1>2. fetched[e] \in Nat
    BY Zenon DEF TypesInv, OutsideTypes
  <1>3. /\ Journal(rec[e], attempts[e], runs[e])
        /\ Trail(e, rec[e], attempts[e], runs[e], fetched[e], transports)
    BY Zenon DEF JournalInv, TrailInv
  <1>4. /\ rec[e].phase = "Dispatched" => rec[e].n < WorkloadSteps
        /\ rec[e].phase = "Fetching" => rec[e].n <= MaxFetches
    BY <1>1, CloneAssumption, BoundsOf DEF TypesInv, Fits
  <1> QED
    BY Zenon, <1>1, <1>2, <1>3, <1>4, CloneAssumption

\* unknown_clone leaves the trail as it is.
LEMMA TrailUnknown ==
    ASSUME NEW e, NEW r \in Recs, NEW a, NEW u, NEW f, NEW T, Trail(e, r, a, u, f, T),
           r.mode # "Completed"
    PROVE  Trail(e, [r EXCEPT !.mode = "Unknown"], a, u, f, T)
  <1> DEFINE q == [r EXCEPT !.mode = "Unknown"]
  <1>1. q.phase = r.phase /\ q.n = r.n /\ q.mode = "Unknown"
    BY Zenon DEF Recs
  <1> HIDE DEF q
  <1>2. Trail(e, q, a, u, f, T)
    BY Zenon, <1>1 DEF Trail
  <1> QED
    BY Zenon, <1>2 DEF q

\* complete_clone writes a result the trail backs.
LEMMA TrailCompleted ==
    ASSUME NEW e, NEW r \in Recs, NEW a, NEW u, NEW f, NEW T, Trail(e, r, a, u, f, T),
           NEW result, Verdict(r, a, result.kind)
    PROVE  Trail(e, [r EXCEPT !.mode = "Completed", !.result = result], a, u, f, T)
  <1> DEFINE q == [r EXCEPT !.mode = "Completed", !.result = result]
  <1>1. q.phase = r.phase /\ q.n = r.n /\ q.mode = "Completed" /\ q.result = result
    BY Zenon DEF Recs
  <1> HIDE DEF q
  <1>2. Verdict(q, a, q.result.kind)
    BY Zenon, <1>1 DEF Verdict, Current
  <1>3. Trail(e, q, a, u, f, T)
    BY Zenon, <1>1, <1>2 DEF Trail
  <1> QED
    BY Zenon, <1>3 DEF q

\* The transport repository may go when no step reads it any more.
LEMMA TrailRemoved ==
    ASSUME NEW e, NEW r \in Recs, NEW a, NEW u, NEW f, NEW T, Trail(e, r, a, u, f, T),
           \/ r.phase # "Dispatched" \/ r.mode = "Completed" \/ r.n > TransportStep \/ Bad(u)
    PROVE  Trail(e, r, a, u, f, T \ {e})
  <1>1. r.n \in Nat
    BY Zenon DEF Recs
  <1>2. r.phase = "Dispatched" /\ r.mode # "Completed" /\ r.n <= TransportStep => Bad(u)
    BY <1>1 DEF TransportStep
  <1> QED
    BY Zenon, <1>2 DEF Trail

\* The worker's transactions on an execution, the process rows apart: drive.rs.
LEMMA WorkerTrail ==
    ASSUME NodeInv, JournalInv, TypesInv, TrailInv,
           \/ MakeDirectory \/ RecordDirectory \/ ContinueClone \/ SettleClone
           \/ FailClone \/ RemoveTransport
    PROVE  TrailInv'
  <1> USE DEF journal, progress, files
  <1>1. work # Idle /\ UNCHANGED <<attempts, runs, fetched>>
    BY Zenon DEF MakeDirectory, RecordDirectory, ContinueClone, SettleClone, FailClone, RemoveTransport,
           Working
  <1>2. work \in Works /\ flight = Idle /\ (work.todo # "remove" => Open(work.exec))
    BY Zenon, <1>1 DEF NodeInv, MemoryTypeOK, WorkInv
  <1>3. PICK e \in Execs : e = work.exec
    BY Zenon, <1>2 DEF Works
  <1> DEFINE a == attempts[e]
             u == runs[e]
             f == fetched[e]
             T == transports
  <1>4. /\ rec[e] \in Recs /\ rec[e].n \in Nat /\ f \in Nat
        /\ Journal(rec[e], a, u) /\ Trail(e, rec[e], a, u, f, T)
        /\ rec[e].phase = "Dispatched" => rec[e].n < WorkloadSteps
        /\ rec[e].phase = "Fetching" => rec[e].n <= MaxFetches
        /\ WorkloadSteps \in Nat /\ TransportStep + 1 < WorkloadSteps /\ MaxFetches \in Nat \ {0}
    BY Zenon, TrailFacts
  <1>5. WorkJournal(work, rec[e], a, u) /\ WorkTrail(work, rec[e], a)
    BY Zenon, <1>1, <1>3 DEF JournalInv, TrailInv
  <1> HIDE DEF a, u, f, T
  \* A record is written, or none.
  <1>6. ASSUME NEW r, rec' = [rec EXCEPT ![e] = r], transports' = T, Trail(e, r, a, u, f, T),
               flight' = Idle \/ (flight'.exec = e /\ FlightTrail(flight', r, a, f, T)),
               work' = Idle \/ (work'.exec = e /\ WorkTrail(work', r, a))
        PROVE  TrailInv'
    BY Zenon, <1>1, <1>6, TrailWrite DEF a, u, f, T
  <1>7. ASSUME Uncertain(e), transports' = T, Open(e) PROVE TrailInv'
    <2>1. rec' = [rec EXCEPT ![e] = [rec[e] EXCEPT !.mode = "Unknown"]]
      BY Zenon, <1>7, RecordWrites DEF Uncertain
    <2>2. work' = Idle /\ flight' = Idle
      BY Zenon, <1>2, <1>7 DEF Uncertain, Rests
    <2>3. rec[e].mode # "Completed"
      BY Zenon, <1>7 DEF Open
    <2>4. Trail(e, [rec[e] EXCEPT !.mode = "Unknown"], a, u, f, T)
      BY Zenon, <1>4, <2>3, TrailUnknown
    <2> QED
      BY Zenon, <1>6, <1>7, <2>1, <2>2, <2>4
  \* fail_clone begins.
  <1>8. ASSUME NEW kind, Fails(e, kind), rec' = rec, Verdict(rec[e], a, kind),
               rec[e].phase # "Dispatched" \/ Bad(u)
        PROVE  TrailInv'
    <2>1. transports' = T \ {e} /\ flight' = Idle /\ work' = Do(e, "fail", kind)
      BY Zenon, <1>2, <1>8 DEF Fails, Goes, T
    <2>2. Trail(e, rec[e], a, u, f, T \ {e})
      BY Zenon, <1>4, <1>8, TrailRemoved
    <2>3. Do(e, "fail", kind).exec = e /\ WorkTrail(Do(e, "fail", kind), rec[e], a)
      BY Zenon, <1>8 DEF WorkTrail, Do
    <2> QED
      BY Zenon, <1>1, <1>8, <2>1, <2>2, <2>3, SameRecord, TrailWrite DEF a, u, f, T
  <1>9. ASSUME NEW r, rec' = [rec EXCEPT ![e] = r], transports' = T, Trail(e, r, a, u, f, T),
               NEW todo, Goes(e, todo, ""), WorkTrail(Do(e, todo, ""), r, a)
        PROVE  TrailInv'
    <2>1. flight' = Idle /\ work' = Do(e, todo, "") /\ work'.exec = e
      BY Zenon, <1>2, <1>9 DEF Goes, Do
    <2> QED
      BY Zenon, <1>6, <1>9, <2>1
  <1>10. ASSUME NEW r, rec' = [rec EXCEPT ![e] = r], transports' = T, Trail(e, r, a, u, f, T),
                NEW kind, Submits(e, kind), FlightTrail(Submitted(e, kind), r, a, f, T)
         PROVE  TrailInv'
    <2>1. work' = Idle /\ flight' = Submitted(e, kind) /\ flight'.exec = e
      BY Zenon, <1>10, FlightFields DEF Submits
    <2> QED
      BY Zenon, <1>6, <1>10, <2>1
  <1>11. rec' = rec => rec' = [rec EXCEPT ![e] = rec[e]]
    BY Zenon, SameRecord
  <1>12. CASE MakeDirectory
    <2>1. rec[e].phase = "Reserved" /\ Open(e)
      BY Zenon, <1>2, <1>3, <1>12 DEF MakeDirectory, Working
    <2>2. CASE rec' = rec /\ Rests /\ transports' = T
      BY Zenon, <1>2, <1>4, <1>6, <1>11, <2>2 DEF Rests
    <2>3. CASE rec' = rec /\ Goes(e, "evidence", "") /\ transports' = T
      <3>1. WorkTrail(Do(e, "evidence", ""), rec[e], a)
        BY Zenon DEF WorkTrail, Do
      <3> QED
        BY Zenon, <1>4, <1>9, <1>11, <2>3, <3>1
    <2>4. Verdict(rec[e], a, "OperationFailed")
      BY Zenon, <2>1 DEF Verdict
    <2> QED
      BY Zenon, <1>3, <1>7, <1>8, <1>12, <2>1, <2>2, <2>3, <2>4 DEF MakeDirectory, T
  <1>13. CASE RecordDirectory
    <2>1. rec[e].phase = "Reserved" /\ Open(e) /\ transports' = T
      BY Zenon, <1>2, <1>3, <1>5, <1>13 DEF RecordDirectory, Working, WorkJournal, T
    <2>2. CASE Advance(e, "DirectoryCreated", 0) /\ Goes(e, "continue", "")
      <3> DEFINE q == Pending("DirectoryCreated", 0)
      <3>1. q.phase = "DirectoryCreated" /\ q.mode = "Pending" /\ rec' = [rec EXCEPT ![e] = q]
        BY Zenon, <2>2 DEF Pending, Advance
      <3> HIDE DEF q
      <3>2. Trail(e, q, a, u, f, T)
        BY Zenon, <1>4, <2>1, <3>1 DEF Trail
      <3>3. WorkTrail(Do(e, "continue", ""), q, a)
        BY Zenon, <3>1 DEF WorkTrail, Do
      <3> QED
        BY Zenon, <1>9, <2>1, <2>2, <3>1, <3>2, <3>3
    <2> QED
      BY Zenon, <1>3, <1>7, <1>13, <2>1, <2>2 DEF RecordDirectory
  <1>14. CASE ContinueClone
    <2>1. Open(e) /\ work.todo = "continue"
      BY Zenon, <1>2, <1>3, <1>14 DEF ContinueClone, Working
    <2>2. ASSUME NEW n \in Nat, CountFetch(e, n), transports' = T, f < n PROVE TrailInv'
      <3> DEFINE q == Pending("Fetching", n)
      <3>1. /\ q.phase = "Fetching" /\ q.mode = "Pending" /\ q.n = n
            /\ rec' = [rec EXCEPT ![e] = q] /\ Submits(e, "Fetch")
        BY Zenon, <2>2 DEF Pending, CountFetch, Advance
      <3> HIDE DEF q
      <3>2. Trail(e, q, a, u, f, T)
        BY <1>4, <2>2, <3>1 DEF Trail
      <3>3. FlightTrail(Submitted(e, "Fetch"), q, a, f, T)
        BY <2>2, <3>1, FlightFields DEF FlightTrail
      <3> QED
        BY Zenon, <1>10, <2>2, <3>1, <3>2, <3>3
    <2>3. CASE rec[e].phase = "Dispatched" /\ Goes(e, "dispatch", "") /\ rec' = rec /\ transports' = T
      <3>1. WorkTrail(Do(e, "dispatch", ""), rec[e], a)
        BY Zenon, <1>5, <2>1, <2>3 DEF WorkTrail, Do
      <3> QED
        BY Zenon, <1>4, <1>9, <1>11, <2>3, <3>1
    <2>4. CASE rec[e].phase = "DirectoryCreated" /\ CountFetch(e, 1) /\ transports' = T
      <3>1. f < 1
        BY <1>4, <2>4 DEF Trail
      <3> QED
        BY Zenon, <2>2, <2>4, <3>1
    <2>5. CASE rec[e].phase = "Fetching" /\ CountFetch(e, rec[e].n + 1) /\ transports' = T
      <3>1. f < rec[e].n + 1 /\ rec[e].n + 1 \in Nat
        BY <1>4, <2>5 DEF Trail
      <3> QED
        BY Zenon, <2>2, <2>5, <3>1
    <2>6. CASE rec[e].phase = "Fetching" /\ Fails(e, "SourceUnavailable") /\ rec' = rec
      <3>1. Verdict(rec[e], a, "SourceUnavailable")
        BY Zenon, <2>6 DEF Verdict
      <3> QED
        BY Zenon, <1>8, <2>6, <3>1
    <2>7. CASE Uncertain(e) /\ transports' = T
      BY Zenon, <1>7, <2>1, <2>7
    <2> QED
      BY Zenon, <1>3, <1>14, <2>3, <2>4, <2>5, <2>6, <2>7 DEF ContinueClone, T
  <1>15. CASE SettleClone
    <2>1. Open(e) /\ work.todo = "settle" /\ rec[e].mode # "Completed"
      BY Zenon, <1>2, <1>3, <1>15 DEF SettleClone, Working, Open
    <2>2. /\ Current(rec[e], a) /\ a[Len(a)].cleaned /\ work.with \in Ended \cup {"unverified"}
          /\ work.with \in Ended => a[Len(a)].ended = work.with
      BY Zenon, <1>5, <2>1 DEF WorkJournal, WorkTrail
    <2>3. /\ rec[e].phase = "Dispatched" /\ Len(a) = rec[e].n + 1 /\ Len(u) = Len(a)
          /\ Len(a) \in 1..Len(a)
      BY <1>4, <2>2 DEF Current, Journal
    <2>4. work.with \in Ended => u[Len(u)] = work.with
      <3>1. a[Len(a)].ended \in {"none", u[Len(a)]}
        BY Zenon, <1>4, <2>3 DEF Journal
      <3>2. "none" \notin Ended
        BY Zenon DEF Ended
      <3> QED
        BY Zenon, <2>2, <2>3, <3>1, <3>2
    <2>5. ASSUME NEW kind, Fails(e, kind), rec' = rec,
                 \/ kind = "Interrupted" /\ work.with = "signal"
                 \/ kind = "OperationFailed" /\ work.with = "fail"
          PROVE  TrailInv'
      <3>1. work.with \in Ended
        BY Zenon, <2>5 DEF Ended
      <3>2. Bad(u)
        BY <2>3, <2>4, <2>5, <3>1 DEF Bad
      <3>3. Verdict(rec[e], a, kind)
        BY Zenon, <2>2, <2>3, <2>5, <3>1 DEF Verdict
      <3> QED
        BY Zenon, <1>8, <2>5, <3>2, <3>3
    <2>6. CASE work.with = "zero" /\ Advance(e, "Dispatched", rec[e].n + 1) /\ Goes(e, "dispatch", "")
               /\ transports' = T
      <3> DEFINE q == Pending("Dispatched", rec[e].n + 1)
      <3>1. /\ q.phase = "Dispatched" /\ q.mode = "Pending" /\ q.n = rec[e].n + 1
            /\ rec' = [rec EXCEPT ![e] = q]
        BY Zenon, <2>6 DEF Pending, Advance
      <3> HIDE DEF q
      <3>2. a[Len(a)].ended = "zero" /\ u[Len(u)] = "zero"
        BY Zenon, <2>2, <2>4, <2>6 DEF Ended
      <3>3. \A i \in 1..q.n : a[i].ended = "zero" /\ a[i].cleaned
        <4> SUFFICES ASSUME NEW i \in 1..q.n PROVE a[i].ended = "zero" /\ a[i].cleaned
          BY Zenon
        <4>1. CASE i = Len(a)
          BY Zenon, <2>2, <3>2, <4>1
        <4>2. CASE i # Len(a)
          <5>1. i \in 1..rec[e].n
            BY <1>4, <2>3, <3>1, <4>2
          <5> QED
            BY Zenon, <1>4, <2>3, <5>1 DEF Trail
        <4> QED
          BY Zenon, <4>1, <4>2
      <3>4. q.n <= TransportStep => e \in T
        <4>1. q.n <= TransportStep => rec[e].n <= TransportStep
          BY <1>4, <3>1 DEF TransportStep
        <4>2. ~Bad(u)
          BY Zenon, <3>2 DEF Bad
        <4> QED
          BY Zenon, <1>4, <2>1, <2>3, <4>1, <4>2 DEF Trail
      <3>5. f \in 1..MaxFetches
        BY Zenon, <1>4, <2>3 DEF Trail
      <3>6. Trail(e, q, a, u, f, T)
        BY Zenon, <3>1, <3>3, <3>4, <3>5 DEF Trail
      <3>7. WorkTrail(Do(e, "dispatch", ""), q, a)
        BY Zenon, <2>3, <3>1 DEF WorkTrail, Do
      <3> QED
        BY Zenon, <1>9, <2>6, <3>1, <3>6, <3>7
    <2>7. CASE /\ work.with = "zero" /\ rec[e].n + 1 >= WorkloadSteps /\ Submits(e, "Inspect")
               /\ rec' = rec /\ transports' = T
      <3>1. Len(a) = WorkloadSteps
        BY <1>4, <2>3, <2>7
      <3>2. Verdict(rec[e], a, "Ready")
        BY Zenon, <2>2, <2>3, <2>7, <3>1 DEF Verdict, Ended
      <3>3. FlightTrail(Submitted(e, "Inspect"), rec[e], a, f, T)
        BY <2>3, <3>2, FlightFields DEF FlightTrail
      <3> QED
        BY Zenon, <1>4, <1>10, <1>11, <2>7, <3>3
    <2> QED
      BY Zenon, <1>3, <1>7, <1>15, <2>1, <2>5, <2>6, <2>7 DEF SettleClone, T
  <1>16. CASE FailClone
    <2>1. /\ work' = Idle /\ flight' = Idle /\ CompleteClone(e, Result(e, work.with)) /\ transports' = T
          /\ work.todo = "fail"
      BY Zenon, <1>2, <1>3, <1>16 DEF FailClone, Rests, Working, T
    <2>2. Result(e, work.with).kind = work.with
      BY Zenon DEF Result
    <2>3. Verdict(rec[e], a, Result(e, work.with).kind)
      BY Zenon, <1>5, <2>1, <2>2 DEF WorkTrail
    <2>4. PICK result : result = Result(e, work.with)
      BY Zenon
    <2>5. Trail(e, [rec[e] EXCEPT !.mode = "Completed", !.result = result], a, u, f, T)
      BY Zenon, <1>4, <2>3, <2>4, TrailCompleted
    <2>6. rec' = [rec EXCEPT ![e] = [rec[e] EXCEPT !.mode = "Completed", !.result = result]]
      BY Zenon, <2>1, <2>4, RecordWrites
    <2> QED
      BY Zenon, <1>6, <2>1, <2>5, <2>6
  <1>17. CASE RemoveTransport
    <2>1. /\ work' = Idle /\ flight' = Idle /\ rec' = rec /\ transports' = T \ {e}
          /\ work.todo = "remove"
      BY Zenon, <1>2, <1>3, <1>17 DEF RemoveTransport, Rests, Working, T
    <2>2. rec[e].mode = "Completed" \/ rec[e].n > TransportStep
      BY Zenon, <1>5, <2>1 DEF WorkTrail
    <2>3. Trail(e, rec[e], a, u, f, T \ {e})
      BY Zenon, <1>4, <2>2, TrailRemoved
    <2> QED
      BY Zenon, <1>1, <1>11, <2>1, <2>3, TrailWrite DEF a, u, f, T
  <1> QED
    BY Zenon, <1>12, <1>13, <1>14, <1>15, <1>16, <1>17

\* begin_clone, and the requests that write a record.
LEMMA BeginningsTrail ==
    ASSUME NodeInv, JournalInv, TypesInv, TrailInv, NEW e \in Execs,
           \/ RefuseReserved(e) \/ RefuseStarted(e) \/ BeginClone(e)
           \/ \E p : work = Idle /\ AcceptClone(e, p)
    PROVE  TrailInv'
  <1> USE DEF journal, progress, files
  <1>1. work = Idle /\ UNCHANGED <<attempts, runs, fetched>>
    BY Zenon DEF RefuseReserved, RefuseStarted, BeginClone, Takes, AcceptClone
  <1> DEFINE a == attempts[e]
             u == runs[e]
             f == fetched[e]
             T == transports
  <1>2. rec[e] \in Recs /\ Journal(rec[e], a, u) /\ Trail(e, rec[e], a, u, f, T)
    BY Zenon, TrailFacts
  <1> HIDE DEF a, u, f, T
  <1>3. ASSUME Takes(e) PROVE flight = Idle /\ Open(e)
    BY Zenon, <1>3 DEF Takes, NodeInv, RecordsInv, Open
  <1>4. ASSUME rec' = rec, transports' = T, flight' = Idle,
               work' = Idle \/ (work'.exec = e /\ WorkTrail(work', rec[e], a))
        PROVE  TrailInv'
    BY Zenon, <1>1, <1>2, <1>4, SameRecord, TrailWrite DEF a, u, f, T
  <1>5. CASE RefuseReserved(e)
    <2>1. /\ flight' = Idle /\ work' = Idle /\ transports' = T /\ rec[e].phase = "Reserved"
          /\ CompleteClone(e, Result(e, "OperationFailed"))
      BY Zenon, <1>3, <1>5 DEF RefuseReserved, Rests, T
    <2>2. PICK result : result = Result(e, "OperationFailed")
      BY Zenon
    <2>3. Verdict(rec[e], a, result.kind)
      BY Zenon, <2>1, <2>2 DEF Verdict, Result
    <2>4. Trail(e, [rec[e] EXCEPT !.mode = "Completed", !.result = result], a, u, f, T)
      BY Zenon, <1>2, <2>3, TrailCompleted
    <2>5. rec' = [rec EXCEPT ![e] = [rec[e] EXCEPT !.mode = "Completed", !.result = result]]
      BY Zenon, <2>1, <2>2, RecordWrites
    <2> QED
      BY Zenon, <1>1, <2>1, <2>4, <2>5, TrailWrite DEF a, u, f, T
  <1>6. CASE RefuseStarted(e)
    <2>1. flight = Idle /\ rec' = rec /\ rec[e].phase # "Dispatched"
      BY Zenon, <1>3, <1>6 DEF RefuseStarted
    <2>2. CASE Fails(e, "OperationFailed")
      <3>1. /\ transports' = T \ {e} /\ flight' = Idle
            /\ work' = Do(e, "fail", "OperationFailed") /\ work'.exec = e
        BY Zenon, <2>1, <2>2 DEF Fails, Goes, Do, T
      <3>2. WorkTrail(Do(e, "fail", "OperationFailed"), rec[e], a)
        BY Zenon, <2>1 DEF WorkTrail, Do, Verdict
      <3>3. Trail(e, rec[e], a, u, f, T \ {e})
        BY Zenon, <1>2, <2>1, TrailRemoved
      <3> QED
        BY Zenon, <1>1, <2>1, <3>1, <3>2, <3>3, SameRecord, TrailWrite DEF a, u, f, T
    <2>3. CASE Rests /\ transports' = T
      BY Zenon, <1>4, <2>1, <1>1, <2>3 DEF Rests
    <2> QED
      BY Zenon, <1>6, <2>2, <2>3 DEF RefuseStarted, T
  <1>7. CASE BeginClone(e)
    <2>1. flight = Idle /\ rec' = rec /\ transports' = T
      BY Zenon, <1>3, <1>7 DEF BeginClone, T
    <2>2. CASE Goes(e, "continue", "") /\ (rec[e].phase = "Dispatched" => Len(a) = rec[e].n)
      <3>1. flight' = Idle /\ work' = Do(e, "continue", "") /\ work'.exec = e
        BY Zenon, <2>1, <2>2 DEF Goes, Do
      <3>2. WorkTrail(Do(e, "continue", ""), rec[e], a)
        BY Zenon, <2>2 DEF WorkTrail, Do
      <3> QED
        BY Zenon, <1>4, <2>1, <3>1, <3>2
    <2>3. CASE Rests
      BY Zenon, <1>1, <1>4, <2>1, <2>3 DEF Rests
    <2>4. CASE Submits(e, "Settle")
      <3>1. work' = Idle /\ flight' = Submitted(e, "Settle") /\ flight'.exec = e
        BY Zenon, <2>4, FlightFields DEF Submits
      <3>2. FlightTrail(Submitted(e, "Settle"), rec[e], a, f, T)
        BY FlightFields DEF FlightTrail
      <3> QED
        BY Zenon, <1>1, <1>2, <2>1, <3>1, <3>2, SameRecord, TrailWrite DEF a, u, f, T
    <2> QED
      BY Zenon, <1>7, <2>2, <2>3, <2>4 DEF BeginClone, a
  <1>8. ASSUME NEW p, work = Idle, AcceptClone(e, p) PROVE TrailInv'
    <2> DEFINE q == Pending("Reserved", 0)
    <2>1. rec' = [rec EXCEPT ![e] = q] /\ flight' = flight /\ work' = Idle /\ transports' = T
      BY Zenon, <1>8 DEF AcceptClone, T
    <2>2. rec[e].mode = "Absent"
      BY Zenon, <1>8, OpenStates DEF AcceptClone, Ledger!Accepts, NodeInv, MemoryTypeOK
    <2>3. f = 0
      BY Zenon, <1>2, <2>2 DEF Journal, Trail
    <2>4. q.phase = "Reserved" /\ q.mode = "Pending"
      BY Zenon DEF Pending
    <2> HIDE DEF q
    <2>5. Trail(e, q, a, u, f, T)
      BY Zenon, <2>3, <2>4 DEF Trail
    <2>6. flight' # Idle => flight' = flight /\ flight.exec # e
      BY Zenon, <2>1, <2>2 DEF NodeInv, FlightInv, Open
    <2> QED
      BY Zenon, <1>1, <2>1, <2>5, <2>6, TrailWrite DEF a, u, f, T
  <1> QED
    BY Zenon, <1>5, <1>6, <1>7, <1>8

\* resume_clone, the process rows apart.
LEMMA AnswersTrail ==
    ASSUME NodeInv, JournalInv, TypesInv, TrailInv, ResumeFetch \/ ResumeBackoff \/ FinishClone
    PROVE  TrailInv'
  <1> USE DEF journal, progress, files
  <1>1. work = Idle /\ flight # Idle /\ UNCHANGED <<attempts, runs, fetched>>
    BY Zenon DEF ResumeFetch, ResumeBackoff, FinishClone, Seen
  <1>2. flight \in Flights /\ Open(flight.exec)
    BY Zenon, <1>1 DEF NodeInv, MemoryTypeOK, FlightInv
  <1>3. PICK e \in Execs : e = flight.exec
    BY Zenon, <1>2 DEF Flights
  <1> DEFINE a == attempts[e]
             u == runs[e]
             f == fetched[e]
             T == transports
  <1>4. /\ rec[e] \in Recs /\ rec[e].n \in Nat /\ f \in Nat
        /\ Journal(rec[e], a, u) /\ Trail(e, rec[e], a, u, f, T)
        /\ rec[e].phase = "Fetching" => rec[e].n <= MaxFetches
        /\ WorkloadSteps \in Nat /\ TransportStep + 1 < WorkloadSteps /\ MaxFetches \in Nat \ {0}
    BY Zenon, TrailFacts
  <1>5. FlightJournal(flight, rec[e], a, u) /\ FlightTrail(flight, rec[e], a, f, T)
    BY Zenon, <1>1, <1>3 DEF JournalInv, TrailInv
  <1>6. rec[e].mode # "Completed"
    BY Zenon, <1>2, <1>3 DEF Open
  <1> HIDE DEF a, u, f, T
  <1>7. ASSUME NEW r, rec' = [rec EXCEPT ![e] = r], transports' = T, Trail(e, r, a, u, f, T),
               flight' = Idle, work' = Idle \/ (work'.exec = e /\ WorkTrail(work', r, a))
        PROVE  TrailInv'
    BY Zenon, <1>1, <1>7, TrailWrite DEF a, u, f, T
  <1>8. rec' = rec => rec' = [rec EXCEPT ![e] = rec[e]]
    BY Zenon, SameRecord
  <1>9. CASE ResumeFetch
    <2>1. rec[e].phase = "Fetching" /\ flight.kind = "Fetch" /\ flight.seen \notin {"none", "busy"}
      BY Zenon, <1>5, <1>9 DEF ResumeFetch, Seen, FlightJournal
    <2>2. CASE /\ flight.seen = "Ready" /\ Advance(e, "Dispatched", 0) /\ transports' = T
               /\ flight' = Idle /\ work' = Do(e, "dispatch", "")
      <3> DEFINE q == Pending("Dispatched", 0)
      <3>1. /\ q.phase = "Dispatched" /\ q.mode = "Pending" /\ q.n = 0
            /\ rec' = [rec EXCEPT ![e] = q]
        BY Zenon, <2>2 DEF Pending, Advance
      <3> HIDE DEF q
      <3>2. f > 0 /\ e \in T
        BY Zenon, <1>3, <1>5, <2>1, <2>2 DEF FlightTrail
      <3>3. f \in 1..MaxFetches
        BY <1>4, <2>1, <3>2 DEF Trail
      <3>4. Len(a) = 0
        BY Zenon, <1>4, <2>1 DEF Journal
      <3>5. Trail(e, q, a, u, f, T)
        BY <3>1, <3>2, <3>3 DEF Trail
      <3>6. work'.exec = e /\ WorkTrail(work', q, a)
        BY Zenon, <2>2, <3>1, <3>4 DEF WorkTrail, Do
      <3> QED
        BY Zenon, <1>7, <2>2, <3>1, <3>5, <3>6
    <2>3. CASE BecomesUnknown(e) /\ flight' = Idle /\ work' = work /\ transports' = T
      <3>1. rec' = [rec EXCEPT ![e] = [rec[e] EXCEPT !.mode = "Unknown"]]
        BY Zenon, <2>3, RecordWrites
      <3>2. Trail(e, [rec[e] EXCEPT !.mode = "Unknown"], a, u, f, T)
        BY Zenon, <1>4, <1>6, TrailUnknown
      <3> QED
        BY Zenon, <1>1, <1>7, <2>3, <3>1, <3>2
    <2>4. CASE /\ transports' = T \ {e} /\ flight' = Idle
               /\ work' = Do(e, "fail", "SnapshotUnavailable") /\ rec' = rec
      <3>1. Trail(e, rec[e], a, u, f, T \ {e})
        BY Zenon, <1>4, <2>1, TrailRemoved
      <3>2. work'.exec = e /\ WorkTrail(work', rec[e], a)
        BY Zenon, <2>1, <2>4 DEF WorkTrail, Do, Verdict
      <3> QED
        BY Zenon, <1>1, <1>8, <2>4, <3>1, <3>2, TrailWrite DEF a, u, f, T
    <2>5. CASE flight' = Submitted(e, "Backoff") /\ work' = work /\ rec' = rec /\ transports' = T
      <3>1. flight'.exec = e /\ FlightTrail(flight', rec[e], a, f, T)
        BY <2>5, FlightFields DEF FlightTrail
      <3> QED
        BY Zenon, <1>1, <1>4, <1>8, <2>5, <3>1, TrailWrite DEF a, u, f, T
    <2>6. CASE flight' = Idle /\ work' = Do(e, "continue", "") /\ rec' = rec /\ transports' = T
      <3>1. work'.exec = e /\ WorkTrail(work', rec[e], a)
        BY Zenon, <2>1, <2>6 DEF WorkTrail, Do
      <3> QED
        BY Zenon, <1>4, <1>7, <1>8, <2>6, <3>1
    <2>7. CASE flight' = Idle /\ work' = work /\ rec' = rec /\ transports' = T
      BY Zenon, <1>1, <1>4, <1>7, <1>8, <2>7
    <2> QED
      BY Zenon, <1>3, <1>9, <2>2, <2>3, <2>4, <2>5, <2>6, <2>7 DEF ResumeFetch, T
  <1>10. CASE ResumeBackoff
    <2>1. rec[e].phase = "Fetching" /\ rec' = rec /\ transports' = T /\ flight' = Idle
      BY Zenon, <1>5, <1>10 DEF ResumeBackoff, Seen, FlightJournal, T
    <2>2. work' # Idle => work' = Do(e, "continue", "")
      BY Zenon, <1>1, <1>3, <1>10 DEF ResumeBackoff
    <2>3. Do(e, "continue", "").exec = e /\ WorkTrail(Do(e, "continue", ""), rec[e], a)
      BY Zenon, <2>1 DEF WorkTrail, Do
    <2> QED
      BY Zenon, <1>4, <1>7, <1>8, <2>1, <2>2, <2>3
  <1>11. CASE FinishClone
    <2>1. /\ flight.kind = "Inspect" /\ transports' = T /\ flight' = Idle
          /\ work' = Do(e, "remove", "") /\ work'.exec = e /\ work'.todo = "remove"
      BY Zenon, <1>3, <1>11 DEF FinishClone, Seen, Do, T
    <2>2. rec[e].phase = "Dispatched" /\ Verdict(rec[e], a, "Ready")
      BY Zenon, <1>5, <2>1 DEF FlightTrail
    <2>3. rec[e].n > TransportStep
      BY <1>4, <2>2 DEF Verdict, Current, TransportStep
    <2>4. CASE BecomesUnknown(e)
      <3> DEFINE q == [rec[e] EXCEPT !.mode = "Unknown"]
      <3>1. rec' = [rec EXCEPT ![e] = q] /\ q.phase = "Dispatched" /\ q.n = rec[e].n
        BY Zenon, <1>4, <2>2, <2>4, RecordWrites DEF Recs
      <3>2. Trail(e, q, a, u, f, T)
        BY Zenon, <1>4, <1>6, TrailUnknown
      <3> HIDE DEF q
      <3>3. WorkTrail(work', q, a)
        BY Zenon, <2>1, <2>3, <3>1 DEF WorkTrail
      <3> QED
        BY Zenon, <1>7, <2>1, <3>1, <3>2, <3>3
    <2>5. CASE CompleteClone(e, Result(e, "Ready"))
      <3>1. PICK result : result = Result(e, "Ready")
        BY Zenon
      <3> DEFINE q == [rec[e] EXCEPT !.mode = "Completed", !.result = result]
      <3>2. Verdict(rec[e], a, result.kind)
        BY Zenon, <2>2, <3>1 DEF Result
      <3>3. Trail(e, q, a, u, f, T)
        BY Zenon, <1>4, <3>2, TrailCompleted
      <3>4. rec' = [rec EXCEPT ![e] = q] /\ q.mode = "Completed"
        BY Zenon, <1>4, <2>5, <3>1, RecordWrites DEF Recs
      <3> HIDE DEF q
      <3>5. WorkTrail(work', q, a)
        BY Zenon, <2>1, <3>4 DEF WorkTrail
      <3> QED
        BY Zenon, <1>7, <2>1, <3>3, <3>4, <3>5
    <2> QED
      BY Zenon, <1>3, <1>11, <2>4, <2>5 DEF FinishClone
  <1> QED
    BY Zenon, <1>9, <1>10, <1>11

\* ProcessJournal::record, persist_settlement and the cleanup that follows it.
LEMMA RowsTrail ==
    ASSUME NodeInv, JournalInv, TypesInv, TrailInv, DispatchStep \/ RecordEnding \/ RecordCleanup
    PROVE  TrailInv'
  <1> USE DEF journal, progress, files
  <1>1. UNCHANGED <<fetched, transports>>
    BY Zenon DEF DispatchStep, RecordEnding, RecordCleanup
  <1>2. ASSUME NEW e \in Execs, BecomesUnknown(e), Open(e), UNCHANGED <<attempts, runs>>,
               flight' = Idle, work' = Idle
        PROVE  TrailInv'
    <2>1. /\ rec[e] \in Recs /\ rec[e].mode # "Completed"
          /\ Trail(e, rec[e], attempts[e], runs[e], fetched[e], transports)
      BY Zenon, <1>2, TrailFacts DEF Open
    <2>2. rec' = [rec EXCEPT ![e] = [rec[e] EXCEPT !.mode = "Unknown"]]
      BY Zenon, <1>2, RecordWrites
    <2>3. Trail(e, [rec[e] EXCEPT !.mode = "Unknown"], attempts[e], runs[e], fetched[e], transports)
      BY Zenon, <2>1, TrailUnknown
    <2> QED
      BY Zenon, <1>1, <1>2, <2>2, <2>3, TrailWrite
  <1>3. CASE DispatchStep
    <2>1. work \in Works /\ flight = Idle /\ Open(work.exec) /\ work # Idle /\ work.todo = "dispatch"
      BY Zenon, <1>3 DEF NodeInv, MemoryTypeOK, WorkInv, DispatchStep, Working
    <2>2. PICK e \in Execs : e = work.exec
      BY Zenon, <2>1 DEF Works
    <2> DEFINE Drops == Uncertain(e) /\ UNCHANGED <<attempts, runs>>
    <2>3. CASE Drops
      BY Zenon, <1>2, <2>1, <2>2, <2>3 DEF Uncertain, Rests
    <2>4. CASE ~Drops
      <3> DEFINE a == attempts[e]
                 u == runs[e]
                 b == Append(a, [ended |-> "none", cleaned |-> FALSE])
                 v == Append(u, "unstarted")
      <3>1. /\ attempts' = [attempts EXCEPT ![e] = b] /\ runs' = [runs EXCEPT ![e] = v]
            /\ Submits(e, "Dispatch") /\ rec' = rec /\ Recordable(e)
        BY Zenon, <1>3, <2>2, <2>4 DEF DispatchStep
      <3>2. /\ rec[e].n \in Nat /\ Journal(rec[e], a, u)
            /\ Trail(e, rec[e], a, u, fetched[e], transports)
            /\ rec[e].phase = "Dispatched" /\ rec[e].mode # "Completed" /\ Len(a) = rec[e].n
        BY Zenon, <2>1, <2>2, <3>1, TrailFacts DEF JournalInv, WorkJournal, Open, Recordable
      <3>3. a \in Seq(Attempts) /\ Len(u) = Len(a)
        BY Zenon, <3>2 DEF Journal
      <3>4. \A i \in 1..rec[e].n : b[i] = a[i]
        BY <3>2, <3>3
      <3>5. attempts'[e] = b /\ runs'[e] = v
        BY Zenon, <3>1 DEF JournalInv
      <3>6. \A d \in Execs : d # e =>
              /\ rec'[d] = rec[d] /\ attempts'[d] = attempts[d] /\ runs'[d] = runs[d]
              /\ fetched'[d] = fetched[d] /\ (d \in transports' <=> d \in transports)
        BY <1>1, <3>1
      <3> HIDE DEF b, v
      <3>7. ~Bad(u)
        <4> SUFFICES ASSUME Len(u) > 0 PROVE u[Len(u)] \notin {"fail", "signal"}
          BY Zenon DEF Bad
        <4>1. Len(u) \in 1..rec[e].n /\ Len(u) \in 1..Len(a)
          BY <3>2, <3>3
        <4>2. a[Len(u)].ended = "zero" /\ a[Len(u)].ended \in {"none", u[Len(u)]}
          BY Zenon, <3>2, <4>1 DEF Trail, Journal
        <4> QED
          BY Zenon, <4>2
      <3>8. Trail(e, rec[e], b, v, fetched[e], transports)
        BY Zenon, <3>2, <3>4, <3>7 DEF Trail
      <3>9. Trail(e, rec'[e], attempts'[e], runs'[e], fetched'[e], transports')
        BY Zenon, <1>1, <3>1, <3>5, <3>8
      <3>10. work' = Idle /\ flight'.exec = e
             /\ FlightTrail(flight', rec'[e], attempts'[e], fetched'[e], transports')
        BY <3>1, FlightFields DEF Submits, FlightTrail
      <3> QED
        BY Zenon, <3>6, <3>9, <3>10, TrailStep
    <2> QED
      BY Zenon, <2>3, <2>4
  \* One row of the last Run changes.
  <1>4. ASSUME NEW e \in Execs, NEW row, Current(rec[e], attempts[e]), Open(e), rec' = rec,
               attempts' = [attempts EXCEPT ![e] = [attempts[e] EXCEPT ![Len(attempts[e])] = row]],
               runs' = runs, flight' = Idle, NEW with \in Ended \cup {"unverified"},
               with \in Ended => row.ended = with,
               work' = Do(e, "clean", with) \/ work' = Do(e, "settle", with)
        PROVE  TrailInv'
    <2> DEFINE a == attempts[e]
               b == [a EXCEPT ![Len(a)] = row]
    <2>1. /\ rec[e] \in Recs /\ rec[e].n \in Nat /\ rec[e].mode # "Completed"
          /\ Journal(rec[e], a, runs[e])
          /\ Trail(e, rec[e], a, runs[e], fetched[e], transports)
          /\ Len(a) = rec[e].n + 1
      BY Zenon, <1>4, TrailFacts DEF Open, Current
    <2>2. a \in Seq(Attempts)
      BY Zenon, <2>1 DEF Journal
    <2>3. Len(b) = Len(a) /\ b[Len(b)] = row /\ \A i \in 1..rec[e].n : b[i] = a[i]
      BY <2>1, <2>2
    <2>4. attempts'[e] = b
      BY Zenon, <1>4 DEF JournalInv
    <2>5. \A d \in Execs : d # e =>
            /\ rec'[d] = rec[d] /\ attempts'[d] = attempts[d] /\ runs'[d] = runs[d]
            /\ fetched'[d] = fetched[d] /\ (d \in transports' <=> d \in transports)
      BY <1>1, <1>4
    <2> HIDE DEF b
    <2>6. Trail(e, rec[e], b, runs[e], fetched[e], transports)
      BY Zenon, <2>1, <2>3 DEF Trail
    <2>7. Trail(e, rec'[e], attempts'[e], runs'[e], fetched'[e], transports')
      BY Zenon, <1>1, <1>4, <2>4, <2>6
    <2>8. work'.exec = e /\ WorkTrail(work', rec'[e], attempts'[e])
      <3>1. work'.exec = e /\ work'.todo \in {"clean", "settle"} /\ work'.with = with
        BY <1>4 DEF Do
      <3>2. with \in Ended => attempts'[e][Len(attempts'[e])].ended = with
        BY Zenon, <1>4, <2>3, <2>4
      <3> QED
        BY Zenon, <1>4, <3>1, <3>2 DEF WorkTrail
    <2>9. flight' = Idle
      BY Zenon, <1>4
    <2> QED
      BY Zenon, <2>5, <2>7, <2>8, <2>9, TrailStep
  <1>5. CASE RecordEnding
    <2>1. /\ work = Idle /\ flight # Idle /\ flight.kind \in {"Dispatch", "Settle"}
          /\ flight.seen \notin {"none", "busy"} /\ flight' = Idle /\ runs' = runs
      BY Zenon, <1>5 DEF RecordEnding, Seen
    <2>2. flight \in Flights /\ Open(flight.exec)
      BY Zenon, <2>1 DEF NodeInv, MemoryTypeOK, FlightInv
    <2>3. PICK e \in Execs : e = flight.exec
      BY Zenon, <2>2 DEF Flights
    <2> DEFINE a == attempts[e]
               n == Len(a)
    <2>4. /\ Journal(rec[e], a, runs[e]) /\ rec[e] \in Recs /\ Current(rec[e], a)
          /\ flight.seen \in Ended \cup {"error", "unverified"}
      BY Zenon, <2>1, <2>3, RecordWrites DEF JournalInv, FlightJournal
    <2> DEFINE Drops == BecomesUnknown(e) /\ UNCHANGED <<work, attempts>>
    <2>5. CASE Drops
      BY Zenon, <1>2, <2>1, <2>2, <2>3, <2>5
    <2>a. CASE flight.seen = "error"
      BY Zenon, <1>5, <2>3, <2>5, <2>a DEF RecordEnding
    <2>6. CASE flight.seen = "unverified" /\ ~Drops
      <3>1. UNCHANGED <<attempts, runs>> /\ work' = Do(e, "clean", "unverified") /\ rec' = rec
        BY Zenon, <1>5, <2>1, <2>3, <2>6 DEF RecordEnding
      <3>2. work'.exec = e /\ WorkTrail(work', rec[e], attempts[e])
        BY Zenon, <3>1 DEF WorkTrail, Do, Ended
      <3>3. Trail(e, rec[e], attempts[e], runs[e], fetched[e], transports)
        BY Zenon, TrailFacts
      <3> QED
        BY Zenon, <1>1, <2>1, <3>1, <3>2, <3>3, SameRecord, TrailWrite
    <2>7. CASE flight.seen \in Ended /\ ~Drops
      <3>1. /\ attempts' = [attempts EXCEPT ![e][n].ended = flight.seen] /\ rec' = rec
            /\ work' = Do(e, "clean", flight.seen)
        BY Zenon, <1>5, <2>1, <2>3, <2>7 DEF RecordEnding, Ended
      <3>2. PICK row : row = [a[n] EXCEPT !.ended = flight.seen]
        BY Zenon
      <3>3. attempts' = [attempts EXCEPT ![e] = [attempts[e] EXCEPT ![Len(attempts[e])] = row]]
        BY Zenon, <3>1, <3>2 DEF JournalInv
      <3>4. a \in Seq(Attempts) /\ n \in 1..Len(a)
        BY Zenon, <2>4, JournalShape
      <3>5. a[n] \in Attempts
        BY <3>4
      <3>6. row.ended = flight.seen
        BY Zenon, <3>2, <3>5 DEF Attempts
      <3> QED
        BY Zenon, <1>4, <2>1, <2>2, <2>3, <2>4, <2>7, <3>1, <3>3, <3>6
    <2> QED
      BY Zenon, <2>4, <2>5, <2>6, <2>7, <2>a
  <1>6. CASE RecordCleanup
    <2>1. work \in Works /\ flight = Idle /\ Open(work.exec) /\ work # Idle /\ work.todo = "clean"
      BY Zenon, <1>6 DEF NodeInv, MemoryTypeOK, WorkInv, RecordCleanup, Working
    <2>2. PICK e \in Execs : e = work.exec
      BY Zenon, <2>1 DEF Works
    <2> DEFINE a == attempts[e]
               n == Len(a)
    <2>3. /\ Journal(rec[e], a, runs[e]) /\ rec[e] \in Recs /\ Current(rec[e], a)
          /\ work.with \in Ended \cup {"unverified"} /\ (work.with \in Ended => a[n].ended = work.with)
      BY Zenon, <2>1, <2>2, RecordWrites DEF JournalInv, WorkJournal, TrailInv, WorkTrail
    <2>a. CASE Uncertain(e) /\ UNCHANGED attempts
      BY Zenon, <1>2, <1>6, <2>1, <2>2, <2>a DEF Uncertain, Rests, RecordCleanup
    <2>b. SUFFICES ASSUME ~(Uncertain(e) /\ UNCHANGED attempts) PROVE TrailInv'
      BY Zenon, <2>a
    <2>4. /\ attempts' = [attempts EXCEPT ![e][n].cleaned = TRUE] /\ rec' = rec /\ runs' = runs
          /\ flight' = Idle /\ work' = Do(e, "settle", work.with)
      BY Zenon, <1>6, <2>1, <2>2, <2>b DEF RecordCleanup, Goes
    <2>5. PICK row : row = [a[n] EXCEPT !.cleaned = TRUE]
      BY Zenon
    <2>6. attempts' = [attempts EXCEPT ![e] = [attempts[e] EXCEPT ![Len(attempts[e])] = row]]
      BY Zenon, <2>4, <2>5 DEF JournalInv
    <2>7. a \in Seq(Attempts) /\ n \in 1..Len(a)
      BY Zenon, <2>3, JournalShape
    <2>8. a[n] \in Attempts
      BY <2>7
    <2>9. row.ended = a[n].ended
      BY Zenon, <2>5, <2>8 DEF Attempts
    <2> QED
      BY Zenon, <1>4, <2>1, <2>2, <2>3, <2>4, <2>6, <2>9
  <1> QED
    BY Zenon, <1>3, <1>5, <1>6

\* An ending that is bad is not overwritten, so a Run that moves on at the host leaves
\* the trail.
LEMMA RunMovesTrail ==
    ASSUME NodeInv, JournalInv, TypesInv, TrailInv, NEW e \in Execs, NEW i \in 1..Len(runs[e]),
           NEW x \in RunStates, runs[e][i] \in Over => x = runs[e][i],
           runs' = [runs EXCEPT ![e][i] = x], UNCHANGED <<rec, attempts, work, fetched, transports>>,
           \/ flight' = flight
           \/ /\ flight # Idle /\ flight.kind \in {"Dispatch", "Settle"}
              /\ \E seen : flight' = [flight EXCEPT !.seen = seen]
    PROVE  TrailInv'
  <1> DEFINE u == runs[e]
             v == [u EXCEPT ![i] = x]
  <1>1. /\ rec[e] \in Recs /\ Journal(rec[e], attempts[e], u)
        /\ Trail(e, rec[e], attempts[e], u, fetched[e], transports)
    BY Zenon, TrailFacts
  <1>2. Len(v) = Len(u) /\ \A j \in 1..Len(u) : u[j] \in Over => v[j] = u[j]
    BY <1>1, RunKeeps
  <1>3. runs' = [runs EXCEPT ![e] = v]
    BY Zenon DEF JournalInv
  <1>4. runs'[e] = v /\ \A d \in Execs : d # e => runs'[d] = runs[d]
    BY Zenon, <1>3 DEF JournalInv
  <1> HIDE DEF v
  <1>5. Bad(u) => Bad(v)
    <2>1. u \in Seq(RunStates)
      BY Zenon, <1>1 DEF Journal
    <2>2. Len(u) > 0 => Len(u) \in 1..Len(u)
      BY <2>1
    <2> QED
      BY Zenon, <1>2, <2>2 DEF Bad, Over, Ended
  <1>6. Trail(e, rec[e], attempts[e], v, fetched[e], transports)
    BY Zenon, <1>1, <1>5 DEF Trail
  <1>7. \A d \in Execs : Trail(d, rec'[d], attempts'[d], runs'[d], fetched'[d], transports')
    BY Zenon, <1>4, <1>6 DEF TrailInv
  <1>8. flight' # Idle =>
          FlightTrail(flight', rec'[flight'.exec], attempts'[flight'.exec], fetched'[flight'.exec],
                      transports')
    <2>1. CASE flight' = flight
      BY Zenon, <2>1 DEF TrailInv
    <2>2. CASE flight # Idle /\ flight.kind \in {"Dispatch", "Settle"}
               /\ \E seen : flight' = [flight EXCEPT !.seen = seen]
      <3>1. flight'.kind = flight.kind
        BY Zenon, <2>2 DEF NodeInv, MemoryTypeOK, Flights
      <3> QED
        BY Zenon, <2>2, <3>1 DEF FlightTrail
    <2> QED
      BY Zenon, <2>1, <2>2
  <1>9. work' # Idle => WorkTrail(work', rec'[work'.exec], attempts'[work'.exec])
    BY Zenon DEF TrailInv
  <1> QED
    BY Zenon, <1>7, <1>8, <1>9 DEF TrailInv

\* The executor and the host.
LEMMA OutsideTrail ==
    ASSUME NodeInv, JournalInv, TypesInv, TrailInv,
           \/ Executing \/ RecoveryPass
           \/ \E e \in Execs : HostStarts(e) \/ RunEnds(e) \/ Disturb(e)
    PROVE  TrailInv'
  <1> USE DEF journal, progress, files
  <1>1. ASSUME UNCHANGED <<rec, attempts, runs, fetched, transports, flight, work>> PROVE TrailInv'
    BY Zenon, <1>1 DEF TrailInv
  <1>2. ASSUME NEW e \in Execs, HostStarts(e) \/ RunEnds(e) PROVE TrailInv'
    <2>1. PICK i \in DOMAIN runs[e], x \in RunStates :
             /\ runs[e][i] \in {"sent", "running"} /\ runs' = [runs EXCEPT ![e][i] = x]
             /\ UNCHANGED <<rec, attempts, work, flight, fetched, transports>>
      BY Zenon, <1>2 DEF HostStarts, RunEnds, RunStates
    <2>2. i \in 1..Len(runs[e])
      <3>1. runs[e] \in Seq(RunStates)
        BY Zenon DEF JournalInv
      <3> QED
        BY <3>1
    <2>3. runs[e][i] \notin Over
      BY Zenon, <2>1 DEF Over, Ended
    <2> QED
      BY Zenon, <2>1, <2>2, <2>3, RunMovesTrail
  <1>3. CASE SendStart \/ SettleRun
    <2>1. flight # Idle /\ flight.kind \in {"Dispatch", "Settle"}
      BY Zenon, <1>3 DEF SendStart, SettleRun, Outstanding
    <2>2. flight \in Flights
      BY Zenon, <2>1 DEF NodeInv, MemoryTypeOK
    <2>3. PICK e \in Execs : e = flight.exec
      BY Zenon, <2>2 DEF Flights
    <2> DEFINE i == Len(runs[e])
    <2>4. Journal(rec[e], attempts[e], runs[e]) /\ Current(rec[e], attempts[e]) /\ rec[e] \in Recs
      BY Zenon, <2>1, <2>3, RecordWrites DEF JournalInv, FlightJournal
    <2>5. runs[e] \in Seq(RunStates) /\ i \in 1..Len(runs[e])
      BY Zenon, <2>4, JournalShape
    <2>6. runs[e][i] \in RunStates
      BY <2>5
    <2>7. CASE SendStart
      <3>1. /\ runs[e][i] = "unstarted" /\ runs' = [runs EXCEPT ![e][i] = "sent"]
            /\ UNCHANGED <<rec, attempts, work, flight, fetched, transports>>
        BY Zenon, <2>3, <2>7 DEF SendStart
      <3>2. runs[e][i] \notin Over /\ "sent" \in RunStates
        BY Zenon, <3>1 DEF Over, Ended, RunStates
      <3> QED
        BY Zenon, <2>5, <3>1, <3>2, RunMovesTrail
    <2>8. CASE SettleRun
      <3>1. PICK x : x = Closed(runs[e][i])
        BY Zenon
      <3>2. x \in RunStates /\ (runs[e][i] \in Over => x = runs[e][i])
        BY Zenon, <2>6, <3>1, ClosedIsOver
      <3>3. runs' = runs \/ runs' = [runs EXCEPT ![e][i] = x]
        BY Zenon, <2>3, <2>8, <3>1 DEF SettleRun
      <3>4. PICK seen : flight' = [flight EXCEPT !.seen = seen]
        BY Zenon, <2>8 DEF SettleRun, Observes
      <3>5. UNCHANGED <<rec, attempts, work, fetched, transports>>
        BY Zenon, <2>8 DEF SettleRun, Observes
      <3>6. CASE runs' = [runs EXCEPT ![e][i] = x]
        BY Zenon, <2>1, <2>5, <3>2, <3>4, <3>5, <3>6, RunMovesTrail
      <3>7. CASE runs' = runs
        <4>1. flight'.kind = flight.kind
          BY Zenon, <2>2, <3>4 DEF Flights
        <4>2. FlightTrail(flight', rec[flight'.exec], attempts[flight'.exec], fetched[flight'.exec],
                          transports)
          BY Zenon, <2>1, <4>1 DEF FlightTrail
        <4> QED
          BY Zenon, <3>5, <3>7, <4>2 DEF TrailInv
      <3> QED
        BY Zenon, <3>3, <3>6, <3>7
    <2> QED
      BY Zenon, <1>3, <2>7, <2>8
  <1>4. CASE BeginFetch \/ EndFetch \/ EndBackoff \/ InspectClone
    <2>1. /\ flight # Idle /\ flight.kind \in {"Fetch", "Backoff", "Inspect"}
          /\ UNCHANGED <<rec, attempts, runs, work>>
      BY Zenon, <1>4 DEF BeginFetch, EndFetch, EndBackoff, InspectClone, Outstanding, Observes
    <2>2. flight \in Flights /\ work = Idle
      BY Zenon, <2>1 DEF NodeInv, MemoryTypeOK, WorkInv
    <2>3. PICK e \in Execs : e = flight.exec
      BY Zenon, <2>2 DEF Flights
    <2> DEFINE f == fetched[e]
    <2>4. /\ rec[e] \in Recs /\ rec[e].n \in Nat /\ f \in Nat
          /\ Trail(e, rec[e], attempts[e], runs[e], f, transports)
      BY Zenon, TrailFacts
    <2>5. /\ FlightJournal(flight, rec[e], attempts[e], runs[e])
          /\ FlightTrail(flight, rec[e], attempts[e], f, transports)
      BY Zenon, <2>1, <2>3 DEF JournalInv, TrailInv
    <2>6. ASSUME NEW seen, flight' = [flight EXCEPT !.seen = seen]
          PROVE  flight'.exec = e /\ flight'.kind = flight.kind /\ flight'.seen = seen
      BY Zenon, <2>2, <2>3, <2>6 DEF Flights
    <2>7. ASSUME fetched' = fetched, NEW seen, flight' = [flight EXCEPT !.seen = seen],
                 transports' \in {transports, transports \ {e}},
                 Trail(e, rec[e], attempts[e], runs[e], f, transports'),
                 FlightTrail(flight', rec[e], attempts[e], f, transports')
          PROVE  TrailInv'
      <3>1. flight'.exec = e
        BY Zenon, <2>6, <2>7
      <3> QED
        BY Zenon, <2>1, <2>2, <2>7, <3>1, SameRecord, TrailWrite
    <2>8. CASE BeginFetch
      <3>1. /\ flight.kind = "Fetch" /\ flight.seen = "none" /\ flight' = [flight EXCEPT !.seen = "busy"]
            /\ fetched' = [fetched EXCEPT ![e] = f + 1] /\ transports' = transports \cup {e}
        BY Zenon, <2>3, <2>8 DEF BeginFetch, Outstanding, Observes
      <3>2. f < rec[e].n /\ rec[e].phase = "Fetching"
        BY Zenon, <2>5, <3>1 DEF FlightTrail, FlightJournal
      <3>3. flight'.exec = e /\ flight'.kind = "Fetch" /\ flight'.seen = "busy"
        BY Zenon, <2>6, <3>1
      <3>4. fetched'[e] = f + 1 /\ \A d \in Execs : d # e => fetched'[d] = fetched[d]
        BY Zenon, <3>1 DEF TypesInv, OutsideTypes
      <3>5. Trail(e, rec[e], attempts[e], runs[e], f + 1, transports')
        <4>1. f + 1 <= rec[e].n
          BY <2>4, <3>2
        <4> QED
          BY Zenon, <2>4, <3>2, <4>1 DEF Trail
      <3>6. FlightTrail(flight', rec[e], attempts[e], f + 1, transports')
        <4>1. f + 1 > 0 /\ e \in transports'
          BY <2>4, <3>1
        <4> QED
          BY Zenon, <3>3, <4>1 DEF FlightTrail
      <3>7. /\ Trail(e, rec'[e], attempts'[e], runs'[e], fetched'[e], transports')
            /\ FlightTrail(flight', rec'[e], attempts'[e], fetched'[e], transports')
        BY Zenon, <2>1, <3>4, <3>5, <3>6
      <3>8. \A d \in Execs : d # e =>
              /\ rec'[d] = rec[d] /\ attempts'[d] = attempts[d] /\ runs'[d] = runs[d]
              /\ fetched'[d] = fetched[d] /\ (d \in transports' <=> d \in transports)
        BY Zenon, <2>1, <3>1, <3>4
      <3> QED
        BY Zenon, <2>1, <2>2, <3>3, <3>7, <3>8, TrailStep
    <2>9. CASE EndFetch
      <3>1. PICK seen \in {"Ready", "Failed", "Unavailable", "Stopped"} :
              /\ flight' = [flight EXCEPT !.seen = seen]
              /\ transports' = IF seen = "Ready" THEN transports ELSE transports \ {e}
        BY Zenon, <2>3, <2>9 DEF EndFetch, Observes
      <3>2. flight.kind = "Fetch" /\ flight.seen = "busy" /\ fetched' = fetched
        BY Zenon, <2>9 DEF EndFetch, Outstanding
      <3>3. f > 0 /\ e \in transports /\ rec[e].phase = "Fetching"
        BY Zenon, <2>3, <2>5, <3>2 DEF FlightTrail, FlightJournal
      <3>4. Trail(e, rec[e], attempts[e], runs[e], f, transports \ {e})
        BY Zenon, <2>4, <3>3, TrailRemoved
      <3>5. FlightTrail(flight', rec[e], attempts[e], f, transports')
        BY <2>6, <3>1, <3>2, <3>3 DEF FlightTrail
      <3> QED
        BY Zenon, <2>4, <2>7, <3>1, <3>2, <3>4, <3>5
    <2>10. CASE EndBackoff \/ InspectClone
      <3>1. PICK seen : flight' = [flight EXCEPT !.seen = seen]
        BY Zenon, <2>10 DEF EndBackoff, InspectClone, Observes
      <3>2. flight.kind \in {"Backoff", "Inspect"} /\ UNCHANGED <<fetched, transports>>
        BY Zenon, <2>10 DEF EndBackoff, InspectClone, Outstanding
      <3>3. FlightTrail(flight', rec[e], attempts[e], f, transports')
        BY Zenon, <2>5, <2>6, <3>1, <3>2 DEF FlightTrail
      <3> QED
        BY Zenon, <2>4, <2>7, <3>1, <3>2, <3>3
    <2> QED
      BY Zenon, <1>4, <2>8, <2>9, <2>10
  <1>5. CASE RecoveryPass
    BY Zenon, <1>1, <1>5 DEF RecoveryPass
  <1>6. CASE \E e \in Execs : HostStarts(e) \/ RunEnds(e) \/ Disturb(e)
    BY Zenon, <1>1, <1>2, <1>6 DEF Disturb
  <1> QED
    BY Zenon, <1>3, <1>4, <1>5, <1>6 DEF Executing

\* A process that ends, and the next one: what the workload still reads is kept.
LEMMA ProcessTrail ==
    ASSUME NodeInv, JournalInv, TypesInv, TrailInv, Stop \/ Exit \/ Crash
    PROVE  TrailInv'
  <1> USE DEF journal, progress, files
  <1>1. CASE Stop
    BY Zenon, <1>1 DEF Stop, TrailInv
  <1>2. ASSUME Restarts, NEW e \in Execs, NEW b, NEW v, Len(b) = Len(attempts[e]),
               Bad(runs[e]) => Bad(v),
               \A i \in 1..Len(attempts[e]) :
                  b[i].ended = attempts[e][i].ended /\ (attempts[e][i].cleaned => b[i].cleaned)
        PROVE  Trail(e, rec[e], b, v, fetched[e], transports')
    <2> DEFINE r == rec[e]
               a == attempts[e]
    <2>1. /\ r \in Recs /\ r.n \in Nat /\ Journal(r, a, runs[e])
          /\ Trail(e, r, a, runs[e], fetched[e], transports)
      BY Zenon, TrailFacts
    <2>2. Len(a) \in Nat /\ (r.phase = "Dispatched" => Len(a) \in {r.n, r.n + 1})
      BY Zenon, <2>1, JournalShape DEF Journal
    <2>3. r.mode \in {"Absent", "Pending", "Unknown", "Completed"}
      BY Zenon, <2>1 DEF Recs
    <2>4. r.mode = "Absent" => r.phase = "Reserved"
      BY Zenon, <2>1 DEF Journal
    <2>5. e \in transports /\ r.phase = "Dispatched" /\ r.mode # "Completed" /\ r.n <= TransportStep
            => e \in transports'
      BY Zenon, <1>2, <2>3, <2>4 DEF Restarts, ReadsTransport
    <2>6. r.phase = "Dispatched" => \A i \in 1..r.n : b[i].ended = "zero" /\ b[i].cleaned
      <3> SUFFICES ASSUME r.phase = "Dispatched", NEW i \in 1..r.n
                   PROVE  b[i].ended = "zero" /\ b[i].cleaned
        BY Zenon
      <3>1. i \in 1..Len(a)
        BY <2>1, <2>2
      <3>2. a[i].ended = "zero" /\ a[i].cleaned
        BY Zenon, <2>1 DEF Trail
      <3> QED
        BY Zenon, <1>2, <3>1, <3>2
    <2>7. ASSUME NEW kind, Verdict(r, a, kind) PROVE Verdict(r, b, kind)
      <3>1. CASE r.phase = "Dispatched"
        <4>1. Len(a) \in 1..Len(a)
          BY <2>1, <2>2, <2>7, <3>1 DEF Verdict, Current
        <4>2. b[Len(b)].ended = a[Len(a)].ended /\ (a[Len(a)].cleaned => b[Len(b)].cleaned)
          BY Zenon, <1>2, <4>1
        <4> QED
          BY Zenon, <1>2, <2>7, <3>1, <4>2 DEF Verdict, Current
      <3>2. CASE r.phase # "Dispatched"
        BY Zenon, <2>7, <3>2 DEF Verdict
      <3> QED
        BY Zenon, <3>1, <3>2
    <2>8. r.mode = "Completed" => Verdict(r, b, r.result.kind)
      BY Zenon, <2>1, <2>7 DEF Trail
    <2> HIDE DEF r
    <2>9. Trail(e, r, b, v, fetched[e], transports')
      BY Zenon, <1>2, <2>1, <2>5, <2>6, <2>8 DEF Trail
    <2> QED
      BY Zenon, <2>9 DEF r
  <1>3. ASSUME Restarts, \A e \in Execs : Trail(e, rec[e], attempts'[e], runs'[e], fetched[e], transports')
        PROVE  TrailInv'
    BY Zenon, <1>3 DEF Restarts, TrailInv
  <1>4. CASE Crash
    <2>1. Restarts /\ attempts' = attempts /\ runs' = runs
      BY Zenon, <1>4 DEF Crash
    <2>2. ASSUME NEW e \in Execs
          PROVE  Trail(e, rec[e], attempts'[e], runs'[e], fetched[e], transports')
      BY Zenon, <1>2, <2>1
    <2> QED
      BY Zenon, <1>3, <2>1, <2>2
  <1>5. CASE Exit
    <2>1. Restarts
      BY Zenon, <1>5 DEF Exit
    <2>2. ASSUME NEW e \in Execs
          PROVE  Trail(e, rec[e], attempts'[e], runs'[e], fetched[e], transports')
      <3> DEFINE a == attempts[e]
                 u == runs[e]
                 b == [i \in DOMAIN a |-> [a[i] EXCEPT !.cleaned = TRUE]]
                 v == [i \in DOMAIN u |-> IF a[i].cleaned THEN u[i] ELSE Closed(u[i])]
      <3>1. attempts'[e] = b /\ runs'[e] = v
        BY Zenon, <1>5 DEF Exit
      <3>2. Journal(rec[e], a, u) /\ rec[e] \in Recs
        BY Zenon, TrailFacts
      <3>3. /\ a \in Seq(Attempts) /\ u \in Seq(RunStates) /\ Len(u) = Len(a) /\ Len(a) \in Nat
            /\ DOMAIN a = 1..Len(a) /\ DOMAIN u = 1..Len(a)
        BY Zenon, <3>2, JournalShape
      <3>4. b \in Seq(Attempts) /\ v \in Seq(RunStates)
        BY Zenon, <3>2, ExitKeeps
      <3>5. DOMAIN b = 1..Len(a) /\ DOMAIN v = 1..Len(a)
        BY Zenon, <3>3
      <3>6. Len(b) = Len(a) /\ Len(v) = Len(u)
        BY <3>3, <3>4, <3>5
      <3>7. ASSUME NEW i \in 1..Len(a)
            PROVE  b[i].ended = a[i].ended /\ b[i].cleaned
        <4>1. a[i] \in Attempts
          BY <3>3
        <4>2. b[i] = [a[i] EXCEPT !.cleaned = TRUE]
          BY Zenon, <3>3
        <4> HIDE DEF b
        <4> QED
          BY Zenon, <4>1, <4>2 DEF Attempts
      <3>8. Bad(u) => Bad(v)
        <4> SUFFICES ASSUME Bad(u) PROVE Bad(v)
          BY Zenon
        <4>1. Len(u) \in 1..Len(a) /\ u[Len(u)] \in {"fail", "signal"}
          BY <3>3 DEF Bad
        <4>2. Closed(u[Len(u)]) = u[Len(u)]
          BY Zenon, <4>1 DEF Closed
        <4>3. v[Len(u)] = IF a[Len(u)].cleaned THEN u[Len(u)] ELSE Closed(u[Len(u)])
          BY Zenon, <3>3, <4>1
        <4> HIDE DEF v
        <4> QED
          BY Zenon, <3>6, <4>1, <4>2, <4>3 DEF Bad
      <3> HIDE DEF b, v
      <3>9. Trail(e, rec[e], b, v, fetched[e], transports')
        BY Zenon, <1>2, <2>1, <3>6, <3>7, <3>8
      <3> QED
        BY Zenon, <3>1, <3>9
    <2> QED
      BY Zenon, <1>3, <2>1, <2>2
  <1> QED
    BY Zenon, <1>1, <1>4, <1>5

\* Every step keeps the trail.
LEMMA TrailSteps == NodeInv /\ JournalInv /\ TypesInv /\ TrailInv /\ [Next]_vars => TrailInv'
  <1> SUFFICES ASSUME NodeInv, JournalInv, TypesInv, TrailInv, [Next]_vars PROVE TrailInv'
    BY Zenon
  <1>1. CASE HandleRequest
    <2>1. CASE \E b \in Ledger!Bindings : BindRuntime(b)
      BY Zenon, <2>1 DEF BindRuntime, TrailInv, journal, progress, files
    <2>2. CASE \E e \in Execs : Acknowledge(e)
      BY Zenon, <2>2 DEF Acknowledge, TrailInv, journal, files
    <2>3. CASE \E e \in Execs, p \in Ledger!Permits \cup {None} : AcceptClone(e, p)
      BY Zenon, <1>1, <2>3, BeginningsTrail DEF HandleRequest
    <2> QED
      BY Zenon, <1>1, <2>1, <2>2, <2>3 DEF HandleRequest
  <1>2. CASE RecoveryPass \/ Executing
    BY Zenon, <1>2, OutsideTrail
  <1>3. CASE Starting
    BY Zenon, <1>3, BeginningsTrail DEF Starting
  <1>4. CASE Handling
    BY Zenon, <1>4, WorkerTrail, AnswersTrail, RowsTrail DEF Handling
  <1>5. CASE \E e \in Execs : HostStarts(e) \/ RunEnds(e) \/ Disturb(e)
    BY Zenon, <1>5, OutsideTrail
  <1>6. CASE Stop \/ Exit \/ Crash
    BY Zenon, <1>6, ProcessTrail
  <1>7. CASE UNCHANGED vars
    BY Zenon, <1>7 DEF vars, journal, progress, files, TrailInv
  <1> QED
    BY Zenon, <1>1, <1>2, <1>3, <1>4, <1>5, <1>6, <1>7 DEF Next

\* A new home has fetched nothing.
LEMMA TrailStarts == Init => TrailInv
  <1> SUFFICES ASSUME Init PROVE TrailInv
    BY Zenon
  <1>1. /\ rec = [e \in Execs |-> Absent] /\ fetched = [e \in Execs |-> 0]
        /\ flight = Idle /\ work = Idle
    BY Zenon DEF Init
  <1>2. ASSUME NEW e \in Execs PROVE Trail(e, Absent, attempts[e], runs[e], 0, transports)
    BY Zenon DEF Trail, Absent
  <1> QED
    BY Zenon, <1>1, <1>2 DEF TrailInv

-----------------------------------------------------------------------------
(* Directories.                                                             *)

\* A record r of an execution, beside its directory, its permit p and runtime control c.
Residue(r, dir, p, c) ==
    /\ r.mode = "Absent" => dir = "none"
    /\ r.phase # "Reserved" => dir # "none"
    /\ r.mode = "Completed" =>
          IF r.result.residual = "Retained" THEN dir # "none"
          ELSE dir # "none" => c /\ (p = None \/ p.inc # r.result.node)

\* Only what was licensed made a directory; the worker records one that is there, and
\* fails a reserved execution only while there is none.
ResidueInv ==
    /\ \A e \in Execs :
          /\ Residue(rec[e], dirs[e], permit[e], controlled)
          /\ dirs[e] # "none" => e \in started \/ permit[e] = None
    /\ work # Idle =>
          /\ work.todo = "evidence" => dirs[work.exec] # "none"
          /\ work.todo = "fail" /\ rec[work.exec].phase = "Reserved" => dirs[work.exec] = "none"

\* The worker rests, or goes on with neither a record of a directory nor a failure.
Proceeds(e) == work' = Idle \/ (work'.exec = e /\ work'.todo \notin {"evidence", "fail"})

LEMMA DoProceeds ==
    ASSUME NEW e, NEW with, NEW todo \in {"continue", "dispatch", "clean", "settle", "remove"},
           work' = Do(e, todo, with)
    PROVE  Proceeds(e)
  BY DEF Proceeds, Do

\* One record is written, and the worker goes on with that execution or rests.
LEMMA ResidueWrite ==
    ASSUME NodeInv, TypesInv, ResidueInv, NEW e \in Execs, NEW r, NEW dir,
           rec' = [rec EXCEPT ![e] = r], dirs' = [dirs EXCEPT ![e] = dir],
           UNCHANGED <<controlled, permit, started>>,
           Residue(r, dir, permit[e], controlled),
           dir # "none" => e \in started \/ permit[e] = None,
           work' # Idle =>
              /\ work'.exec = e
              /\ work'.todo = "evidence" => dir # "none"
              /\ work'.todo = "fail" /\ r.phase = "Reserved" => dir = "none"
    PROVE  ResidueInv'
  <1>1. rec \in [Execs -> Recs] /\ dirs \in [Execs -> {"none", "ours", "other"}]
    BY Zenon DEF NodeInv, MemoryTypeOK, TypesInv, OutsideTypes
  <1>2. rec'[e] = r /\ dirs'[e] = dir
    BY Zenon, <1>1
  <1>3. \A d \in Execs : d # e => rec'[d] = rec[d] /\ dirs'[d] = dirs[d]
    BY Zenon, <1>1
  <1>4. ASSUME NEW d \in Execs
        PROVE  /\ Residue(rec'[d], dirs'[d], permit'[d], controlled')
               /\ dirs'[d] # "none" => d \in started' \/ permit'[d] = None
    <2>1. CASE d = e
      BY Zenon, <1>2, <2>1
    <2>2. CASE d # e
      BY Zenon, <1>3, <2>2 DEF ResidueInv
    <2> QED
      BY Zenon, <2>1, <2>2
  <1>5. ASSUME work' # Idle
        PROVE  /\ work'.todo = "evidence" => dirs'[work'.exec] # "none"
               /\ work'.todo = "fail" /\ rec'[work'.exec].phase = "Reserved" => dirs'[work'.exec] = "none"
    BY Zenon, <1>2, <1>5
  <1> QED
    BY Zenon, <1>4, <1>5 DEF ResidueInv

\* No record and no directory changes.
LEMMA ResidueStays ==
    ASSUME ResidueInv, UNCHANGED <<rec, dirs, permit>>, started \subseteq started', controlled => controlled',
           \/ work' = work \/ work' = Idle
           \/ work'.todo \notin {"evidence", "fail"}
           \/ work'.todo = "fail" /\ rec[work'.exec].phase # "Reserved"
    PROVE  ResidueInv'
  <1>1. ASSUME NEW d \in Execs
        PROVE  /\ Residue(rec'[d], dirs'[d], permit'[d], controlled')
               /\ dirs'[d] # "none" => d \in started' \/ permit'[d] = None
    <2>1. Residue(rec[d], dirs[d], permit[d], controlled)
      BY Zenon DEF ResidueInv
    <2>2. Residue(rec[d], dirs[d], permit[d], controlled')
      BY Zenon, <2>1 DEF Residue
    <2> QED
      BY Zenon, <2>2 DEF ResidueInv
  <1>2. ASSUME work' # Idle
        PROVE  /\ work'.todo = "evidence" => dirs'[work'.exec] # "none"
               /\ work'.todo = "fail" /\ rec'[work'.exec].phase = "Reserved" => dirs'[work'.exec] = "none"
    <2>1. CASE work' = work
      BY Zenon, <1>2, <2>1 DEF ResidueInv
    <2>2. CASE work'.todo \notin {"evidence", "fail"}
      BY Zenon, <2>2
    <2>3. CASE work'.todo = "fail" /\ rec[work'.exec].phase # "Reserved"
      BY Zenon, <2>3
    <2> QED
      BY Zenon, <1>2, <2>1, <2>2, <2>3
  <1> QED
    BY Zenon, <1>1, <1>2 DEF ResidueInv

\* unknown_clone, advance_clone over a directory that is there, and complete_clone.
LEMMA ResidueWrites ==
    ASSUME NodeInv, TypesInv, ResidueInv, NEW e \in Execs, Open(e), dirs' = dirs,
           UNCHANGED <<controlled, permit, started>>,
           Proceeds(e)
    PROVE  /\ BecomesUnknown(e) => ResidueInv'
           /\ \A phase, n : Advance(e, phase, n) /\ dirs[e] # "none" => ResidueInv'
           /\ \A kind : /\ CompleteClone(e, Result(e, kind))
                        /\ rec[e].phase = "Reserved" /\ dirs[e] # "none" =>
                              controlled /\ (permit[e] = None \/ permit[e].inc # inc)
                        => ResidueInv'
  <1>1. /\ rec[e] \in Recs /\ dirs' = [dirs EXCEPT ![e] = dirs[e]]
        /\ rec[e].mode \in {"Pending", "Unknown"}
    BY Zenon, RecordWrites DEF TypesInv, OutsideTypes, Open
  <1>2. /\ Residue(rec[e], dirs[e], permit[e], controlled)
        /\ dirs[e] # "none" => e \in started \/ permit[e] = None
    BY Zenon DEF ResidueInv
  <1>3. ASSUME NEW r, rec' = [rec EXCEPT ![e] = r], Residue(r, dirs[e], permit[e], controlled)
        PROVE  ResidueInv'
    <2>1. work' # Idle => work'.exec = e /\ work'.todo \notin {"evidence", "fail"}
      BY Zenon DEF Proceeds
    <2> QED
      BY Zenon, <1>1, <1>2, <1>3, <2>1, ResidueWrite
  <1>4. ASSUME BecomesUnknown(e) PROVE ResidueInv'
    <2>1. PICK r : r = [rec[e] EXCEPT !.mode = "Unknown"]
      BY Zenon
    <2>2. r.mode = "Unknown" /\ r.phase = rec[e].phase
      BY Zenon, <1>1, <2>1 DEF Recs
    <2>3. Residue(r, dirs[e], permit[e], controlled)
      BY Zenon, <1>2, <2>2 DEF Residue
    <2> QED
      BY Zenon, <1>3, <1>4, <2>1, <2>3, RecordWrites
  <1>5. ASSUME NEW phase, NEW n, Advance(e, phase, n), dirs[e] # "none" PROVE ResidueInv'
    <2>1. Pending(phase, n).mode = "Pending"
      BY Zenon DEF Pending
    <2>2. Residue(Pending(phase, n), dirs[e], permit[e], controlled)
      BY Zenon, <1>5, <2>1 DEF Residue
    <2> QED
      BY Zenon, <1>3, <1>5, <2>2 DEF Advance
  <1>6. ASSUME NEW kind, CompleteClone(e, Result(e, kind)),
               rec[e].phase = "Reserved" /\ dirs[e] # "none" =>
                  controlled /\ (permit[e] = None \/ permit[e].inc # inc)
        PROVE  ResidueInv'
    <2>1. PICK q : q = Result(e, kind)
      BY Zenon
    <2>2. PICK r : r = [rec[e] EXCEPT !.mode = "Completed", !.result = q]
      BY Zenon
    <2>3. r.mode = "Completed" /\ r.phase = rec[e].phase /\ r.result = q
      BY Zenon, <1>1, <2>2 DEF Recs
    <2>4. /\ q.node = inc
          /\ q.residual = IF rec[e].phase = "Reserved" THEN "NoDirectory" ELSE "Retained"
      BY Zenon, <2>1 DEF Result
    <2>5. Residue(r, dirs[e], permit[e], controlled)
      BY Zenon, <1>2, <1>6, <2>3, <2>4 DEF Residue
    <2>6. rec' = [rec EXCEPT ![e] = r]
      BY Zenon, <1>6, <2>1, <2>2, RecordWrites
    <2> QED
      BY Zenon, <1>3, <2>5, <2>6
  <1> QED
    BY Zenon, <1>4, <1>5, <1>6

\* The worker's transactions: drive.rs.
LEMMA WorkerResidue ==
    ASSUME NodeInv, JournalInv, TypesInv, ResidueInv, Handling
    PROVE  ResidueInv'
  <1> USE DEF journal, progress, files, control
  <1>1. ASSUME work # Idle, work.todo # "remove"
        PROVE  work.exec \in Execs /\ Open(work.exec) /\ flight = Idle
    BY Zenon, <1>1 DEF NodeInv, MemoryTypeOK, WorkInv, Works
  <1>2. ASSUME flight # Idle PROVE flight.exec \in Execs /\ Open(flight.exec)
    BY Zenon, <1>2 DEF NodeInv, MemoryTypeOK, FlightInv, Flights
  <1>3. UNCHANGED <<controlled, permit, started>>
    BY Zenon DEF Handling, MakeDirectory, RecordDirectory, ContinueClone, DispatchStep, SettleClone,
                 FailClone, RemoveTransport, ResumeFetch, ResumeBackoff, RecordEnding, RecordCleanup,
                 FinishClone
  <1>4. \A e : Matches(e) => dirs[e] # "none"
    BY Zenon DEF Matches
  \* Nothing is written.
  <1>6. ASSUME rec' = rec, dirs' = dirs,
               \/ work' = work
               \/ \E e : Proceeds(e)
               \/ \E e, with : work' = Do(e, "fail", with) /\ rec[e].phase # "Reserved"
        PROVE  ResidueInv'
    <2>1. \/ work' = work \/ work' = Idle
          \/ work'.todo \notin {"evidence", "fail"}
          \/ work'.todo = "fail" /\ rec[work'.exec].phase # "Reserved"
      BY <1>6 DEF Do, Proceeds
    <2> QED
      BY Zenon, <1>3, <1>6, <2>1, ResidueStays
  <1>7. CASE MakeDirectory
    <2>1. PICK e \in Execs : e = work.exec /\ Open(e) /\ Working("continue")
      BY Zenon, <1>1, <1>7 DEF MakeDirectory, Working
    <2>2. CASE Uncertain(e) /\ dirs' = dirs
      BY Zenon, <1>3, <2>1, <2>2, ResidueWrites DEF Uncertain, Rests, Proceeds
    <2>3. CASE dirs' = dirs /\ rec' = rec /\ work' = Idle
      BY Zenon, <1>6, <2>3 DEF Proceeds
    <2>4. CASE /\ dirs' = [dirs EXCEPT ![e] = "ours"] /\ rec' = rec /\ Goes(e, "evidence", "")
               /\ rec[e].mode = "Pending"
      <3>1. Licensed(e)
        BY Zenon, <2>1 DEF NodeInv, WorkInv, Working
      <3>2. Residue(rec[e], "ours", permit[e], controlled)
        BY Zenon, <2>4 DEF Residue
      <3>3. work' = Do(e, "evidence", "") /\ "ours" # "none" /\ "evidence" # "fail"
        BY Zenon, <2>4 DEF Goes
      <3>4. "ours" # "none" => e \in started \/ permit[e] = None
        BY Zenon, <3>1 DEF Licensed
      <3>5. work'.exec = e /\ work'.todo = "evidence"
        BY <3>3 DEF Do
      <3> QED
        BY Zenon, <1>3, <2>4, <3>2, <3>3, <3>4, <3>5, SameRecord, ResidueWrite
    <2>5. CASE dirs[e] = "none" /\ dirs' = dirs /\ rec' = rec /\ work' = Do(e, "fail", "OperationFailed")
      <3>1. dirs' = [dirs EXCEPT ![e] = dirs[e]]
        BY Zenon, <2>5 DEF TypesInv, OutsideTypes
      <3>2. Residue(rec[e], dirs[e], permit[e], controlled)
        BY Zenon DEF ResidueInv
      <3>3. work'.exec = e /\ work'.todo = "fail"
        BY <2>5 DEF Do
      <3>4. dirs[e] # "none" => e \in started \/ permit[e] = None
        BY Zenon DEF ResidueInv
      <3> QED
        BY Zenon, <1>3, <2>5, <3>1, <3>2, <3>3, <3>4, SameRecord, ResidueWrite
    <2> QED
      BY Zenon, <1>7, <2>1, <2>2, <2>3, <2>4, <2>5 DEF MakeDirectory, Rests, Fails, Goes
  <1>8. CASE RecordDirectory
    <2>1. PICK e \in Execs : e = work.exec /\ Open(e) /\ Working("evidence")
      BY Zenon, <1>1, <1>8 DEF RecordDirectory, Working
    <2>2. dirs[e] # "none" /\ dirs' = dirs
      BY Zenon, <1>8, <2>1 DEF ResidueInv, Working, RecordDirectory
    <2>3. CASE Uncertain(e)
      BY Zenon, <1>3, <2>1, <2>2, <2>3, ResidueWrites DEF Uncertain, Rests, Proceeds
    <2>4. CASE Advance(e, "DirectoryCreated", 0) /\ Goes(e, "continue", "")
      <3>1. Proceeds(e)
        BY Zenon, <2>4, DoProceeds DEF Goes
      <3> QED
        BY Zenon, <1>3, <2>1, <2>2, <2>4, <3>1, ResidueWrites DEF Goes
    <2> QED
      BY Zenon, <1>8, <2>1, <2>3, <2>4 DEF RecordDirectory
  <1>9. CASE ContinueClone
    <2>1. PICK e \in Execs : e = work.exec /\ Open(e) /\ Working("continue")
      BY Zenon, <1>1, <1>9 DEF ContinueClone, Working
    <2>2. dirs' = dirs /\ rec[e].phase # "Reserved"
      BY Zenon, <1>9, <2>1 DEF ContinueClone
    <2>3. CASE Uncertain(e)
      BY Zenon, <1>3, <2>1, <2>2, <2>3, ResidueWrites DEF Uncertain, Rests, Proceeds
    <2>4. ASSUME NEW n, CountFetch(e, n), Matches(e) PROVE ResidueInv'
      BY Zenon, <1>3, <1>4, <2>1, <2>2, <2>4, ResidueWrites DEF CountFetch, Submits, Proceeds
    <2>5. CASE rec' = rec /\ \E with : Fails(e, with)
      BY Zenon, <1>6, <2>2, <2>5 DEF Fails, Goes
    <2>6. CASE rec' = rec /\ Goes(e, "dispatch", "")
      <3>1. Proceeds(e)
        BY Zenon, <2>6, DoProceeds DEF Goes
      <3> QED
        BY Zenon, <1>6, <2>2, <2>6, <3>1
    <2> QED
      BY Zenon, <1>9, <2>1, <2>3, <2>4, <2>5, <2>6 DEF ContinueClone
  <1>10. CASE DispatchStep
    <2>1. PICK e \in Execs : e = work.exec /\ Open(e)
      BY Zenon, <1>1, <1>10 DEF DispatchStep, Working
    <2>2. dirs' = dirs
      BY Zenon, <1>10 DEF DispatchStep
    <2>3. CASE Uncertain(e)
      BY Zenon, <1>3, <2>1, <2>2, <2>3, ResidueWrites DEF Uncertain, Rests, Proceeds
    <2>4. CASE rec' = rec /\ work' = Idle
      BY Zenon, <1>6, <2>2, <2>4 DEF Proceeds
    <2> QED
      BY Zenon, <1>10, <2>1, <2>3, <2>4 DEF DispatchStep, Submits
  <1>11. CASE SettleClone
    <2>1. PICK e \in Execs : e = work.exec /\ Open(e) /\ Working("settle")
      BY Zenon, <1>1, <1>11 DEF SettleClone, Working
    <2>2. dirs' = dirs /\ rec[e].phase # "Reserved"
      BY Zenon, <1>11, <2>1 DEF SettleClone, JournalInv, WorkJournal, Working, Current
    <2>3. CASE Uncertain(e)
      BY Zenon, <1>3, <2>1, <2>2, <2>3, ResidueWrites DEF Uncertain, Rests, Proceeds
    <2>4. ASSUME NEW n, Advance(e, "Dispatched", n), Goes(e, "dispatch", ""), Matches(e) PROVE ResidueInv'
      <3>1. Proceeds(e)
        BY Zenon, <2>4, DoProceeds DEF Goes
      <3> QED
        BY Zenon, <1>3, <1>4, <2>1, <2>2, <2>4, <3>1, ResidueWrites DEF Goes
    <2>5. CASE rec' = rec /\ work' = Idle
      BY Zenon, <1>6, <2>2, <2>5 DEF Proceeds
    <2>6. CASE rec' = rec /\ \E with : Fails(e, with)
      BY Zenon, <1>6, <2>2, <2>6 DEF Fails, Goes
    <2> QED
      BY Zenon, <1>11, <2>1, <2>3, <2>4, <2>5, <2>6 DEF SettleClone, Submits
  <1>12. CASE FailClone
    <2>1. PICK e \in Execs : e = work.exec /\ Open(e) /\ Working("fail")
      BY Zenon, <1>1, <1>12 DEF FailClone, Working
    <2>2. /\ dirs' = dirs /\ work' = Idle /\ CompleteClone(e, Result(e, work.with))
          /\ rec[e].phase = "Reserved" => dirs[e] = "none"
      BY Zenon, <1>12, <2>1 DEF FailClone, Rests, ResidueInv, Working
    <2> QED
      BY Zenon, <1>3, <2>1, <2>2, ResidueWrites DEF Proceeds
  <1>13. CASE RemoveTransport \/ ResumeBackoff
    <2>1. /\ rec' = rec /\ dirs' = dirs
          /\ \/ work' = work \/ work' = Idle
             \/ work' = Do(flight.exec, "continue", "")
      BY Zenon, <1>13 DEF RemoveTransport, ResumeBackoff, Rests
    <2>2. work' = work \/ \E e : Proceeds(e)
      BY Zenon, <2>1, DoProceeds DEF Proceeds
    <2> QED
      BY Zenon, <1>6, <2>1, <2>2
  <1>14. CASE ResumeFetch
    <2>1. work = Idle /\ flight # Idle /\ flight.kind = "Fetch" /\ dirs' = dirs
      BY Zenon, <1>14 DEF ResumeFetch, Seen
    <2>2. PICK e \in Execs : e = flight.exec /\ Open(e) /\ rec[e].phase # "Reserved"
      BY Zenon, <1>2, <2>1 DEF JournalInv, FlightJournal
    <2>3. CASE BecomesUnknown(e) /\ work' = work
      BY Zenon, <1>3, <2>1, <2>2, <2>3, ResidueWrites DEF Proceeds
    <2>4. CASE Matches(e) /\ Advance(e, "Dispatched", 0) /\ work' = Do(e, "dispatch", "")
      <3>1. Proceeds(e)
        BY Zenon, <2>4, DoProceeds
      <3> QED
        BY Zenon, <1>3, <1>4, <2>1, <2>2, <2>4, <3>1, ResidueWrites
    <2>5. CASE rec' = rec /\ (work' = work \/ work' = Do(e, "continue", ""))
      BY Zenon, <1>6, <2>1, <2>5, DoProceeds
    <2>6. CASE rec' = rec /\ work' = Do(e, "fail", "SnapshotUnavailable")
      BY Zenon, <1>6, <2>1, <2>2, <2>6
    <2> QED
      BY Zenon, <1>14, <2>2, <2>3, <2>4, <2>5, <2>6 DEF ResumeFetch
  <1>15. CASE RecordEnding
    <2>1. work = Idle /\ flight # Idle /\ dirs' = dirs
      BY Zenon, <1>15 DEF RecordEnding, Seen
    <2>2. PICK e \in Execs : e = flight.exec /\ Open(e)
      BY Zenon, <1>2, <2>1
    <2>3. CASE BecomesUnknown(e) /\ work' = work
      BY Zenon, <1>3, <2>1, <2>2, <2>3, ResidueWrites DEF Proceeds
    <2>4. CASE rec' = rec /\ work' = Do(e, "clean", flight.seen)
      <3>1. Proceeds(e)
        BY Zenon, <2>4, DoProceeds
      <3> QED
        BY Zenon, <1>6, <2>1, <2>4, <3>1
    <2> QED
      BY Zenon, <1>15, <2>2, <2>3, <2>4 DEF RecordEnding
  <1>16. CASE RecordCleanup
    <2>1. PICK e \in Execs : e = work.exec /\ Open(e)
      BY Zenon, <1>1, <1>16 DEF RecordCleanup, Working
    <2>2. dirs' = dirs
      BY Zenon, <1>16 DEF RecordCleanup
    <2>3. CASE Uncertain(e)
      BY Zenon, <1>3, <2>1, <2>2, <2>3, ResidueWrites DEF Uncertain, Rests, Proceeds
    <2>4. CASE rec' = rec /\ work' = Do(e, "settle", work.with)
      <3>1. Proceeds(e)
        BY Zenon, <2>4, DoProceeds
      <3> QED
        BY Zenon, <1>6, <2>2, <2>4, <3>1
    <2> QED
      BY Zenon, <1>16, <2>1, <2>3, <2>4 DEF RecordCleanup, Goes
  <1>17. CASE FinishClone
    <2>1. work = Idle /\ flight # Idle /\ dirs' = dirs
      BY Zenon, <1>17 DEF FinishClone, Seen
    <2>2. PICK e \in Execs : e = flight.exec /\ Open(e)
      BY Zenon, <1>2, <2>1
    <2>3. Proceeds(e)
      BY Zenon, <1>17, <2>2, DoProceeds DEF FinishClone
    <2>4. CASE BecomesUnknown(e)
      BY Zenon, <1>3, <2>1, <2>2, <2>3, <2>4, ResidueWrites
    <2>5. CASE CompleteClone(e, Result(e, "Ready"))
      <3>1. Result(e, "Ready").kind = "Ready"
        BY Zenon DEF Result
      <3>2. rec[e].phase = "Dispatched"
        BY Zenon, <2>5, <3>1 DEF CompleteClone, Attributable
      <3>3. rec[e].phase # "Reserved"
        BY Zenon, <3>2
      <3> QED
        BY Zenon, <1>3, <2>1, <2>2, <2>3, <2>5, <3>3, ResidueWrites
    <2> QED
      BY Zenon, <1>17, <2>2, <2>4, <2>5 DEF FinishClone
  <1> QED
    BY Zenon, <1>7, <1>8, <1>9, <1>10, <1>11, <1>12, <1>13, <1>14, <1>15, <1>16, <1>17 DEF Handling

\* begin_clone completes a reserved execution it may not start.  A directory is then there
\* only if an earlier process made it, before this one was not allowed to go on.
LEMMA BeginningsResidue ==
    ASSUME NodeInv, EpochsInv, LocalInv, TypesInv, ResidueInv, Starting
    PROVE  ResidueInv'
  <1> USE DEF journal, progress, files, control
  <1>1. PICK e \in Execs : RefuseReserved(e) \/ RefuseStarted(e) \/ BeginClone(e)
    BY Zenon DEF Starting
  <1>2. /\ work = Idle /\ e \in queue
        /\ UNCHANGED <<controlled, permit, dirs, binding, inc>>
    BY Zenon, <1>1 DEF RefuseReserved, RefuseStarted, BeginClone, Takes
  <1>4. CASE RefuseReserved(e)
    <2>1. /\ work' = Idle /\ started' = started /\ FALSE \in Ledger!MayStart(e)
          /\ CompleteClone(e, Result(e, "OperationFailed"))
      BY Zenon, <1>2, <1>4 DEF RefuseReserved, Rests
    <2>2. Open(e)
      BY Zenon, <1>2 DEF NodeInv, RecordsInv
    <2>3. dirs[e] # "none" => controlled /\ (permit[e] = None \/ permit[e].inc # inc)
      <3>1. ASSUME dirs[e] # "none" PROVE e \in started \/ permit[e] = None
        BY Zenon, <3>1 DEF ResidueInv
      <3>2. permit[e] = None => controlled
        BY Zenon, <2>1 DEF Ledger!MayStart, None, Ledger!None, NodeInv, MemoryTypeOK
      <3>3. permit[e] # None /\ e \in started => permit[e].inc # inc
        BY Zenon, <2>1 DEF Ledger!MayStart, None, Ledger!None
      <3>4. permit[e] # None => controlled
        BY Zenon, NoneIsNothing DEF EpochsInv, LocalInv
      <3> QED
        BY Zenon, <3>1, <3>2, <3>3, <3>4
    <2> QED
      BY Zenon, <1>2, <2>1, <2>2, <2>3, ResidueWrites DEF Proceeds
  <1>5. CASE RefuseStarted(e)
    <2>1. /\ started' = started /\ rec' = rec
          /\ work' = Idle \/ (rec[e].phase # "Reserved" /\ work' = Do(e, "fail", "OperationFailed"))
      BY Zenon, <1>2, <1>5 DEF RefuseStarted, Rests, Fails, Goes
    <2>2. work' = Idle \/ (work'.todo = "fail" /\ rec[work'.exec].phase # "Reserved")
      BY <2>1 DEF Do
    <2> QED
      BY Zenon, <1>2, <2>1, <2>2, ResidueStays
  <1>6. CASE BeginClone(e)
    <2>1. started \subseteq started' /\ rec' = rec
      BY Zenon, <1>6 DEF BeginClone, Starts
    <2>2. work' = Idle \/ work' = Do(e, "continue", "")
      BY Zenon, <1>6 DEF BeginClone, Rests, Goes, Submits
    <2>3. work' = Idle \/ work'.todo \notin {"evidence", "fail"}
      BY Zenon, <2>2, DoProceeds DEF Proceeds
    <2> QED
      BY Zenon, <1>2, <2>1, <2>3, ResidueStays
  <1> QED
    BY Zenon, <1>1, <1>4, <1>5, <1>6

\* Every step keeps the records and the directories in agreement.
LEMMA ResidueSteps ==
    ASSUME NodeInv, JournalInv, EpochsInv, LocalInv, TypesInv, ResidueInv, [Next]_vars
    PROVE  ResidueInv'
  <1> USE DEF journal, progress, files, control
  <1>1. CASE Handling
    BY Zenon, <1>1, WorkerResidue
  <1>2. CASE Starting
    BY Zenon, <1>2, BeginningsResidue
  <1>3. ASSUME NEW e \in Execs, NEW p, AcceptClone(e, p) PROVE ResidueInv'
    <2>1. /\ rec' = [rec EXCEPT ![e] = Pending("Reserved", 0)] /\ permit' = [permit EXCEPT ![e] = p]
          /\ UNCHANGED <<controlled, started, dirs, work>> /\ Shown[e].state = "Absent"
      BY Zenon, <1>3 DEF AcceptClone, Ledger!Accepts
    <2>2. rec[e].mode = "Absent"
      BY Zenon, <2>1, OpenStates DEF NodeInv, MemoryTypeOK
    <2>3. dirs[e] = "none"
      BY Zenon, <2>2 DEF ResidueInv, Residue
    <2>4. Pending("Reserved", 0).mode = "Pending" /\ Pending("Reserved", 0).phase = "Reserved"
      BY Zenon DEF Pending
    <2>5. /\ rec'[e] = Pending("Reserved", 0)
          /\ \A d \in Execs : d # e => rec'[d] = rec[d] /\ permit'[d] = permit[d]
      BY Zenon, <2>1 DEF NodeInv, MemoryTypeOK
    <2>6. ASSUME NEW d \in Execs
          PROVE  /\ Residue(rec'[d], dirs'[d], permit'[d], controlled')
                 /\ dirs'[d] # "none" => d \in started' \/ permit'[d] = None
      <3>1. CASE d = e
        BY Zenon, <2>1, <2>3, <2>4, <2>5, <3>1 DEF Residue
      <3>2. CASE d # e
        BY Zenon, <2>1, <2>5, <3>2 DEF ResidueInv
      <3> QED
        BY Zenon, <3>1, <3>2
    <2>7. work = Idle \/ work.exec # e \/ work.todo = "remove"
      BY Zenon, <2>2 DEF NodeInv, WorkInv, Open
    <2>8. work # Idle => work.exec \in Execs
      BY Zenon DEF NodeInv, MemoryTypeOK, Works
    <2>9. work # Idle =>
             /\ work.todo = "evidence" => dirs[work.exec] # "none"
             /\ work.todo = "fail" /\ rec'[work.exec].phase = "Reserved" => dirs[work.exec] = "none"
      BY Zenon, <2>5, <2>7, <2>8 DEF ResidueInv
    <2> QED
      BY Zenon, <2>1, <2>6, <2>9 DEF ResidueInv
  <1>4. ASSUME NEW e \in Execs, Disturb(e) PROVE ResidueInv'
    <2>1. /\ dirs' = [dirs EXCEPT ![e] = "other"] /\ UNCHANGED <<rec, controlled, permit, started, work>>
          /\ dirs[e] = "ours"
      BY Zenon, <1>4 DEF Disturb, Matches
    <2>2. \A d \in Execs : dirs'[d] = "none" <=> dirs[d] = "none"
      BY Zenon, <2>1 DEF TypesInv, OutsideTypes
    <2>3. ASSUME NEW d \in Execs
          PROVE  /\ Residue(rec'[d], dirs'[d], permit'[d], controlled')
                 /\ dirs'[d] # "none" => d \in started' \/ permit'[d] = None
      <3>1. Residue(rec[d], dirs[d], permit[d], controlled) /\ (dirs'[d] = "none" <=> dirs[d] = "none")
        BY Zenon, <2>2 DEF ResidueInv
      <3>2. Residue(rec[d], dirs'[d], permit[d], controlled)
        BY Zenon, <3>1 DEF Residue
      <3> QED
        BY Zenon, <2>1, <2>2, <3>2 DEF ResidueInv
    <2>4. work # Idle => work.exec \in Execs
      BY Zenon DEF NodeInv, MemoryTypeOK, Works
    <2>5. work # Idle =>
             /\ work.todo = "evidence" => dirs'[work.exec] # "none"
             /\ work.todo = "fail" /\ rec[work.exec].phase = "Reserved" => dirs'[work.exec] = "none"
      BY Zenon, <2>2, <2>4 DEF ResidueInv
    <2> QED
      BY Zenon, <2>1, <2>3, <2>5 DEF ResidueInv
  <1>5. CASE \/ RecoveryPass \/ Executing \/ Stop \/ UNCHANGED vars
             \/ \E e \in Execs : HostStarts(e) \/ RunEnds(e) \/ Acknowledge(e)
             \/ \E b \in Ledger!Bindings : BindRuntime(b)
    <2>1. UNCHANGED <<rec, dirs, permit, started, controlled, work>>
      BY Zenon, <1>5 DEF RecoveryPass, Executing, BeginFetch, EndFetch, EndBackoff, SendStart, SettleRun,
                      InspectClone, Observes, Stop, HostStarts, RunEnds, Acknowledge, BindRuntime, vars
    <2> QED
      BY Zenon, <2>1, ResidueStays
  <1>6. CASE Exit \/ Crash
    <2>1. UNCHANGED <<rec, dirs, permit, started>> /\ work' = Idle /\ controlled' \in {controlled, TRUE}
      BY Zenon, <1>6 DEF Exit, Crash, Restarts
    <2>2. controlled => controlled'
      BY Zenon, <2>1
    <2> QED
      BY Zenon, <2>1, <2>2, ResidueStays
  <1> QED
    BY Zenon, <1>1, <1>2, <1>3, <1>4, <1>5, <1>6 DEF Next, HandleRequest

\* A new home has made no directory.
LEMMA ResidueStarts == Init => ResidueInv
  <1> SUFFICES ASSUME Init PROVE ResidueInv
    BY Zenon
  <1>1. /\ rec = [e \in Execs |-> Absent] /\ dirs = [e \in Execs |-> "none"] /\ work = Idle
    BY Zenon DEF Init
  <1>2. Absent.mode = "Absent" /\ Absent.phase = "Reserved"
    BY Zenon DEF Absent
  <1>3. ASSUME NEW e \in Execs PROVE Residue(rec[e], dirs[e], permit[e], controlled) /\ dirs[e] = "none"
    BY Zenon, <1>1, <1>2 DEF Residue
  <1> QED
    BY Zenon, <1>1, <1>3 DEF ResidueInv

-----------------------------------------------------------------------------
(* Results.                                                                 *)

\* A new home has no rows and no binding.
LEMMA JournalStarts == Init => JournalInv /\ EpochsInv /\ LocalInv
  <1> SUFFICES ASSUME Init PROVE JournalInv /\ EpochsInv /\ LocalInv
    BY Zenon
  <1>1. /\ attempts = [e \in Execs |-> <<>>] /\ runs = [e \in Execs |-> <<>>]
        /\ rec = [e \in Execs |-> Absent] /\ flight = Idle /\ work = Idle
        /\ binding = None /\ permit = [e \in Execs |-> None]
    BY Zenon DEF Init
  <1>2. Journal(Absent, <<>>, <<>>)
    BY DEF Journal, Absent
  <1> QED
    BY <1>1, <1>2 DEF JournalInv, EpochsInv, LocalInv

\* The invariants together are inductive.
LEMMA NodeInvariant == Spec => [](NodeInv /\ JournalInv /\ EpochsInv /\ LocalInv /\ TypesInv /\ TrailInv /\ ResidueInv)
  <1>1. Init => NodeInv /\ JournalInv /\ EpochsInv /\ LocalInv /\ TypesInv /\ TrailInv /\ ResidueInv
    BY Zenon, NodeStarts, JournalStarts, TypesStart, TrailStarts, ResidueStarts
  <1>2. NodeInv /\ JournalInv /\ EpochsInv /\ LocalInv /\ TypesInv /\ TrailInv /\ ResidueInv /\ [Next]_vars
          => (NodeInv /\ JournalInv /\ EpochsInv /\ LocalInv /\ TypesInv /\ TrailInv /\ ResidueInv)'
    <2> SUFFICES ASSUME NodeInv, JournalInv, EpochsInv, LocalInv, TypesInv, TrailInv, ResidueInv, [Next]_vars
                 PROVE  NodeInv' /\ JournalInv' /\ EpochsInv' /\ LocalInv' /\ TypesInv' /\ TrailInv' /\ ResidueInv'
      BY Zenon
    <2>1. NodeInv' /\ KeepsLedger
      BY Zenon, NodeSteps
    <2>2. JournalInv'
      BY Zenon, JournalSteps
    <2>3. EpochsInv'
      BY Zenon, <2>1, EpochSteps
    <2>6. LocalInv'
      BY Zenon, <2>1, LocalSteps
    <2>4. TypesInv'
      BY Zenon, TypesStep
    <2>5. TrailInv'
      BY Zenon, TrailSteps
    <2>7. ResidueInv'
      BY Zenon, ResidueSteps
    <2> QED
      BY Zenon, <2>1, <2>2, <2>3, <2>4, <2>5, <2>6, <2>7
  <1> QED
    BY <1>1, <1>2, PTL DEF Spec

\* The rows that ended in one of these ways, the last of them, and how many they are.
RowsOf(a, ends) == {i \in DOMAIN a : a[i].ended \in ends}
LastOf(S) == {i \in S : \A j \in S : j <= i}
Counts(S, k) == ExistsBijection(1..k, S)

\* What complete_clone counts among the rows, when steps 1..n ended with zero and the last
\* one, n + 1, in its own way.
EndingsCount(a, n) ==
    IF a[n + 1].ended = "signal"
    THEN /\ Counts(RowsOf(a, {"signal"}), 1) /\ Counts(RowsOf(a, {"zero", "fail"}), n)
         /\ RowsOf(a, {"zero", "fail"}) \subseteq RowsOf(a, {"zero"})
    ELSE /\ Counts(RowsOf(a, {"signal"}), 0) /\ Counts(RowsOf(a, {"zero", "fail"}), n + 1)
         /\ RowsOf(a, {"zero", "fail"}) \ LastOf(RowsOf(a, {"zero", "fail"}))
              \subseteq RowsOf(a, {"zero"})
         /\ a[n + 1].ended = "zero" => RowsOf(a, {"zero", "fail"}) \subseteq RowsOf(a, {"zero"})

\* An interval counts as many as its upper bound, and a single row is one.
LEMMA IntervalCounts ==
    ASSUME NEW n \in Nat
    PROVE  Counts(1..n, n) /\ Counts({n}, 1) /\ Counts({}, 0)
  <1>1. ASSUME NEW S, NEW T, NEW f \in [S -> T], \A x, y \in S : f[x] = f[y] => x = y,
               \A t \in T : \E x \in S : f[x] = t
        PROVE  ExistsBijection(S, T)
    BY Zenon, <1>1 DEF ExistsBijection, Bijection, Injection, Surjection, IsInjective
  <1>2. Counts(1..n, n)
    <2> DEFINE f == [i \in 1..n |-> i]
    <2>1. f \in [1..n -> 1..n] /\ \A i \in 1..n : f[i] = i
      BY Zenon
    <2> HIDE DEF f
    <2>2. ExistsBijection(1..n, 1..n)
      BY Zenon, <1>1, <2>1
    <2> QED
      BY Zenon, <2>2 DEF Counts
  <1>3. Counts({n}, 1)
    <2> DEFINE f == [i \in 1..1 |-> n]
    <2>1. f \in [1..1 -> {n}] /\ \A x, y \in 1..1 : x = y
      OBVIOUS
    <2>2. 1 \in 1..1 /\ f[1] = n
      OBVIOUS
    <2> HIDE DEF f
    <2>3. \A x, y \in 1..1 : f[x] = f[y] => x = y
      BY Zenon, <2>1
    <2>4. \A t \in {n} : \E x \in 1..1 : f[x] = t
      BY Zenon, <2>2
    <2>5. ExistsBijection(1..1, {n})
      BY <1>1, <2>1, <2>3, <2>4
    <2> QED
      BY Zenon, <2>5 DEF Counts
  <1>4. Counts({}, 0)
    <2> DEFINE f == [i \in 1..0 |-> i]
    <2>1. f \in [1..0 -> {}] /\ 1..0 = {}
      OBVIOUS
    <2> HIDE DEF f
    <2> QED
      BY Zenon, <1>1, <2>1 DEF Counts
  <1> QED
    BY Zenon, <1>2, <1>3, <1>4

\* One recorded ending per dispatched step is counted as such.
LEMMA EndingsCounted ==
    ASSUME NEW a, NEW n \in Nat, DOMAIN a = 1..(n + 1), \A i \in 1..n : a[i].ended = "zero",
           a[n + 1].ended \in Ended
    PROVE  EndingsCount(a, n)
  <1> DEFINE codes == RowsOf(a, {"zero", "fail"})
  <1>1. \A i \in 1..(n + 1) : i \in 1..n \/ i = n + 1
    OBVIOUS
  <1>2. /\ Counts(1..n, n) /\ Counts(1..(n + 1), n + 1)
        /\ Counts({n + 1}, 1) /\ Counts({}, 0)
    <2>1. n + 1 \in Nat
      OBVIOUS
    <2> QED
      BY Zenon, <2>1, IntervalCounts
  <1>3. CASE a[n + 1].ended = "signal"
    <2>1. codes = 1..n /\ RowsOf(a, {"signal"}) = {n + 1} /\ codes \subseteq RowsOf(a, {"zero"})
      BY <1>1, <1>3 DEF RowsOf
    <2> QED
      BY Zenon, <1>2, <1>3, <2>1 DEF EndingsCount
  <1>4. CASE a[n + 1].ended # "signal"
    <2>1. codes = 1..(n + 1) /\ RowsOf(a, {"signal"}) = {}
      BY Zenon, <1>1, <1>4 DEF Ended, RowsOf
    <2>2. n + 1 \in LastOf(codes)
      BY <2>1 DEF LastOf
    <2>3. codes \ LastOf(codes) \subseteq RowsOf(a, {"zero"})
      BY Zenon, <1>1, <2>2 DEF RowsOf
    <2>4. a[n + 1].ended = "zero" => codes \subseteq RowsOf(a, {"zero"})
      BY Zenon, <1>1 DEF RowsOf
    <2> QED
      BY Zenon, <1>2, <1>4, <2>1, <2>3, <2>4 DEF EndingsCount
  <1> QED
    BY Zenon, <1>3, <1>4

\* What the trail backs, complete_clone accepts.
LEMMA BackedIsAttributable ==
    ASSUME NodeInv, JournalInv, TypesInv, TrailInv, NEW e \in Execs, NEW kind, NEW residual,
           Verdict(rec[e], attempts[e], kind),
           (residual = "NoDirectory") <=> (rec[e].phase = "Reserved")
    PROVE  Attributable(e, kind, residual)
  <1> DEFINE a == attempts[e]
             n == rec[e].n
  <1>1. /\ n \in Nat /\ Journal(rec[e], a, runs[e])
        /\ Trail(e, rec[e], a, runs[e], fetched[e], transports)
    BY Zenon, TrailFacts
  <1>2. DOMAIN a = 1..Len(a)
    BY Zenon, <1>1, JournalShape
  <1>3. CASE rec[e].phase # "Dispatched"
    <2>1. \A i \in DOMAIN a : a[i].cleaned
      BY <1>1, <1>2, <1>3 DEF Journal
    <2> QED
      BY Zenon, <1>3, <2>1 DEF Attributable, Verdict
  <1>4. CASE rec[e].phase = "Dispatched"
    <2>1. /\ Len(a) = n + 1 /\ a[n + 1].cleaned
          /\ kind = "Ready" => a[n + 1].ended = "zero"
          /\ kind = "Interrupted" => a[n + 1].ended = "signal"
          /\ kind \notin {"Ready", "Interrupted"} => a[n + 1].ended = "fail"
      BY Zenon, <1>4 DEF Verdict, Current
    <2>2. \A i \in 1..n : a[i].ended = "zero" /\ a[i].cleaned
      BY Zenon, <1>1, <1>4 DEF Trail
    <2>3. \A i \in DOMAIN a : a[i].cleaned
      BY <1>1, <1>2, <2>1, <2>2
    <2>4. DOMAIN a = 1..(n + 1) /\ a[n + 1].ended \in Ended
      BY Zenon, <1>2, <2>1 DEF Ended
    <2> DEFINE codes == RowsOf(a, {"zero", "fail"})
    <2>5. EndingsCount(a, n)
      BY Zenon, <1>1, <2>2, <2>4, EndingsCounted
    <2>6. \/ /\ Counts(RowsOf(a, {"signal"}), 0) /\ kind # "Interrupted"
             /\ Counts(codes, n + 1)
             /\ IF kind = "Ready" THEN codes \subseteq RowsOf(a, {"zero"})
                ELSE codes \ LastOf(codes) \subseteq RowsOf(a, {"zero"})
          \/ /\ Counts(RowsOf(a, {"signal"}), 1) /\ kind = "Interrupted"
             /\ Counts(codes, n)
             /\ codes \subseteq RowsOf(a, {"zero"})
      BY Zenon, <2>1, <2>5 DEF EndingsCount
    <2> QED
      BY Zenon, <1>4, <2>3, <2>6 DEF Attributable, RowsOf, LastOf, Counts
  <1> QED
    BY Zenon, <1>3, <1>4

\* complete_clone and ProcessJournal::record check what is recorded before they write, and
\* the worker ends when they refuse (again at every start): whatever was lost or crashed
\* before, they never refuse what drive.rs has decided.
THEOREM EvidenceIsEnough == Spec => []EvidenceSuffices
  <1>1. NodeInv /\ JournalInv /\ TypesInv /\ TrailInv => EvidenceSuffices
    <2> SUFFICES ASSUME NodeInv, JournalInv, TypesInv, TrailInv PROVE EvidenceSuffices
      BY Zenon
    <2>1. ASSUME work # Idle
          PROVE  /\ work.exec \in Execs
                 /\ WorkJournal(work, rec[work.exec], attempts[work.exec], runs[work.exec])
                 /\ WorkTrail(work, rec[work.exec], attempts[work.exec])
      BY Zenon, <2>1 DEF NodeInv, MemoryTypeOK, Works, JournalInv, TrailInv
    <2>2. ASSUME Working("fail")
          PROVE  Attributable(work.exec, work.with, Result(work.exec, work.with).residual)
      <3>1. PICK e \in Execs : e = work.exec
        BY Zenon, <2>1, <2>2 DEF Working
      <3>2. Verdict(rec[e], attempts[e], work.with)
        BY Zenon, <2>1, <2>2, <3>1 DEF Working, WorkTrail
      <3>3. (Result(e, work.with).residual = "NoDirectory") <=> (rec[e].phase = "Reserved")
        BY Zenon DEF Result
      <3> QED
        BY Zenon, <3>1, <3>2, <3>3, BackedIsAttributable
    <2>3. ASSUME Seen({"Inspect"}) PROVE Attributable(flight.exec, "Ready", "Retained")
      <3>1. flight # Idle /\ flight.kind = "Inspect"
        BY Zenon, <2>3 DEF Seen
      <3>2. PICK e \in Execs : e = flight.exec
        BY Zenon, <3>1 DEF NodeInv, MemoryTypeOK, Flights
      <3>3. rec[e].phase = "Dispatched" /\ Verdict(rec[e], attempts[e], "Ready")
        BY Zenon, <3>1, <3>2 DEF TrailInv, FlightTrail
      <3> QED
        BY Zenon, <3>2, <3>3, BackedIsAttributable
    <2>4. ASSUME Working("dispatch") PROVE Recordable(work.exec)
      <3>1. PICK e \in Execs : e = work.exec
        BY Zenon, <2>1, <2>4 DEF Working
      <3>2. rec[e].phase = "Dispatched" /\ Len(attempts[e]) = rec[e].n
        BY Zenon, <2>1, <2>4, <3>1 DEF Working, WorkJournal, WorkTrail
      <3>3. /\ Journal(rec[e], attempts[e], runs[e])
            /\ Trail(e, rec[e], attempts[e], runs[e], fetched[e], transports)
        BY Zenon, TrailFacts
      <3>4. DOMAIN attempts[e] = 1..Len(attempts[e])
        BY Zenon, <3>3, JournalShape
      <3> QED
        BY Zenon, <3>1, <3>2, <3>3, <3>4 DEF Recordable, Trail
    <2> QED
      BY Zenon, <2>2, <2>3, <2>4 DEF EvidenceSuffices
  <1> QED
    BY <1>1, NodeInvariant, PTL

\* A terminal result of complete_clone is what happened at the host: every Run it rests on
\* has ended and is cleaned, Ready needs a fetch and every step's success, and a failure
\* names the way the last Run ended, however often the Node died on the way.
THEOREM ResultsAreBacked == Spec => []ResultIsBacked
  <1>1. NodeInv /\ JournalInv /\ TypesInv /\ TrailInv => ResultIsBacked
    <2> SUFFICES ASSUME NodeInv, JournalInv, TypesInv, TrailInv,
                        NEW e \in Execs, rec[e].mode = "Completed"
                 PROVE  LET last == Len(runs[e]) IN
                        /\ \A i \in DOMAIN runs[e] : runs[e][i] \in Ended /\ attempts[e][i].cleaned
                        /\ CASE rec[e].result.kind = "Ready" ->
                                  /\ last = WorkloadSteps /\ \A i \in 1..last : runs[e][i] = "zero"
                                  /\ fetched[e] > 0
                             [] rec[e].result.kind = "Interrupted" ->
                                  last > 0 /\ runs[e][last] = "signal"
                             [] OTHER -> last = 0 \/ runs[e][last] = "fail"
      BY Zenon DEF ResultIsBacked
    <2> DEFINE r == rec[e]
               a == attempts[e]
               u == runs[e]
               kind == r.result.kind
    <2>1. /\ r.n \in Nat /\ Journal(r, a, u) /\ Trail(e, r, a, u, fetched[e], transports)
          /\ WorkloadSteps \in Nat /\ fetched[e] \in Nat
      BY Zenon, TrailFacts
    <2>2. DOMAIN u = 1..Len(u) /\ Len(u) = Len(a) /\ Len(a) \in Nat
      BY <2>1, JournalShape
    <2>3. Verdict(r, a, kind)
      BY Zenon, <2>1 DEF Trail
    <2>4. \A i \in 1..Len(a) : a[i].cleaned /\ a[i].ended \in {"none", u[i]}
      BY Zenon, <2>1 DEF Journal
    <2>5. CASE r.phase # "Dispatched"
      <3>1. Len(a) = 0 /\ kind \notin {"Ready", "Interrupted"}
        BY Zenon, <2>1, <2>3, <2>5 DEF Journal, Verdict
      <3> HIDE DEF r, a, u, kind
      <3>2. \A i \in DOMAIN u : u[i] \in Ended /\ a[i].cleaned
        BY <2>2, <3>1
      <3> QED
        BY Zenon, <2>2, <3>1, <3>2 DEF r, a, u, kind
    <2>6. CASE r.phase = "Dispatched"
      <3>1. /\ Len(a) = r.n + 1
            /\ kind = "Ready" => a[Len(a)].ended = "zero" /\ Len(a) = WorkloadSteps
            /\ kind = "Interrupted" => a[Len(a)].ended = "signal"
            /\ kind \notin {"Ready", "Interrupted"} => a[Len(a)].ended = "fail"
        BY Zenon, <2>3, <2>6 DEF Verdict, Current
      <3>2. fetched[e] \in 1..MaxFetches /\ \A i \in 1..r.n : a[i].ended = "zero"
        BY Zenon, <2>1, <2>6 DEF Trail
      <3> HIDE DEF r, a, u, kind
      <3>3. Len(a) \in 1..Len(a) /\ \A i \in 1..Len(a) : i \in 1..r.n \/ i = Len(a)
        BY <2>1, <2>2, <3>1
      <3>4. a[Len(a)].ended \in Ended
        BY Zenon, <3>1 DEF Ended
      <3>5. \A i \in 1..Len(a) : a[i].ended \in Ended
        BY Zenon, <3>2, <3>3, <3>4 DEF Ended
      <3>6. \A i \in 1..Len(a) : u[i] = a[i].ended
        BY Zenon, <2>4, <3>5 DEF Ended
      <3>7. \A i \in DOMAIN u : u[i] \in Ended /\ a[i].cleaned
        BY Zenon, <2>2, <2>4, <3>5, <3>6
      <3>8. kind = "Ready" => \A i \in 1..Len(u) : u[i] = "zero"
        BY Zenon, <2>2, <3>1, <3>2, <3>3, <3>6
      <3>9. u[Len(u)] = a[Len(a)].ended /\ Len(u) > 0
        <4>1. Len(u) = Len(a) /\ Len(a) > 0
          BY <2>1, <2>2, <3>1
        <4>2. u[Len(a)] = a[Len(a)].ended
          BY Zenon, <3>3, <3>6
        <4> QED
          BY Zenon, <4>1, <4>2
      <3>10. fetched[e] > 0
        BY <2>1, <3>2
      <3>11. /\ kind = "Ready" => Len(u) = WorkloadSteps
             /\ kind = "Interrupted" => u[Len(u)] = "signal"
             /\ kind \notin {"Ready", "Interrupted"} => u[Len(u)] = "fail"
        BY Zenon, <2>2, <3>1, <3>9
      <3> QED
        BY Zenon, <3>7, <3>8, <3>9, <3>10, <3>11 DEF r, a, u, kind
    <2> QED
      BY Zenon, <2>5, <2>6
  <1> QED
    BY <1>1, NodeInvariant, PTL

\* What the result says of the directory is so, whatever crashed between creating it and
\* recording it: Retained names one that was made, and NoDirectory passes over one only
\* when begin_clone refused, under runtime control, to carry on what an earlier process
\* had begun.
THEOREM ResidualsAreHonest == Spec => []ResidualIsHonest
  <1>1. ResidueInv => ResidualIsHonest
    BY Zenon DEF ResidueInv, Residue, ResidualIsHonest
  <1> QED
    BY <1>1, NodeInvariant, PTL

\* MAX_FETCH_ATTEMPTS bounds the snapshot fetches over all processes of the Node, and
\* configure_clone's clearing (reads_transport) never takes the transport repository from
\* a workload that may still fetch from it.
THEOREM FetchesSurvive == Spec => []FetchSurvivesRestarts
  <1>1. NodeInv /\ JournalInv /\ TypesInv /\ TrailInv => FetchSurvivesRestarts
    <2> SUFFICES ASSUME NodeInv, JournalInv, TypesInv, TrailInv, NEW e \in Execs
                 PROVE  /\ fetched[e] <= MaxFetches
                        /\ /\ rec[e].mode \in {"Pending", "Unknown"}
                           /\ rec[e].phase = "Dispatched" /\ rec[e].n <= TransportStep
                           /\ runs[e] # <<>> => runs[e][Len(runs[e])] \notin {"fail", "signal"}
                           => e \in transports
      BY Zenon DEF FetchSurvivesRestarts
    <2>1. /\ rec[e] \in Recs /\ rec[e].n \in Nat /\ fetched[e] \in Nat
          /\ Journal(rec[e], attempts[e], runs[e])
          /\ Trail(e, rec[e], attempts[e], runs[e], fetched[e], transports)
          /\ rec[e].phase = "Fetching" => rec[e].n <= MaxFetches
          /\ MaxFetches \in Nat \ {0}
      BY Zenon, TrailFacts
    <2>2. fetched[e] <= MaxFetches
      BY <2>1 DEF Trail, Recs, Phases
    <2>3. Bad(runs[e]) => runs[e] # <<>> /\ runs[e][Len(runs[e])] \in {"fail", "signal"}
      BY DEF Bad
    <2>4. ASSUME rec[e].mode \in {"Pending", "Unknown"}, rec[e].phase = "Dispatched",
                 rec[e].n <= TransportStep,
                 runs[e] # <<>> => runs[e][Len(runs[e])] \notin {"fail", "signal"}
          PROVE  e \in transports
      BY Zenon, <2>1, <2>3, <2>4 DEF Trail
    <2> QED
      BY Zenon, <2>2, <2>4
  <1> QED
    BY <1>1, NodeInvariant, PTL

\* The rows of process_attempts never say more than the host: through every crash
\* between closing a Scope, recording the ending and recording the cleanup.
THEOREM JournalTrue == Spec => []JournalIsTrue
  <1>1. NodeInv /\ JournalInv => JournalIsTrue
    <2> SUFFICES ASSUME NodeInv, JournalInv, NEW e \in Execs
                 PROVE  /\ Len(attempts[e]) \in
                              IF rec[e].phase = "Dispatched" THEN {rec[e].n, rec[e].n + 1} ELSE {0}
                        /\ \A i \in DOMAIN attempts[e] :
                              /\ attempts[e][i].cleaned => runs[e][i] \in Ended \cup {"sealed"}
                              /\ attempts[e][i].ended \in {"none", runs[e][i]}
                              /\ i < Len(attempts[e]) => attempts[e][i].cleaned
      BY Zenon DEF JournalIsTrue
    <2>1. Journal(rec[e], attempts[e], runs[e])
      BY Zenon DEF JournalInv
    <2>2. DOMAIN attempts[e] = 1..Len(attempts[e])
      BY Zenon, <2>1, JournalShape
    <2> QED
      BY Zenon, <2>1, <2>2 DEF Journal, Over
  <1> QED
    BY <1>1, NodeInvariant, PTL

\* bind_runtime leaves an epoch only when no execution of it is open and no Run of it is
\* running or may yet start (unfinished_runtime_executions), whatever crashed before; nor
\* is anything open that was accepted before runtime control.
THEOREM HandoversAreClean == Spec => []HandoverIsClean
  <1>1. NodeInv /\ JournalInv /\ EpochsInv /\ LocalInv => HandoverIsClean
    <2> SUFFICES ASSUME NodeInv, JournalInv, EpochsInv, LocalInv, NEW e \in Execs, Earlier(e)
                 PROVE  /\ rec[e].mode = "Completed"
                        /\ \A i \in DOMAIN runs[e] : runs[e][i] \notin {"sent", "running"}
      BY Zenon DEF HandoverIsClean
    <2>1. rec[e].mode = "Completed"
      BY Zenon DEF EpochsInv, LocalInv, Earlier
    <2>2. Journal(rec[e], attempts[e], runs[e])
      BY Zenon DEF JournalInv
    <2>3. DOMAIN runs[e] = 1..Len(attempts[e])
      BY Zenon, <2>2, JournalShape
    <2>4. \A i \in 1..Len(attempts[e]) : runs[e][i] \in Over
      BY Zenon, <2>1, <2>2 DEF Journal
    <2> QED
      BY Zenon, <2>1, <2>3, <2>4 DEF Over, Ended
  <1> QED
    BY <1>1, NodeInvariant, PTL

\* The Node's tables stay within their types, and the steps and fetch attempts that
\* CloneProgress counts stay within WORKLOAD_STEPS and MAX_FETCH_ATTEMPTS.
THEOREM NodeTypes == Spec => []CloneTypeOK
  <1>1. NodeInv /\ JournalInv /\ EpochsInv /\ TypesInv => CloneTypeOK
    <2> SUFFICES ASSUME NodeInv, JournalInv, EpochsInv, TypesInv PROVE CloneTypeOK
      BY Zenon
    <2>1. ASSUME NEW e \in Execs
          PROVE  /\ rec[e].mode \in {"Absent", "Pending", "Unknown", "Completed"}
                 /\ rec[e].phase \in Phases
                 /\ rec[e].n \in 0..(CASE rec[e].phase = "Dispatched" -> WorkloadSteps - 1
                                       [] rec[e].phase = "Fetching" -> MaxFetches
                                       [] OTHER -> 0)
                 /\ rec[e].result \in IF rec[e].mode = "Completed" THEN Results ELSE {None}
                 /\ permit[e] \in {None} \cup Ledger!Permits
                 /\ attempts[e] \in Seq([ended : Ended \cup {"none"}, cleaned : BOOLEAN])
                 /\ runs[e] \in [DOMAIN attempts[e] -> RunStates]
      <3>1. /\ rec[e].mode \in {"Absent", "Pending", "Unknown", "Completed"}
            /\ rec[e].phase \in Phases
        BY Zenon DEF NodeInv, MemoryTypeOK, Recs
      <3>2. /\ rec[e].n \in 0..(CASE rec[e].phase = "Dispatched" -> WorkloadSteps - 1
                                  [] rec[e].phase = "Fetching" -> MaxFetches
                                  [] OTHER -> 0)
            /\ rec[e].result \in IF rec[e].mode = "Completed" THEN Results ELSE {None}
        BY Zenon DEF TypesInv, Fits, Bound
      <3>3. permit[e] \in {None} \cup Ledger!Permits
        BY Zenon DEF EpochsInv
      <3>4. Journal(rec[e], attempts[e], runs[e])
        BY Zenon DEF JournalInv
      <3>5. /\ attempts[e] \in Seq(Attempts) /\ runs[e] \in Seq(RunStates)
            /\ DOMAIN attempts[e] = DOMAIN runs[e]
        BY Zenon, <3>4, JournalShape
      <3>6. runs[e] \in [DOMAIN attempts[e] -> RunStates]
        BY <3>5
      <3>7. attempts[e] \in Seq([ended : Ended \cup {"none"}, cleaned : BOOLEAN])
        BY Zenon, <3>5 DEF Attempts
      <3> QED
        BY Zenon, <3>1, <3>2, <3>3, <3>6, <3>7
    <2>2. /\ controlled \in BOOLEAN /\ binding \in {None} \cup Ledger!Bindings
          /\ started \subseteq Execs /\ queue \subseteq Execs /\ inc \in Ledger!Incarnations
      BY Zenon DEF NodeInv, MemoryTypeOK, EpochsInv
    <2>3. OutsideTypes
      BY Zenon DEF TypesInv
    <2> QED
      BY Zenon, <2>1, <2>2, <2>3 DEF CloneTypeOK, OutsideTypes
  <1> QED
    BY <1>1, NodeInvariant, PTL
====
