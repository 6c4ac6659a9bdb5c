------------------------- MODULE WorkflowRunProofs -------------------------
(***************************************************************************)
(* The workflow run, for every acyclic graph, retry budget and number of   *)
(* human completions.                                                      *)
(*                                                                         *)
(* What has ended stays ended: a settled row and the status of an ended    *)
(* run survive late, duplicate and stale callbacks.  The callbacks that    *)
(* write a row re-read it first.  The scheduling loop does not: it         *)
(* completes the rows its pass loaded.  The invariant EndedInv says why it *)
(* may: while it holds the gate, the rows it has left are Running, because *)
(* the one write outside the gate parks human turns, and those belong to   *)
(* Agent nodes.                                                            *)
(*                                                                         *)
(* FlowInv adds what ties the run, its rows, the graph and the owners of   *)
(* the rows together.  The projection of the graph is a recursion over it; *)
(* an acyclic graph gives every set of nodes one that no edge enters from  *)
(* the set, and the smallest counterexample is taken there.                *)
(***************************************************************************)
EXTENDS WorkflowRun, TLAPS

RowRecs == [st : RowStates, used : Nat, waiting : BOOLEAN]
Settled == {"Succeeded", "Failed", "Cancelled"}

\* The live rows: ids were drawn before, only a Running attempt of an Agent node waits for
\* its retry, and only an Agent node awaits input.
RowsInv ==
    /\ rows \in [DOMAIN rows -> RowRecs] /\ minted \in [Nodes -> Nat]
    /\ \A id \in DOMAIN rows :
         /\ id \in Nodes \X Nat /\ id[2] <= minted[id[1]]
         /\ rows[id].waiting => rows[id].st = "Running" /\ ~Swift(id)
         /\ rows[id].st = "Pending" => ~Swift(id)

\* The holder of the gate: what its pass loaded is still so.
GateInv ==
    /\ gate \in {"pass", "plan"} => run = "Running"
    /\ gate # "pass" => todo = {}
    /\ proc # "up" => gate = "free"
    /\ \A id \in todo : id \in DOMAIN rows /\ rows[id].st = "Running" /\ Swift(id)
    /\ \A id \in turns : ~Swift(id)
    /\ inter \in Versions /\ manual \in Nat

\* A driver or a human turn has an id that was drawn, and no row waiting for its retry: that
\* one is its timer's.
DriverInv ==
    \A id \in preparing \cup prompting \cup turns :
        /\ id \in Nodes \X Nat /\ id[2] <= minted[id[1]]
        /\ id \in DOMAIN rows => ~rows[id].waiting

EndedInv == RowsInv /\ GateInv /\ DriverInv

\* A transaction: no settled row changes, and only a row with a new id begins to wait.
KeepsSettled ==
    \A id \in DOMAIN rows \cap DOMAIN rows' : rows[id].st \in Settled => rows'[id] = rows[id]
NewWaits ==
    /\ \A n \in Nodes : minted'[n] >= minted[n]
    /\ \A id \in DOMAIN rows' : rows'[id].waiting =>
          \/ id \in DOMAIN rows /\ rows[id].waiting
          \/ ~(id[2] <= minted[id[1]])

KeepsRows == KeepsSettled /\ NewWaits

\* What EndedIsFinal says of a step, and NewWaits.
KeepsEnded ==
    KeepsRows /\ (run \in Settled /\ run' # run => manual' > manual)

-----------------------------------------------------------------------------
(* Transactions on the rows.                                                *)

\* One row that is not settled is written.
LEMMA RowWrite ==
    ASSUME RowsInv, NEW id \in DOMAIN rows, rows[id].st \notin Settled, NEW r \in RowRecs,
           r.waiting => rows[id].waiting /\ r.st = "Running", r.st = "Pending" => ~Swift(id),
           rows' = [rows EXCEPT ![id] = r], minted' = minted
    PROVE  RowsInv' /\ KeepsRows /\ DOMAIN rows' = DOMAIN rows
  <1>1. /\ rows \in [DOMAIN rows -> RowRecs]
        /\ \A i \in DOMAIN rows : /\ i \in Nodes \X Nat /\ i[2] <= minted[i[1]]
                                  /\ rows[i].waiting => rows[i].st = "Running" /\ ~Swift(i)
                                  /\ rows[i].st = "Pending" => ~Swift(i)
    BY Zenon DEF RowsInv
  <1>2. /\ DOMAIN rows' = DOMAIN rows /\ rows' \in [DOMAIN rows -> RowRecs] /\ rows'[id] = r
        /\ \A i \in DOMAIN rows : i # id => rows'[i] = rows[i]
    BY Zenon, <1>1
  <1>3. RowsInv'
    BY Zenon, <1>1, <1>2 DEF RowsInv, Swift
  <1>4. KeepsRows
    BY <1>2 DEF RowsInv, KeepsRows, KeepsSettled, NewWaits
  <1> QED
    BY Zenon, <1>2, <1>3, <1>4

\* repository.fail_node: only Running rows, and the waiting attempts among them, change.
LEMMA FailRowsKeeps ==
    ASSUME RowsInv, NEW S, FailRows(S), minted' = minted
    PROVE  /\ RowsInv' /\ KeepsRows /\ DOMAIN rows' = DOMAIN rows
           /\ run' # run => run = "Running"
  <1> DEFINE hit == {id \in S : At(id, "Running")}
             New(id) == IF id \in hit THEN [rows[id] EXCEPT !.st = "Failed", !.waiting = FALSE]
                        ELSE IF hit # {} /\ rows[id].waiting
                             THEN [rows[id] EXCEPT !.st = "Cancelled", !.waiting = FALSE]
                        ELSE rows[id]
  <1>1. rows' = [id \in DOMAIN rows |-> New(id)] /\ (run' # run => run = "Running")
    BY Zenon DEF FailRows
  <1>2. ASSUME NEW id \in DOMAIN rows
        PROVE  /\ New(id) \in RowRecs
               /\ New(id).waiting => New(id).st = "Running" /\ ~Swift(id) /\ rows[id].waiting
               /\ New(id).st = "Pending" => ~Swift(id)
               /\ rows[id].st \in Settled => New(id) = rows[id]
    <2>1. /\ rows[id] \in RowRecs /\ (rows[id].waiting => rows[id].st = "Running" /\ ~Swift(id))
          /\ rows[id].st = "Pending" => ~Swift(id)
      BY Zenon DEF RowsInv
    <2>2. ASSUME NEW st \in {"Failed", "Cancelled"}
          PROVE  LET r == [rows[id] EXCEPT !.st = st, !.waiting = FALSE]
                 IN  r \in RowRecs /\ r.waiting = FALSE /\ r.st = st
      BY Zenon, <2>1 DEF RowRecs, RowStates, RunStates
    <2>3. CASE id \in hit
      <3>1. rows[id].st \notin Settled
        BY Zenon, <2>3 DEF At, Settled
      <3>2. New(id) = [rows[id] EXCEPT !.st = "Failed", !.waiting = FALSE]
        BY Zenon, <2>3
      <3> QED
        BY Zenon, <2>2, <3>1, <3>2
    <2>4. CASE id \notin hit /\ hit # {} /\ rows[id].waiting
      <3>1. rows[id].st \notin Settled
        BY Zenon, <2>1, <2>4 DEF Settled
      <3>2. New(id) = [rows[id] EXCEPT !.st = "Cancelled", !.waiting = FALSE]
        BY Zenon, <2>4
      <3> QED
        BY Zenon, <2>2, <3>1, <3>2
    <2>5. CASE id \notin hit /\ ~(hit # {} /\ rows[id].waiting)
      <3>1. New(id) = rows[id]
        BY Zenon, <2>5
      <3> QED
        BY Zenon, <2>1, <3>1
    <2> QED
      BY Zenon, <2>3, <2>4, <2>5
  <1> HIDE DEF New
  <1>3. /\ DOMAIN rows' = DOMAIN rows /\ rows' \in [DOMAIN rows -> RowRecs]
        /\ \A id \in DOMAIN rows : rows'[id] = New(id)
    BY Zenon, <1>1, <1>2
  <1>4. RowsInv'
    BY <1>2, <1>3 DEF RowsInv, Swift
  <1>5. KeepsRows
    BY <1>2, <1>3 DEF RowsInv, KeepsRows, KeepsSettled, NewWaits
  <1> QED
    BY Zenon, <1>1, <1>3, <1>4, <1>5

\* A write of every row that is Running or Pending: CancelRun and the boot sweep.
LEMMA SweepRowsKeeps ==
    ASSUME RowsInv, NEW st \in {"Failed", "Cancelled"}, minted' = minted,
           rows' = [id \in DOMAIN rows |->
                      IF rows[id].st \in {"Running", "Pending"}
                      THEN [rows[id] EXCEPT !.st = st, !.waiting = FALSE] ELSE rows[id]]
    PROVE  RowsInv' /\ KeepsRows /\ DOMAIN rows' = DOMAIN rows
  <1> DEFINE New(id) == IF rows[id].st \in {"Running", "Pending"}
                        THEN [rows[id] EXCEPT !.st = st, !.waiting = FALSE] ELSE rows[id]
  <1>1. ASSUME NEW id \in DOMAIN rows
        PROVE  /\ New(id) \in RowRecs
               /\ New(id).waiting => New(id).st = "Running" /\ ~Swift(id) /\ rows[id].waiting
               /\ New(id).st = "Pending" => ~Swift(id)
               /\ rows[id].st \in Settled => New(id) = rows[id]
    <2>1. /\ rows[id] \in RowRecs /\ (rows[id].waiting => rows[id].st = "Running" /\ ~Swift(id))
          /\ rows[id].st = "Pending" => ~Swift(id)
      BY Zenon DEF RowsInv
    <2>2. LET r == [rows[id] EXCEPT !.st = st, !.waiting = FALSE]
          IN  r \in RowRecs /\ r.waiting = FALSE /\ r.st = st
      BY Zenon, <2>1 DEF RowRecs, RowStates, RunStates
    <2>3. CASE rows[id].st \in {"Running", "Pending"}
      <3>1. New(id) = [rows[id] EXCEPT !.st = st, !.waiting = FALSE] /\ rows[id].st \notin Settled
        BY Zenon, <2>3 DEF Settled
      <3> QED
        BY Zenon, <2>2, <3>1
    <2>4. CASE rows[id].st \notin {"Running", "Pending"}
      <3>1. New(id) = rows[id]
        BY Zenon, <2>4
      <3> QED
        BY Zenon, <2>1, <3>1
    <2> QED
      BY Zenon, <2>3, <2>4
  <1>2. rows' = [id \in DOMAIN rows |-> New(id)]
    BY Zenon
  <1> HIDE DEF New
  <1>3. /\ DOMAIN rows' = DOMAIN rows /\ rows' \in [DOMAIN rows -> RowRecs]
        /\ \A id \in DOMAIN rows : rows'[id] = New(id)
    BY ONLY Zenon, <1>1, <1>2
  <1>4. RowsInv'
    BY ONLY RowsInv, minted' = minted, <1>1, <1>3 DEF RowsInv, Swift
  <1>5. KeepsRows
    BY ONLY RowsInv, minted' = minted, <1>1, <1>3 DEF RowsInv, KeepsRows, KeepsSettled, NewWaits
  <1> QED
    BY Zenon, <1>3, <1>4, <1>5

\* An id that is drawn is new.
LEMMA FreshIsNew ==
    ASSUME RowsInv, NEW n \in Nodes
    PROVE  /\ Fresh(n) \notin DOMAIN rows /\ Fresh(n) \in Nodes \X Nat
           /\ Fresh(n)[1] = n /\ Fresh(n)[2] = minted[n] + 1
  <1>1. Fresh(n) = <<n, minted[n] + 1>> /\ minted[n] \in Nat
    BY Zenon DEF Fresh, RowsInv
  <1>2. Fresh(n) \in Nodes \X Nat /\ Fresh(n)[1] = n /\ Fresh(n)[2] = minted[n] + 1
    BY <1>1
  <1>3. ASSUME Fresh(n) \in DOMAIN rows PROVE FALSE
    <2>1. Fresh(n)[2] <= minted[Fresh(n)[1]]
      BY Zenon, <1>3 DEF RowsInv
    <2> QED
      BY <1>1, <1>2, <2>1
  <1> QED
    BY Zenon, <1>2, <1>3

\* The new rows of a start or a plan.
LEMMA StartedKeeps ==
    ASSUME RowsInv, NEW N, N \subseteq Nodes, rows' = Started(N, FirstAttempt),
           minted' = Minted(N)
    PROVE  /\ RowsInv' /\ KeepsRows
           /\ \A id \in DOMAIN rows : id \in DOMAIN rows' /\ rows'[id] = rows[id]
  <1> DEFINE D == DOMAIN rows \cup {Fresh(n) : n \in N}
  <1>1. FirstAttempt \in RowRecs /\ FirstAttempt.waiting = FALSE /\ FirstAttempt.st = "Running"
    BY Zenon DEF FirstAttempt, RowRecs, RowStates, RunStates
  <1>2. /\ DOMAIN rows' = D
        /\ \A id \in D : rows'[id] = IF id \in DOMAIN rows THEN rows[id] ELSE FirstAttempt
        /\ rows' = [id \in D |-> IF id \in DOMAIN rows THEN rows[id] ELSE FirstAttempt]
    BY Zenon DEF Started
  <1>3. /\ minted' \in [Nodes -> Nat] /\ \A n \in Nodes : minted'[n] >= minted[n]
        /\ \A n \in N : minted'[n] = minted[n] + 1
    BY DEF Minted, RowsInv
  <1>4. ASSUME NEW id \in D
        PROVE  /\ rows'[id] \in RowRecs
               /\ id \in Nodes \X Nat /\ id[2] <= minted'[id[1]]
               /\ rows'[id].waiting =>
                     rows'[id].st = "Running" /\ ~Swift(id) /\ id \in DOMAIN rows /\ rows[id].waiting
               /\ rows'[id].st = "Pending" => ~Swift(id)
    <2>1. CASE id \in DOMAIN rows
      <3>1. rows'[id] = rows[id]
        BY Zenon, <1>2, <2>1
      <3>2. /\ rows[id] \in RowRecs /\ id \in Nodes \X Nat /\ id[2] <= minted[id[1]]
            /\ rows[id].waiting => rows[id].st = "Running" /\ ~Swift(id)
            /\ rows[id].st = "Pending" => ~Swift(id)
        BY Zenon, <2>1 DEF RowsInv
      <3>3. id[1] \in Nodes /\ id[2] \in Nat /\ minted[id[1]] \in Nat /\ minted'[id[1]] \in Nat
        BY Zenon, <1>3, <3>2 DEF RowsInv
      <3>4. id[2] <= minted'[id[1]]
        BY <1>3, <3>2, <3>3
      <3> QED
        BY Zenon, <2>1, <3>1, <3>2, <3>4
    <2>2. CASE id \notin DOMAIN rows
      <3>1. PICK n \in N : id = Fresh(n)
        BY Zenon, <2>2
      <3>2. id \in Nodes \X Nat /\ id[1] = n /\ id[2] = minted[n] + 1
        BY Zenon, <3>1, FreshIsNew
      <3>3. rows'[id] = FirstAttempt
        BY Zenon, <1>2, <2>2
      <3>4. minted[n] \in Nat /\ id[2] <= minted'[id[1]]
        BY <1>3, <3>1, <3>2 DEF RowsInv
      <3> QED
        BY Zenon, <1>1, <3>2, <3>3, <3>4
    <2> QED
      BY Zenon, <2>1, <2>2
  <1>5. rows' \in [D -> RowRecs]
    BY Zenon, <1>2, <1>4
  <1>6. RowsInv'
    BY Zenon, <1>2, <1>3, <1>4, <1>5 DEF RowsInv, Swift
  <1>7. \A id \in DOMAIN rows : id \in DOMAIN rows' /\ rows'[id] = rows[id]
    BY Zenon, <1>2
  <1>8. KeepsRows
    BY Zenon, <1>2, <1>3, <1>4, <1>7 DEF KeepsRows, KeepsSettled, NewWaits
  <1> QED
    BY Zenon, <1>6, <1>7, <1>8

\* The rows that a resume or a restart leaves.
LEMMA WithoutKeeps ==
    ASSUME RowsInv, NEW S, rows' = Without(S), minted' = minted
    PROVE  RowsInv' /\ KeepsRows
  <1>1. /\ DOMAIN rows' = DOMAIN rows \ S
        /\ \A id \in DOMAIN rows' : rows'[id] = rows[id]
        /\ rows' = [id \in DOMAIN rows \ S |-> rows[id]]
    BY Zenon DEF Without
  <1>2. rows' \in [DOMAIN rows' -> RowRecs]
    BY Zenon, <1>1 DEF RowsInv
  <1> QED
    BY <1>1, <1>2 DEF RowsInv, KeepsRows, KeepsSettled, NewWaits, Swift

\* schedule_node_retry.
LEMMA RescheduledKeeps ==
    ASSUME RowsInv, NEW id \in DOMAIN rows, ~Swift(id), rows' = Rescheduled(id),
           minted' = Minted({id[1]})
    PROVE  RowsInv' /\ KeepsRows
  <1>1. id[1] \in Nodes /\ rows[id] \in RowRecs
    BY Zenon DEF RowsInv
  <1> DEFINE new == Fresh(id[1])
             row == [st |-> "Running", used |-> rows[id].used + 1, waiting |-> TRUE]
             D == (DOMAIN rows \ {id}) \cup {new}
  <1>2. /\ new \notin DOMAIN rows /\ new \in Nodes \X Nat
        /\ new[1] = id[1] /\ new[2] = minted[id[1]] + 1
    BY Zenon, <1>1, FreshIsNew
  <1>3. row \in RowRecs /\ row.st = "Running"
    BY <1>1 DEF RowRecs, RowStates, RunStates
  <1>4. /\ rows' = [i \in D |-> IF i = new THEN row ELSE rows[i]] /\ DOMAIN rows' = D
        /\ \A i \in D : rows'[i] = IF i = new THEN row ELSE rows[i]
    BY Zenon DEF Rescheduled
  <1>5. /\ minted' \in [Nodes -> Nat] /\ \A n \in Nodes : minted'[n] >= minted[n]
        /\ minted'[id[1]] = minted[id[1]] + 1
    BY <1>1 DEF Minted, RowsInv
  <1> HIDE DEF new, row
  <1>6. ASSUME NEW i \in D
        PROVE  /\ rows'[i] \in RowRecs
               /\ i \in Nodes \X Nat /\ i[2] <= minted'[i[1]]
               /\ rows'[i].waiting => rows'[i].st = "Running" /\ ~Swift(i)
               /\ rows'[i].st = "Pending" => ~Swift(i)
    <2>1. CASE i = new
      <3>1. rows'[i] = row
        BY Zenon, <1>4, <2>1
      <3>2. i \in Nodes \X Nat /\ i[2] <= minted'[i[1]]
        <4>1. minted[id[1]] \in Nat
          BY Zenon, <1>1 DEF RowsInv
        <4>2. i[2] = minted[id[1]] + 1 /\ minted'[i[1]] = minted[id[1]] + 1
          BY Zenon, <1>2, <1>5, <2>1
        <4> QED
          BY <1>2, <2>1, <4>1, <4>2
      <3>3. ~Swift(i)
        BY Zenon, <1>2, <2>1 DEF Swift
      <3> QED
        BY Zenon, <1>3, <3>1, <3>2, <3>3
    <2>2. CASE i # new
      <3>1. i \in DOMAIN rows /\ rows'[i] = rows[i]
        BY Zenon, <1>4, <2>2
      <3>2. /\ rows[i] \in RowRecs /\ i \in Nodes \X Nat /\ i[2] <= minted[i[1]]
            /\ rows[i].waiting => rows[i].st = "Running" /\ ~Swift(i)
            /\ rows[i].st = "Pending" => ~Swift(i)
        BY Zenon, <3>1 DEF RowsInv
      <3>3. i[1] \in Nodes /\ i[2] \in Nat /\ minted[i[1]] \in Nat /\ minted'[i[1]] \in Nat
        BY Zenon, <1>5, <3>2 DEF RowsInv
      <3>4. i[2] <= minted'[i[1]]
        BY <1>5, <3>2, <3>3
      <3> QED
        BY Zenon, <3>1, <3>2, <3>4
    <2> QED
      BY Zenon, <2>1, <2>2
  <1>7. rows' \in [D -> RowRecs]
    BY Zenon, <1>4, <1>6
  <1>8. RowsInv'
    BY Zenon, <1>4, <1>5, <1>6, <1>7 DEF RowsInv, Swift
  <1>9. KeepsSettled
    BY Zenon, <1>2, <1>4 DEF KeepsSettled
  <1>10. NewWaits
    <2>1. ~(new[2] <= minted[new[1]])
      <3>1. minted[id[1]] \in Nat
        BY Zenon, <1>1 DEF RowsInv
      <3>2. ~(minted[id[1]] + 1 <= minted[id[1]])
        BY <3>1
      <3> QED
        BY Zenon, <1>2, <3>2
    <2>2. \A i \in D : i # new => i \in DOMAIN rows /\ rows'[i] = rows[i]
      BY Zenon, <1>4
    <2> QED
      BY Zenon, <1>4, <1>5, <2>1, <2>2 DEF NewWaits
  <1> QED
    BY Zenon, <1>8, <1>9, <1>10 DEF KeepsRows


-----------------------------------------------------------------------------
(* Steps.                                                                   *)

\* fail_node, complete_node and the parking of a row.
LEMMA EngineKeeps ==
    ASSUME RowsInv, NEW id
    PROVE  /\ \A transient \in BOOLEAN : FailNode(id, transient) =>
                 RowsInv' /\ KeepsRows /\ (run' # run => run = "Running")
           /\ rows' = rows /\ minted' = minted => RowsInv' /\ KeepsRows
           /\ \A st \in {"Succeeded", "Pending"} :
                 /\ id \in DOMAIN rows /\ rows[id].st \in {"Running", "Pending"} /\ ~rows[id].waiting
                 /\ st = "Pending" => ~Swift(id)
                 /\ rows' = [rows EXCEPT ![id].st = st] /\ minted' = minted
                 => RowsInv' /\ KeepsRows /\ DOMAIN rows' = DOMAIN rows
  <1>1. ASSUME NEW transient \in BOOLEAN, FailNode(id, transient)
        PROVE  RowsInv' /\ KeepsRows /\ (run' # run => run = "Running")
    <2>1. CASE Retries(id, transient)
      <3>1. /\ id \in DOMAIN rows /\ ~Swift(id) /\ rows' = Rescheduled(id)
            /\ minted' = Minted({id[1]}) /\ run' = run
        BY Zenon, <1>1, <2>1 DEF FailNode, Retries, At
      <3> QED
        BY Zenon, <3>1, RescheduledKeeps
    <2>2. CASE ~Retries(id, transient)
      <3>1. FailRows({id}) /\ minted' = minted
        BY Zenon, <1>1, <2>2 DEF FailNode
      <3> QED
        BY Zenon, <3>1, FailRowsKeeps
    <2> QED
      BY Zenon, <2>1, <2>2
  <1>2. ASSUME rows' = rows, minted' = minted PROVE RowsInv' /\ KeepsRows
    BY <1>2 DEF RowsInv, KeepsRows, KeepsSettled, NewWaits, Swift
  <1>3. ASSUME NEW st \in {"Succeeded", "Pending"}, id \in DOMAIN rows,
               rows[id].st \in {"Running", "Pending"}, ~rows[id].waiting,
               st = "Pending" => ~Swift(id), rows' = [rows EXCEPT ![id].st = st], minted' = minted
        PROVE  RowsInv' /\ KeepsRows /\ DOMAIN rows' = DOMAIN rows
    <2> DEFINE r == [rows[id] EXCEPT !.st = st]
    <2>1. rows[id] \in RowRecs /\ rows' = [rows EXCEPT ![id] = r]
      BY Zenon, <1>3 DEF RowsInv
    <2>2. r \in RowRecs /\ r.st = st /\ ~r.waiting
      BY Zenon, <1>3, <2>1 DEF RowRecs, RowStates, RunStates
    <2>3. rows[id].st \notin Settled
      BY Zenon, <1>3 DEF Settled
    <2>4. PICK q \in RowRecs : q = r
      BY Zenon, <2>2
    <2>5. rows' = [rows EXCEPT ![id] = q] /\ ~q.waiting /\ q.st = st
      BY Zenon, <2>1, <2>2, <2>4
    <2> HIDE DEF r
    <2> QED
      BY Zenon, <1>3, <2>3, <2>5, RowWrite
  <1> QED
    BY Zenon, <1>1, <1>2, <1>3

\* A step leaves the drivers that were there with rows that do not wait.
LEMMA DriversStay ==
    ASSUME RowsInv, RowsInv', DriverInv, NewWaits,
           \A id \in preparing' \cup prompting' \cup turns' :
              \/ id \in preparing \cup prompting \cup turns
              \/ /\ id \in Nodes \X Nat /\ id[2] <= minted'[id[1]]
                 /\ id \in DOMAIN rows' => ~rows'[id].waiting
    PROVE  DriverInv'
  <1> SUFFICES ASSUME NEW id \in preparing' \cup prompting' \cup turns'
               PROVE  /\ id \in Nodes \X Nat /\ id[2] <= minted'[id[1]]
                      /\ id \in DOMAIN rows' => ~rows'[id].waiting
    BY Zenon DEF DriverInv
  <1>1. CASE id \in preparing \cup prompting \cup turns
    <2>1. /\ id \in Nodes \X Nat /\ id[2] <= minted[id[1]]
          /\ id \in DOMAIN rows => ~rows[id].waiting
      BY Zenon, <1>1 DEF DriverInv
    <2>2. /\ id[1] \in Nodes /\ id[2] \in Nat /\ minted[id[1]] \in Nat /\ minted'[id[1]] \in Nat
          /\ minted'[id[1]] >= minted[id[1]]
      BY Zenon, <2>1 DEF RowsInv, NewWaits
    <2>3. id[2] <= minted'[id[1]]
      BY <2>1, <2>2
    <2>4. id \in DOMAIN rows' => ~rows'[id].waiting
      BY Zenon, <2>1 DEF NewWaits
    <2> QED
      BY Zenon, <2>1, <2>3, <2>4
  <1> QED
    BY Zenon, <1>1

\* An entry point that takes the gate when it is free, or starts holding it.
LEMMA GateTaken ==
    ASSUME GateInv, gate # "pass", todo' = todo, proc' = "up" \/ gate' = "free",
           gate' \in {"free", "head", "restart", "resume"},
           \A id \in turns' : id \in turns \/ ~Swift(id), inter' \in Versions, manual' \in Nat
    PROVE  GateInv'
  BY Zenon DEF GateInv, Swift

\* A transaction leaves the ended run and the settled rows alone.
LEMMA EndedKept ==
    ASSUME KeepsRows, run \in Settled /\ run' # run => manual' > manual
    PROVE  KeepsEnded
  BY Zenon DEF KeepsEnded

\* The commands of the user: start, restart, cancel, the snapshot switch and the resume.
LEMMA CommandsKeep ==
    ASSUME EndedInv,
           \/ StartRun \/ RestartRun \/ CancelRun \/ ResumeRun
           \/ \E V \in Versions : SwitchSnapshot(V)
    PROVE  EndedInv' /\ KeepsEnded
  <1> USE DEF db, loop, drivers, human, bounds
  <1>1. /\ RowsInv /\ GateInv /\ DriverInv
        /\ UNCHANGED <<preparing, prompting, turns, todo, proc>> /\ proc = "up" /\ gate # "pass"
    BY Zenon DEF EndedInv, StartRun, RestartRun, CancelRun, ResumeRun, SwitchSnapshot, Free
  <1>2. ASSUME RowsInv', KeepsRows, gate' \in {"free", "head", "restart", "resume"},
               inter' \in Versions, manual' \in Nat, run \in Settled /\ run' # run => manual' > manual
        PROVE  EndedInv' /\ KeepsEnded
    <2>1. DriverInv'
      BY Zenon, <1>1, <1>2, DriversStay DEF KeepsRows
    <2>2. GateInv'
      BY Zenon, <1>1, <1>2, GateTaken
    <2> QED
      BY Zenon, <1>2, <2>1, <2>2, EndedKept DEF EndedInv
  <1>3. inter \in Versions /\ manual \in Nat /\ manual + 1 \in Nat /\ manual + 1 > manual
    BY <1>1 DEF GateInv
  <1>4. CASE StartRun
    <2>1. /\ rows' = Started({Start}, FirstAttempt) /\ minted' = Minted({Start})
          /\ run = "Pending" /\ gate' = "head" /\ inter' = inter /\ manual' = manual
      BY Zenon, <1>4 DEF StartRun
    <2>2. {Start} \subseteq Nodes
      BY Zenon, GraphAssumption
    <2>3. RowsInv' /\ KeepsRows
      BY <1>1, <2>1, <2>2, StartedKeeps
    <2>4. run \notin Settled
      BY Zenon, <2>1 DEF Settled
    <2> QED
      BY Zenon, <1>2, <1>3, <2>1, <2>3, <2>4
  <1>5. CASE RestartRun \/ ResumeRun
    <2>1. /\ \E S : rows' = Without(S)
          /\ minted' = minted /\ gate' \in {"restart", "head"}
          /\ inter' = inter /\ manual' = manual + 1
      BY Zenon, <1>5 DEF RestartRun, ResumeRun
    <2>2. RowsInv' /\ KeepsRows
      BY Zenon, <1>1, <2>1, WithoutKeeps
    <2> QED
      BY Zenon, <1>2, <1>3, <2>1, <2>2
  <1>6. CASE CancelRun
    <2>1. /\ rows' = [id \in DOMAIN rows |->
                       IF rows[id].st \in {"Running", "Pending"}
                       THEN [rows[id] EXCEPT !.st = "Cancelled", !.waiting = FALSE] ELSE rows[id]]
          /\ minted' = minted /\ gate' = "free" /\ run = "Running"
          /\ inter' = inter /\ manual' = manual
      BY Zenon, <1>6 DEF CancelRun, Free
    <2>2. RowsInv' /\ KeepsRows
      BY Zenon, <1>1, <2>1, SweepRowsKeeps
    <2>3. run \notin Settled
      BY Zenon, <2>1 DEF Settled
    <2> QED
      BY Zenon, <1>2, <1>3, <2>1, <2>2, <2>3
  <1>7. CASE \E V \in Versions : SwitchSnapshot(V)
    <2>1. /\ rows' = rows /\ minted' = minted /\ gate' = "resume" /\ run' = run
          /\ inter' \in Versions /\ manual' = manual
      BY Zenon, <1>7 DEF SwitchSnapshot
    <2>2. RowsInv' /\ KeepsRows
      BY Zenon, <1>1, <2>1, EngineKeeps
    <2> QED
      BY Zenon, <1>2, <1>3, <2>1, <2>2
  <1> QED
    BY Zenon, <1>4, <1>5, <1>6, <1>7

\* The scheduling loop: run_schedule of engine.rs.
LEMMA SchedulingKeeps ==
    ASSUME EndedInv, Scheduling
    PROVE  EndedInv' /\ KeepsEnded
  <1> USE DEF db, loop, drivers, human, bounds
  <1>1. /\ RowsInv /\ GateInv /\ DriverInv /\ proc = "up"
        /\ UNCHANGED <<prompting, turns, proc, inter, manual>>
    BY Zenon DEF EndedInv, Scheduling, Head, Plan, SwiftFails, SwiftCompletes
  <1>2. inter \in Versions /\ manual \in Nat
    BY Zenon, <1>1 DEF GateInv
  <1>3. CASE Head
    <2>1. rows' = rows /\ minted' = minted /\ run' = run /\ preparing' = preparing /\ gate = "head"
      BY Zenon, <1>3 DEF Head
    <2>2. RowsInv' /\ KeepsRows
      BY Zenon, <1>1, <2>1, EngineKeeps
    <2>3. DriverInv'
      BY Zenon, <1>1, <2>1, <2>2, DriversStay DEF KeepsRows
    <2>4. todo = {}
      BY Zenon, <1>1, <2>1 DEF GateInv
    <2>5. \/ gate' = "free" /\ todo' = {}
          \/ /\ run = "Running" /\ todo' = {id \in RunningRows : Swift(id)}
             /\ gate' \in {"pass", "plan"} /\ (gate' = "plan" => todo' = {})
      BY Zenon, <1>3, <2>4 DEF Head
    <2>6. GateInv'
      <3>1. \A id \in todo' : id \in DOMAIN rows' /\ rows'[id].st = "Running" /\ Swift(id)
        BY Zenon, <2>1, <2>5 DEF RunningRows
      <3> QED
        BY Zenon, <1>1, <1>2, <2>1, <2>5, <3>1 DEF GateInv, Swift
    <2> QED
      BY Zenon, <2>1, <2>2, <2>3, <2>6, EndedKept DEF EndedInv
  <1>4. CASE Plan
    <2> DEFINE R == ReadyNodes
    <2>1. /\ gate = "plan" /\ todo' = todo /\ gate' \in {"free", "head"}
          /\ rows' = Started(R, FirstAttempt) /\ minted' = Minted(R)
          /\ preparing' = preparing \cup {Fresh(n) : n \in {m \in R : Kind[m] = "agent"}}
      BY Zenon, <1>4 DEF Plan
    <2>2. R \subseteq Nodes
      BY Zenon DEF ReadyNodes
    <2> HIDE DEF R
    <2>3. RowsInv' /\ KeepsRows
      BY Zenon, <1>1, <2>1, <2>2, StartedKeeps
    <2>4. ASSUME NEW n \in R
          PROVE  /\ Fresh(n) \in Nodes \X Nat /\ Fresh(n)[2] <= minted'[Fresh(n)[1]]
                 /\ Fresh(n) \in DOMAIN rows' => ~rows'[Fresh(n)].waiting
      <3>1. /\ n \in Nodes /\ Fresh(n) \notin DOMAIN rows /\ Fresh(n) \in Nodes \X Nat
            /\ Fresh(n)[1] = n /\ Fresh(n)[2] = minted[n] + 1
        BY Zenon, <1>1, <2>2, FreshIsNew
      <3>2. minted[n] \in Nat /\ minted'[n] = minted[n] + 1
        BY Zenon, <1>1, <2>1, <3>1 DEF Minted, RowsInv
      <3>3. Fresh(n)[2] <= minted'[Fresh(n)[1]]
        BY <3>1, <3>2
      <3>4. Fresh(n) \in DOMAIN rows' => rows'[Fresh(n)] = FirstAttempt
        BY Zenon, <2>1, <3>1 DEF Started
      <3> QED
        BY <3>1, <3>3, <3>4 DEF FirstAttempt
    <2>5. DriverInv'
      <3>1. \A id \in preparing' \cup prompting' \cup turns' :
              \/ id \in preparing \cup prompting \cup turns
              \/ \E n \in R : id = Fresh(n)
        BY Zenon, <1>1, <2>1
      <3> QED
        BY Zenon, <1>1, <2>3, <2>4, <3>1, DriversStay DEF KeepsRows
    <2>6. GateInv'
      BY Zenon, <1>1, <1>2, <2>1, GateTaken
    <2>7. run \notin Settled
      BY Zenon, <1>1, <2>1 DEF GateInv, Settled
    <2> QED
      BY Zenon, <2>3, <2>5, <2>6, <2>7, EndedKept DEF EndedInv
  <1>5. ASSUME NEW id \in todo, NEW port, SwiftCompletes(id, port) PROVE EndedInv' /\ KeepsEnded
    <2>1. /\ rows' = [rows EXCEPT ![id].st = "Succeeded"] /\ minted' = minted /\ run' = run
          /\ preparing' = preparing /\ gate = "pass" /\ todo' = todo \ {id}
          /\ gate' = IF todo' = {} THEN "head" ELSE "pass"
      BY Zenon, <1>5 DEF SwiftCompletes
    <2>2. id \in DOMAIN rows /\ rows[id].st = "Running" /\ Swift(id)
      BY Zenon, <1>1 DEF GateInv
    <2>3. ~rows[id].waiting
      BY Zenon, <1>1, <2>2 DEF RowsInv
    <2>4. RowsInv' /\ KeepsRows /\ DOMAIN rows' = DOMAIN rows
      BY Zenon, <1>1, <2>1, <2>2, <2>3, EngineKeeps
    <2>5. DriverInv'
      BY Zenon, <1>1, <2>1, <2>4, DriversStay DEF KeepsRows
    <2>6. GateInv'
      <3>1. \A i \in todo' : i \in DOMAIN rows' /\ rows'[i].st = "Running" /\ Swift(i)
        BY Zenon, <1>1, <2>1, <2>4 DEF GateInv, RowsInv
      <3>2. run = "Running"
        BY Zenon, <1>1, <2>1 DEF GateInv
      <3> QED
        BY Zenon, <1>1, <1>2, <2>1, <3>1, <3>2 DEF GateInv, Swift
    <2> QED
      BY Zenon, <2>1, <2>4, <2>5, <2>6, EndedKept DEF EndedInv
  <1>6. ASSUME NEW id \in todo, SwiftFails(id) PROVE EndedInv' /\ KeepsEnded
    <2>1. /\ FailRows({id}) /\ minted' = minted /\ preparing' = preparing
          /\ todo' = {} /\ gate' = "free"
      BY Zenon, <1>6 DEF SwiftFails
    <2>2. RowsInv' /\ KeepsRows /\ (run' # run => run = "Running")
      BY Zenon, <1>1, <2>1, FailRowsKeeps
    <2>3. DriverInv'
      BY Zenon, <1>1, <2>1, <2>2, DriversStay DEF KeepsRows
    <2>4. GateInv'
      BY Zenon, <1>1, <1>2, <2>1 DEF GateInv, Swift
    <2>5. run \in Settled => run' = run
      BY Zenon, <2>2 DEF Settled
    <2> QED
      BY Zenon, <2>2, <2>3, <2>4, <2>5, EndedKept DEF EndedInv
  <1> QED
    BY Zenon, <1>3, <1>4, <1>5, <1>6 DEF Scheduling

\* A row parks: what was Running awaits input.
LEMMA ParkKeeps ==
    ASSUME RowsInv, NEW id, ~Swift(id), id \in DOMAIN rows => ~rows[id].waiting,
           ParkRow(id), minted' = minted
    PROVE  /\ RowsInv' /\ KeepsRows /\ DOMAIN rows' = DOMAIN rows
           /\ \A i \in DOMAIN rows : i # id => rows'[i] = rows[i]
  <1>1. CASE At(id, "Running")
    <2>1. id \in DOMAIN rows /\ rows[id].st = "Running" /\ rows' = [rows EXCEPT ![id].st = "Pending"]
      BY Zenon, <1>1 DEF ParkRow, At
    <2> QED
      BY Zenon, <2>1, EngineKeeps DEF RowsInv
  <1>2. CASE ~At(id, "Running")
    <2>1. rows' = rows
      BY Zenon, <1>2 DEF ParkRow
    <2> QED
      BY Zenon, <2>1, EngineKeeps
  <1> QED
    BY Zenon, <1>1, <1>2

\* A row completes, from Running or from Pending, or a stale callback changes nothing.
LEMMA CompleteKeeps ==
    ASSUME RowsInv, NEW id, id \in DOMAIN rows => ~rows[id].waiting, CompleteNode(id),
           minted' = minted
    PROVE  RowsInv' /\ KeepsRows /\ gate' \in {"free", "head"}
  <1>1. CASE At(id, "Running") \/ At(id, "Pending")
    <2>1. /\ id \in DOMAIN rows /\ rows[id].st \in {"Running", "Pending"}
          /\ rows' = [rows EXCEPT ![id].st = "Succeeded"] /\ gate' = "head"
      BY Zenon, <1>1 DEF CompleteNode, At
    <2> QED
      BY Zenon, <2>1, EngineKeeps
  <1>2. CASE ~(At(id, "Running") \/ At(id, "Pending"))
    <2>1. rows' = rows /\ gate' = "free"
      BY Zenon, <1>2 DEF CompleteNode
    <2> QED
      BY Zenon, <2>1, EngineKeeps
  <1> QED
    BY Zenon, <1>1, <1>2

\* A step that writes no row: the binding of a session, a stopped prompt, a claim, its
\* preparation and its refusal.
LEMMA QuietKeeps ==
    ASSUME EndedInv, UNCHANGED <<db, proc, loop, turns, bounds>>,
           preparing' \cup prompting' \subseteq preparing \cup prompting
    PROVE  EndedInv' /\ KeepsEnded
  <1> USE DEF db, loop, bounds
  <1>1. RowsInv' /\ KeepsRows
    BY Zenon, EngineKeeps DEF EndedInv
  <1>2. DriverInv'
    BY Zenon, <1>1, DriversStay DEF EndedInv, KeepsRows
  <1>3. GateInv'
    BY Zenon DEF EndedInv, GateInv, Swift
  <1> QED
    BY Zenon, <1>1, <1>2, <1>3, EndedKept DEF EndedInv

\* The session drivers, the retry timers and the human turns: executor.rs,
\* retry_scheduler.rs, interactive/session.rs.
LEMMA OwnersKeep ==
    ASSUME EndedInv, NEW id,
           OwnerActs(id) \/ PromptStopped(id) \/ BeginTurn(id) \/ RestoreTurn(id)
    PROVE  EndedInv' /\ KeepsEnded
  <1> USE DEF db, loop, drivers, human, bounds
  <1>1. /\ RowsInv /\ GateInv /\ DriverInv /\ inter \in Versions /\ manual \in Nat
    BY Zenon DEF EndedInv, GateInv
  <1>2. ASSUME RowsInv', KeepsRows, Free, gate' \in {"free", "head"},
               UNCHANGED <<todo, proc, inter, manual>>, run' # run => run = "Running",
               \A i \in turns' : i \in turns \/ ~Swift(i),
               \A i \in preparing' \cup prompting' \cup turns' :
                  \/ i \in preparing \cup prompting \cup turns
                  \/ /\ i \in Nodes \X Nat /\ i[2] <= minted'[i[1]]
                     /\ i \in DOMAIN rows' => ~rows'[i].waiting
        PROVE  EndedInv' /\ KeepsEnded
    <2>1. DriverInv'
      BY Zenon, <1>1, <1>2, DriversStay DEF KeepsRows
    <2>2. GateInv'
      BY Zenon, <1>1, <1>2, GateTaken DEF Free
    <2>3. run \in Settled => run' = run
      BY Zenon, <1>2 DEF Settled
    <2> QED
      BY Zenon, <1>2, <2>1, <2>2, <2>3, EndedKept DEF EndedInv
  <1>3. CASE BindSession(id) \/ PromptStopped(id)
    <2>1. /\ UNCHANGED <<db, proc, loop, turns, bounds>>
          /\ preparing' \cup prompting' \subseteq preparing \cup prompting
      BY Zenon, <1>3 DEF BindSession, PromptStopped
    <2> QED
      BY Zenon, <2>1, QuietKeeps
  <1>4. CASE DriverCompletes(id)
    <2>1. /\ CompleteNode(id) /\ minted' = minted /\ Free /\ id \in prompting
          /\ UNCHANGED <<run, todo, proc, inter, manual, preparing, turns>>
          /\ prompting' = prompting \ {id}
      BY Zenon, <1>4 DEF DriverCompletes
    <2>2. id \in DOMAIN rows => ~rows[id].waiting
      BY Zenon, <1>1, <2>1 DEF DriverInv
    <2>3. RowsInv' /\ KeepsRows /\ gate' \in {"free", "head"}
      BY Zenon, <1>1, <2>1, <2>2, CompleteKeeps
    <2> QED
      BY Zenon, <1>2, <2>1, <2>3
  <1>5. CASE DriverParks(id)
    <2>1. /\ ParkRow(id) /\ minted' = minted /\ Free /\ id \in prompting /\ id[1] \in inter
          /\ UNCHANGED <<run, gate, todo, proc, inter, manual, preparing, turns>>
          /\ prompting' = prompting \ {id}
      BY Zenon, <1>5 DEF DriverParks
    <2>2. ~Swift(id)
      BY Zenon, <1>1, <2>1, GraphAssumption DEF Swift
    <2>3. id \in DOMAIN rows => ~rows[id].waiting
      BY Zenon, <1>1, <2>1 DEF DriverInv
    <2>4. RowsInv' /\ KeepsRows
      BY Zenon, <1>1, <2>1, <2>2, <2>3, ParkKeeps
    <2> QED
      BY Zenon, <1>2, <2>1, <2>4 DEF Free
  <1>6. ASSUME NEW transient \in BOOLEAN, DriverFails(id, transient) PROVE EndedInv' /\ KeepsEnded
    <2>1. /\ FailNode(id, transient) /\ Free
          /\ UNCHANGED <<gate, todo, proc, inter, manual, turns>>
          /\ prompting' = prompting \ {id} /\ preparing' = preparing \ {id}
      BY Zenon, <1>6 DEF DriverFails
    <2>2. RowsInv' /\ KeepsRows /\ (run' # run => run = "Running")
      BY Zenon, <1>1, <2>1, EngineKeeps
    <2> QED
      BY Zenon, <1>2, <2>1, <2>2 DEF Free
  <1>7. CASE WakeRetry(id)
    <2>1. /\ Free /\ minted' = minted
          /\ UNCHANGED <<gate, todo, proc, inter, manual, prompting, turns>>
      BY Zenon, <1>7 DEF WakeRetry
    <2>2. CASE UNCHANGED <<run, rows, preparing>>
      <3>1. RowsInv' /\ KeepsRows
        BY Zenon, <1>1, <2>1, <2>2, EngineKeeps
      <3> QED
        BY Zenon, <1>2, <2>1, <2>2, <3>1 DEF Free
    <2>3. CASE FailRows({id}) /\ UNCHANGED preparing
      <3>1. RowsInv' /\ KeepsRows /\ (run' # run => run = "Running")
        BY Zenon, <1>1, <2>1, <2>3, FailRowsKeeps
      <3> QED
        BY Zenon, <1>2, <2>1, <2>3, <3>1 DEF Free
    <2>4. ASSUME At(id, "Running"), NEW st \in {"Running", "Cancelled"},
                 rows' = [rows EXCEPT ![id] = [rows[id] EXCEPT !.st = st, !.waiting = FALSE]],
                 preparing' \subseteq preparing \cup {id}, run' = run
          PROVE  EndedInv' /\ KeepsEnded
      <3>1. id \in DOMAIN rows /\ rows[id].st = "Running" /\ rows[id] \in RowRecs
        BY Zenon, <1>1, <2>4 DEF At, RowsInv
      <3>2. PICK q \in RowRecs : q = [rows[id] EXCEPT !.st = st, !.waiting = FALSE]
        BY Zenon, <3>1 DEF RowRecs, RowStates, RunStates
      <3>3. q.st = st /\ ~q.waiting
        BY Zenon, <3>1, <3>2 DEF RowRecs
      <3>4. rows' = [rows EXCEPT ![id] = q] /\ rows[id].st \notin Settled /\ q.st # "Pending"
        BY Zenon, <2>4, <3>1, <3>2, <3>3 DEF Settled
      <3>5. RowsInv' /\ KeepsRows /\ DOMAIN rows' = DOMAIN rows
        BY Zenon, <1>1, <2>1, <3>1, <3>3, <3>4, RowWrite
      <3>6. /\ id \in Nodes \X Nat /\ id[2] <= minted'[id[1]] /\ ~rows'[id].waiting
        BY Zenon, <1>1, <2>1, <3>1, <3>3, <3>4 DEF RowsInv
      <3> QED
        BY Zenon, <1>2, <2>1, <2>4, <3>5, <3>6 DEF Free
    <2>5. ASSUME At(id, "Running"), rows' = [rows EXCEPT ![id].waiting = FALSE],
                 preparing' = preparing \cup {id}, run' = run
          PROVE  EndedInv' /\ KeepsEnded
      <3>1. rows[id] \in RowRecs /\ rows[id].st = "Running"
        BY Zenon, <1>1, <2>5 DEF At, RowsInv
      <3>2. [rows[id] EXCEPT !.waiting = FALSE] = [rows[id] EXCEPT !.st = "Running", !.waiting = FALSE]
        BY Zenon, <3>1 DEF RowRecs
      <3>3. rows' = [rows EXCEPT ![id] = [rows[id] EXCEPT !.st = "Running", !.waiting = FALSE]]
        BY Zenon, <2>5, <3>2
      <3> QED
        BY Zenon, <2>4, <2>5, <3>3
    <2>6. ASSUME At(id, "Running"), UNCHANGED <<run, preparing>>,
                 rows' = [rows EXCEPT ![id].st = "Cancelled", ![id].waiting = FALSE]
          PROVE  EndedInv' /\ KeepsEnded
      <3>1. rows' = [rows EXCEPT ![id] = [rows[id] EXCEPT !.st = "Cancelled", !.waiting = FALSE]]
        BY Zenon, <1>1, <2>6 DEF At, RowsInv
      <3> QED
        BY Zenon, <2>4, <2>6, <3>1
    <2> QED
      BY Zenon, <1>7, <2>2, <2>3, <2>5, <2>6 DEF WakeRetry
  <1>8. CASE BeginTurn(id)
    <2>1. /\ Free /\ minted' = minted /\ id \in DOMAIN rows /\ rows[id].st = "Pending"
          /\ rows' = [rows EXCEPT ![id].st = "Running"] /\ turns' = turns \cup {id}
          /\ UNCHANGED <<run, gate, todo, proc, inter, manual, prompting, preparing>>
      BY Zenon, <1>8 DEF BeginTurn, At
    <2>2. /\ rows[id] \in RowRecs /\ ~rows[id].waiting /\ ~Swift(id)
          /\ id \in Nodes \X Nat /\ id[2] <= minted[id[1]]
      BY Zenon, <1>1, <2>1 DEF RowsInv
    <2>3. PICK q \in RowRecs : q = [rows[id] EXCEPT !.st = "Running"]
      BY Zenon, <2>2 DEF RowRecs, RowStates, RunStates
    <2>4. q.st = "Running" /\ ~q.waiting
      BY Zenon, <2>2, <2>3 DEF RowRecs
    <2>5. rows' = [rows EXCEPT ![id] = q] /\ rows[id].st \notin Settled
      BY Zenon, <2>1, <2>3 DEF Settled
    <2>6. RowsInv' /\ KeepsRows /\ DOMAIN rows' = DOMAIN rows
      BY Zenon, <1>1, <2>1, <2>4, <2>5, RowWrite
    <2>7. ~rows'[id].waiting
      BY Zenon, <1>1, <2>1, <2>4, <2>5 DEF RowsInv
    <2> QED
      BY Zenon, <1>2, <2>1, <2>2, <2>6, <2>7 DEF Free
  <1>9. CASE EndTurn(id) \/ RestoreTurn(id)
    <2>1. /\ proc = "up" /\ id \in turns /\ ParkRow(id) /\ turns' = turns \ {id} /\ minted' = minted
          /\ UNCHANGED <<run, gate, todo, proc, inter, manual, prompting, preparing>>
      BY Zenon, <1>9 DEF EndTurn, RestoreTurn, Free
    <2>2. ~Swift(id) /\ (id \in DOMAIN rows => ~rows[id].waiting)
      BY Zenon, <1>1, <2>1 DEF DriverInv, GateInv
    <2>3. /\ RowsInv' /\ KeepsRows /\ DOMAIN rows' = DOMAIN rows
          /\ \A i \in DOMAIN rows : i # id => rows'[i] = rows[i]
      BY <1>1, <2>1, <2>2, ParkKeeps
    <2>4. DriverInv'
      BY Zenon, <1>1, <2>1, <2>3, DriversStay DEF KeepsRows
    <2>5. GateInv'
      BY Zenon, <1>1, <2>1, <2>2, <2>3 DEF GateInv, Swift
    <2> QED
      BY Zenon, <2>1, <2>3, <2>4, <2>5, EndedKept DEF EndedInv
  <1> QED
    BY Zenon, <1>3, <1>4, <1>5, <1>6, <1>7, <1>8, <1>9 DEF OwnerActs

\* The manual completions: interactive/completion.rs and run/operations.rs.
LEMMA CompletionsKeep ==
    ASSUME EndedInv, NEW q,
           \/ \E id : ClaimNode(q, id) \/ PrepareCompletion(q, id)
           \/ RefuseCompletion(q) \/ CommitCompletion(q)
    PROVE  EndedInv' /\ KeepsEnded
  <1> USE DEF db, loop, drivers, human, bounds
  <1>1. /\ RowsInv /\ GateInv /\ DriverInv /\ inter \in Versions /\ manual \in Nat
    BY Zenon DEF EndedInv, GateInv
  <1>2. CASE (\E id : ClaimNode(q, id) \/ PrepareCompletion(q, id)) \/ RefuseCompletion(q)
    <2>1. UNCHANGED <<db, proc, loop, turns, bounds>> /\ UNCHANGED <<preparing, prompting>>
      BY Zenon, <1>2 DEF ClaimNode, PrepareCompletion, RefuseCompletion
    <2> QED
      BY Zenon, <2>1, QuietKeeps
  <1>3. CASE CommitCompletion(q)
    <2>1. /\ Free /\ minted' = minted
          /\ UNCHANGED <<run, todo, proc, inter, manual, preparing, prompting, turns>>
      BY Zenon, <1>3 DEF CommitCompletion
    <2>2. RowsInv' /\ KeepsRows /\ gate' \in {"free", "head"}
      <3>1. CASE run = "Running" /\ At(reqs[q].id, "Pending")
        <4>1. PICK id : id = reqs[q].id
          BY Zenon
        <4>2. CompleteNode(id) /\ id \in DOMAIN rows /\ rows[id].st = "Pending"
          BY Zenon, <1>3, <3>1, <4>1 DEF CommitCompletion, At
        <4>3. ~rows[id].waiting
          BY Zenon, <1>1, <4>2 DEF RowsInv
        <4> QED
          BY Zenon, <1>1, <2>1, <4>2, <4>3, CompleteKeeps
      <3>2. CASE ~(run = "Running" /\ At(reqs[q].id, "Pending"))
        <4>1. rows' = rows /\ gate' = gate
          BY Zenon, <1>3, <3>2 DEF CommitCompletion
        <4> QED
          BY Zenon, <1>1, <2>1, <4>1, EngineKeeps DEF Free
      <3> QED
        BY Zenon, <3>1, <3>2
    <2>3. DriverInv'
      BY Zenon, <1>1, <2>1, <2>2, DriversStay DEF KeepsRows
    <2>4. GateInv'
      BY Zenon, <1>1, <2>1, <2>2, GateTaken DEF Free
    <2> QED
      BY Zenon, <2>1, <2>2, <2>3, <2>4, EndedKept DEF EndedInv
  <1> QED
    BY Zenon, <1>2, <1>3

\* The end of the process, the boot sweep of recovery.rs and the reconciliation of run/engine.rs.
LEMMA RecoveryKeeps ==
    ASSUME EndedInv, Crash \/ Sweep \/ Reconcile
    PROVE  EndedInv' /\ KeepsEnded
  <1> USE DEF db, loop, drivers, human, bounds
  <1>1. /\ RowsInv /\ GateInv /\ DriverInv /\ inter \in Versions /\ manual \in Nat
        /\ minted' = minted /\ inter' = inter /\ manual' = manual
    BY Zenon DEF EndedInv, GateInv, Crash, Sweep, Reconcile
  <1>2. CASE Crash
    <2>1. /\ rows' = rows /\ run' = run /\ proc' = "down" /\ gate' = "free" /\ todo' = {}
          /\ preparing' = {} /\ prompting' = {} /\ turns' = {}
      BY Zenon, <1>2 DEF Crash
    <2>2. RowsInv' /\ KeepsRows
      BY Zenon, <1>1, <2>1, EngineKeeps
    <2>3. DriverInv' /\ GateInv'
      BY Zenon, <1>1, <2>1 DEF DriverInv, GateInv
    <2> QED
      BY Zenon, <2>1, <2>2, <2>3, EndedKept DEF EndedInv
  <1>3. CASE Sweep
    <2>1. UNCHANGED <<gate, todo, preparing, prompting, turns>> /\ gate = "free"
      BY Zenon, <1>1, <1>3 DEF Sweep, GateInv
    <2>2. RowsInv' /\ KeepsRows /\ (run \in Settled => run' = run)
      <3>1. CASE run \in {"Running", "Failed"} /\ RunningRows # {}
        <4>1. /\ rows' = [id \in DOMAIN rows |->
                            IF rows[id].st \in {"Running", "Pending"}
                            THEN [rows[id] EXCEPT !.st = "Failed", !.waiting = FALSE]
                            ELSE rows[id]]
              /\ run' = "Failed"
          BY Zenon, <1>3, <3>1 DEF Sweep
        <4>2. run \in Settled => run' = run
          BY Zenon, <3>1, <4>1 DEF Settled
        <4> QED
          BY Zenon, <1>1, <4>1, <4>2, SweepRowsKeeps
      <3>2. CASE ~(run \in {"Running", "Failed"} /\ RunningRows # {})
        <4>1. rows' = rows /\ run' = run
          BY Zenon, <1>3, <3>2 DEF Sweep
        <4> QED
          BY Zenon, <1>1, <4>1, EngineKeeps
      <3> QED
        BY Zenon, <3>1, <3>2
    <2>3. DriverInv'
      BY Zenon, <1>1, <2>1, <2>2, DriversStay DEF KeepsRows
    <2>4. GateInv'
      BY Zenon, <1>1, <2>1, GateTaken
    <2> QED
      BY Zenon, <2>2, <2>3, <2>4, EndedKept DEF EndedInv
  <1>4. CASE Reconcile
    <2>1. /\ UNCHANGED <<todo, preparing, prompting, turns>> /\ gate = "free"
          /\ gate' \in {"free", "head"} /\ proc' = "up"
      BY Zenon, <1>1, <1>4 DEF Reconcile, GateInv
    <2>2. RowsInv' /\ KeepsRows /\ (run' # run => run = "Running")
      <3>1. CASE FailRows(InvalidPending)
        BY Zenon, <1>1, <3>1, FailRowsKeeps
      <3>2. CASE UNCHANGED <<run, rows>>
        BY Zenon, <1>1, <3>2, EngineKeeps
      <3> QED
        BY Zenon, <1>4, <3>1, <3>2 DEF Reconcile
    <2>3. DriverInv'
      BY Zenon, <1>1, <2>1, <2>2, DriversStay DEF KeepsRows
    <2>4. GateInv'
      BY Zenon, <1>1, <2>1, GateTaken
    <2>5. run \in Settled => run' = run
      BY Zenon, <2>2 DEF Settled
    <2> QED
      BY Zenon, <2>2, <2>3, <2>4, <2>5, EndedKept DEF EndedInv
  <1> QED
    BY Zenon, <1>2, <1>3, <1>4

-----------------------------------------------------------------------------
\* A run that was created has no rows, and nothing drives it.
LEMMA EndedInit == Init => EndedInv
  <1> SUFFICES ASSUME Init PROVE EndedInv
    BY Zenon
  <1>1. rows = <<>> /\ DOMAIN rows = {} /\ rows \in [DOMAIN rows -> RowRecs]
    BY DEF Init
  <1>2. RowsInv
    BY Zenon, <1>1 DEF Init, RowsInv
  <1>3. GateInv
    BY Zenon, GraphAssumption DEF Init, GateInv
  <1>4. DriverInv
    BY Zenon DEF Init, DriverInv
  <1> QED
    BY Zenon, <1>2, <1>3, <1>4 DEF EndedInv

\* Every entry point of the engine keeps what has ended.
LEMMA EndedStep == EndedInv /\ [Next]_vars => EndedInv' /\ (KeepsEnded \/ UNCHANGED vars)
  <1> SUFFICES ASSUME EndedInv, [Next]_vars PROVE EndedInv' /\ (KeepsEnded \/ UNCHANGED vars)
    BY Zenon
  <1>1. CASE UNCHANGED vars
    <2>1. UNCHANGED <<db, proc, loop, turns, bounds>> /\ UNCHANGED <<preparing, prompting>>
      BY Zenon, <1>1 DEF vars, drivers, human
    <2> QED
      BY Zenon, <1>1, <2>1, QuietKeeps
  <1>2. CASE Next
    <2>1. \/ StartRun \/ RestartRun \/ CancelRun \/ ResumeRun
          \/ \E V \in Versions : SwitchSnapshot(V)
          \/ Scheduling
          \/ \E id : OwnerActs(id) \/ PromptStopped(id) \/ BeginTurn(id) \/ RestoreTurn(id)
          \/ \E q : \/ \E id : ClaimNode(q, id) \/ PrepareCompletion(q, id)
                    \/ RefuseCompletion(q) \/ CommitCompletion(q)
          \/ Crash \/ Sweep \/ Reconcile
      BY Zenon, <1>2 DEF Next
    <2> QED
      BY Zenon, <2>1, CommandsKeep, SchedulingKeeps, OwnersKeep, CompletionsKeep, RecoveryKeeps
  <1> QED
    BY Zenon, <1>1, <1>2

\* What a pass of the scheduling loop loaded still is so when it writes: a run it schedules
\* is Running, and so are the swift rows it has left, although a refused human turn parks
\* its row outside the gate.
THEOREM PassIsCurrent ==
    Spec => [](/\ gate \in {"pass", "plan"} => run = "Running"
               /\ \A id \in todo : id \in DOMAIN rows /\ rows[id].st = "Running" /\ Swift(id))
  <1>1. EndedInv => /\ gate \in {"pass", "plan"} => run = "Running"
                    /\ \A id \in todo : id \in DOMAIN rows /\ rows[id].st = "Running" /\ Swift(id)
    BY Zenon DEF EndedInv, GateInv
  <1> QED
    BY <1>1, EndedInit, EndedStep, PTL DEF Spec

\* Late, duplicate and stale callbacks are no-ops, for every graph and any number of
\* attempts, requests and crashes: a settled row never changes while it is live, and an
\* ended run changes its status only by a resume or a restart of the user.
THEOREM EndedStaysEnded == Spec => EndedIsFinal
  <1> DEFINE Final ==
        /\ \A id \in DOMAIN rows \cap DOMAIN rows' :
             rows[id].st \in {"Succeeded", "Failed", "Cancelled"} => rows'[id] = rows[id]
        /\ run \in {"Succeeded", "Failed", "Cancelled"} /\ run' # run => manual' > manual
  <1>1. EndedInv /\ [Next]_vars => [Final]_vars
    <2>1. KeepsEnded => Final
      BY Zenon DEF KeepsEnded, KeepsRows, KeepsSettled, Settled
    <2> QED
      BY Zenon, <2>1, EndedStep
  <1>2. [][Final]_vars <=> EndedIsFinal
    BY Zenon DEF EndedIsFinal
  <1> HIDE DEF Final
  <1> QED
    BY <1>1, <1>2, EndedInit, EndedStep, PTL DEF Spec

-----------------------------------------------------------------------------
(* The projection of the graph.                                             *)

\* P solves the equations of BranchProjection on D, a set with the sources of its nodes.
Solves(P, D) ==
    /\ D \subseteq Nodes /\ P = [n \in D |-> P[n]]
    /\ \A e \in Edges : e.to \in D => e.from \in D
    /\ \A n \in D : P[n] = NodeState(P, n)

\* The state of a node depends on its sources only.
LEMMA NodeStateLocal ==
    ASSUME NEW P, NEW Q, NEW n, \A e \in Edges : e.to = n => P[e.from] = Q[e.from]
    PROVE  NodeState(P, n) = NodeState(Q, n)
  <1>1. Blocked(P, n) = Blocked(Q, n)
    BY Zenon DEF Blocked, Into
  <1>2. Entered(P, n) = Entered(Q, n)
    BY Zenon DEF Entered, Into
  <1> QED
    BY <1>1, <1>2 DEF NodeState

\* Two solutions agree where both are defined.
LEMMA SolutionsAgree ==
    ASSUME NEW P, NEW Q, NEW D, NEW E, Solves(P, D), Solves(Q, E)
    PROVE  \A n \in D \cap E : P[n] = Q[n]
  <1> DEFINE S == {n \in D \cap E : P[n] # Q[n]}
  <1> SUFFICES ASSUME S # {} PROVE FALSE
    BY Zenon
  <1>1. S \in SUBSET Nodes
    BY Zenon DEF Solves
  <1>2. PICK n \in S : \A e \in Edges : e.to = n => e.from \notin S
    BY Zenon, <1>1, GraphAssumption
  <1>3. \A e \in Edges : e.to = n => P[e.from] = Q[e.from]
    BY Zenon, <1>2 DEF Solves
  <1>4. NodeState(P, n) = NodeState(Q, n)
    BY Zenon, <1>3, NodeStateLocal
  <1> QED
    BY Zenon, <1>4 DEF Solves

\* BranchProjection is defined: the equations of an acyclic graph have a solution.
LEMMA ProjectionIs ==
    /\ Projection = [n \in Nodes |-> NodeState(Projection, n)]
    /\ \A n \in Nodes : Projection[n] = NodeState(Projection, n)
  <1> DEFINE G == {n \in Nodes : \E P, D : Solves(P, D) /\ n \in D}
             Value(n) == CHOOSE v : \E P, D : Solves(P, D) /\ n \in D /\ v = P[n]
             H == [n \in G |-> Value(n)]
  <1>1. ASSUME NEW P, NEW D, Solves(P, D), NEW n \in D
        PROVE  n \in G /\ H[n] = P[n]
    <2>1. n \in G
      BY Zenon, <1>1 DEF Solves
    <2>2. \E v : \E Q, E : Solves(Q, E) /\ n \in E /\ v = Q[n]
      BY Zenon, <1>1
    <2>3. PICK Q, E : Solves(Q, E) /\ n \in E /\ Value(n) = Q[n]
      BY Zenon, <2>2
    <2>4. Q[n] = P[n]
      BY <1>1, <2>3, SolutionsAgree
    <2> QED
      BY Zenon, <2>1, <2>3, <2>4
  <1>2. Solves(H, G)
    <2>1. ASSUME NEW n \in G
          PROVE  /\ H[n] = NodeState(H, n)
                 /\ \A e \in Edges : e.to = n => e.from \in G
      <3>1. PICK P, D : Solves(P, D) /\ n \in D
        BY Zenon
      <3> HIDE DEF G, H
      <3>2. \A e \in Edges : e.to = n => e.from \in D
        BY Zenon, <3>1 DEF Solves
      <3>3. \A e \in Edges : e.to = n => e.from \in G /\ H[e.from] = P[e.from]
        BY <1>1, <3>1, <3>2
      <3>4. NodeState(H, n) = NodeState(P, n)
        BY Zenon, <3>3, NodeStateLocal
      <3>5. H[n] = P[n] /\ P[n] = NodeState(P, n)
        BY Zenon, <1>1, <3>1 DEF Solves
      <3> QED
        BY Zenon, <3>3, <3>4, <3>5
    <2>2. H = [n \in G |-> H[n]] /\ G \subseteq Nodes
      BY Zenon
    <2> HIDE DEF H, G
    <2> QED
      BY Zenon, <2>1, <2>2 DEF Solves
  <1>3. G = Nodes
    <2> SUFFICES ASSUME Nodes \ G # {} PROVE FALSE
      BY Zenon
    <2> HIDE DEF G, H
    <2>1. PICK n \in Nodes \ G : \A e \in Edges : e.to = n => e.from \notin Nodes \ G
      BY Zenon, GraphAssumption
    <2>2. \A e \in Edges : e.to = n => e.from \in G
      BY Zenon, <2>1, GraphAssumption
    <2> DEFINE E == G \cup {n}
               Q == [m \in E |-> IF m = n THEN NodeState(H, n) ELSE H[m]]
    <2>3. \A m \in G : Q[m] = H[m]
      BY Zenon, <2>1
    <2>4. Q[n] = NodeState(H, n) /\ Q = [m \in E |-> Q[m]]
      BY Zenon
    <2> HIDE DEF Q
    <2>5. ASSUME NEW m \in E PROVE Q[m] = NodeState(Q, m) /\ \A e \in Edges : e.to = m => e.from \in G
      <3>1. \A e \in Edges : e.to = m => e.from \in G
        BY Zenon, <1>2, <2>2 DEF Solves
      <3>2. NodeState(Q, m) = NodeState(H, m)
        BY <2>3, <3>1, NodeStateLocal
      <3>3. Q[m] = NodeState(H, m)
        BY Zenon, <1>2, <2>3, <2>4 DEF Solves
      <3> QED
        BY Zenon, <3>1, <3>2, <3>3
    <2>6. E \subseteq Nodes /\ \A e \in Edges : e.to \in E => e.from \in E
      BY Zenon, <1>2, <2>1, <2>5 DEF Solves
    <2>7. Solves(Q, E)
      BY Zenon, <2>4, <2>5, <2>6 DEF Solves
    <2>8. n \in G
      <3>1. n \in E
        BY Zenon
      <3> QED
        BY Zenon, <1>1, <2>7, <3>1
    <2> QED
      BY Zenon, <2>1, <2>8
  <1>4. H = [n \in Nodes |-> NodeState(H, n)]
    <2> HIDE DEF H, G
    <2> QED BY Zenon, <1>2, <1>3 DEF Solves
  <1>5. \E P : P = [n \in Nodes |-> NodeState(P, n)]
    <2> HIDE DEF H, G
    <2> QED BY Zenon, <1>4
  <1>6. Projection = [n \in Nodes |-> NodeState(Projection, n)]
    BY <1>5, Zenon DEF Projection
  <1> QED
    BY Zenon, <1>6

\* No node has two rows.
OneRow == \A id, jd \in DOMAIN rows : id[1] = jd[1] => id = jd

\* What the projection says of a node with a row, and of one without.
ProjectionReads ==
    /\ \A id \in DOMAIN rows : RowsOf(id[1]) = {id} /\ Projection[id[1]] = rows[id].st
    /\ \A n \in Nodes : RowsOf(n) = {} =>
          Projection[n] = IF Into(n) = {} THEN IF n = Start THEN "Ready" ELSE "Inactive"
                          ELSE IF Blocked(Projection, n) THEN "NotReached"
                          ELSE IF Entered(Projection, n) THEN "Ready"
                          ELSE "Inactive"
    /\ \A n \in Nodes : Projection[n] \in RowStates => \E id \in DOMAIN rows : id[1] = n

\* The projection of a state whose nodes have one row each.
LEMMA ProjectionOf == RowsInv /\ OneRow => ProjectionReads
  <1> SUFFICES ASSUME RowsInv, OneRow PROVE ProjectionReads
    BY Zenon
  <1>1. ASSUME NEW id \in DOMAIN rows
        PROVE  RowsOf(id[1]) = {id} /\ Projection[id[1]] = rows[id].st
    <2>1. RowsOf(id[1]) = {id} /\ id[1] \in Nodes
      BY Zenon DEF RowsOf, OneRow, RowsInv
    <2>2. (CHOOSE i \in RowsOf(id[1]) : TRUE) = id
      BY Zenon, <2>1
    <2>3. Projection[id[1]] = NodeState(Projection, id[1])
      BY Zenon, <2>1, ProjectionIs
    <2> QED
      BY Zenon, <2>1, <2>2, <2>3 DEF NodeState
  <1>2. ASSUME NEW n \in Nodes, RowsOf(n) = {}
        PROVE  Projection[n] = IF Into(n) = {} THEN IF n = Start THEN "Ready" ELSE "Inactive"
                               ELSE IF Blocked(Projection, n) THEN "NotReached"
                               ELSE IF Entered(Projection, n) THEN "Ready"
                               ELSE "Inactive"
    <2>1. Projection[n] = NodeState(Projection, n)
      BY Zenon, ProjectionIs
    <2> QED
      BY Zenon, <1>2, <2>1 DEF NodeState
  <1>3. ASSUME NEW n \in Nodes, Projection[n] \in RowStates
        PROVE  \E id \in DOMAIN rows : id[1] = n
    <2> SUFFICES ASSUME RowsOf(n) = {} PROVE FALSE
      BY Zenon DEF RowsOf
    <2>1. Projection[n] \in {"Ready", "Inactive", "NotReached"}
      BY Zenon, <1>2
    <2> QED
      BY Zenon, <1>3, <2>1 DEF RowStates, RunStates
  <1> QED
    BY Zenon, <1>1, <1>2, <1>3 DEF ProjectionReads

\* The same of the state after a step.
LEMMA ProjectionOfNext == RowsInv' /\ OneRow' => ProjectionReads'
  BY ProjectionOf, PTL

\* What is resolved stays so where a step keeps the settled rows, the decisions behind
\* them and the nodes no branch reaches.
LEMMA ProjectionStays ==
    ASSUME NEW K \in SUBSET Nodes, \A e \in Edges : e.to \in K => e.from \in K,
           RowsInv, OneRow, RowsInv', OneRow',
           \A id \in DOMAIN rows : id[1] \in K /\ rows[id].st \in {"Succeeded", "Cancelled"} =>
              id \in DOMAIN rows' /\ rows'[id].st = rows[id].st,
           \A n \in K : Projection[n] = "Inactive" => RowsOf(n)' = {},
           \A n \in K : Projection[n] = "Succeeded" => decided'[n] = decided[n]
    PROVE  \A n \in K : Projection[n] \in Resolved => Projection'[n] = Projection[n]
  <1> DEFINE S == {n \in K : Projection[n] \in Resolved /\ Projection'[n] # Projection[n]}
  <1> SUFFICES ASSUME S # {} PROVE FALSE
    BY Zenon
  <1>1. ProjectionReads /\ ProjectionReads'
    BY Zenon, ProjectionOf, ProjectionOfNext
  <1>2. PICK n \in S : \A e \in Edges : e.to = n => e.from \notin S
    BY Zenon, GraphAssumption
  <1>3. n \in K /\ n \in Nodes /\ Projection[n] \in Resolved /\ Projection'[n] # Projection[n]
    BY Zenon
  <1>4. CASE Projection[n] \in {"Succeeded", "Cancelled"}
    <2>1. Projection[n] \in RowStates
      BY Zenon, <1>4 DEF RowStates, RunStates
    <2>2. PICK id \in DOMAIN rows : id[1] = n
      BY Zenon, <1>1, <1>3, <2>1 DEF ProjectionReads
    <2>3. rows[id].st = Projection[n]
      BY Zenon, <1>1, <2>2 DEF ProjectionReads
    <2>4. id \in DOMAIN rows' /\ rows'[id].st = Projection[n]
      BY Zenon, <1>3, <1>4, <2>2, <2>3
    <2>5. Projection'[n] = rows'[id].st
      BY Zenon, <1>1, <2>2, <2>4 DEF ProjectionReads
    <2> QED
      BY Zenon, <1>3, <2>4, <2>5
  <1>5. CASE Projection[n] = "Inactive"
    <2>1. RowsOf(n) = {} /\ RowsOf(n)' = {}
      <3>1. ASSUME NEW id \in DOMAIN rows, id[1] = n PROVE FALSE
        <4>1. rows[id].st = "Inactive" /\ rows[id].st \in RowStates
          BY Zenon, <1>1, <1>5, <3>1 DEF ProjectionReads, RowsInv, RowRecs
        <4> QED
          BY Zenon, <4>1 DEF RowStates, RunStates
      <3> QED
        BY Zenon, <1>3, <1>5, <3>1 DEF RowsOf
    <2>2. CASE Into(n) = {}
      <3>1. Projection[n] = IF n = Start THEN "Ready" ELSE "Inactive"
        BY Zenon, <1>1, <1>3, <2>1, <2>2 DEF ProjectionReads
      <3>2. Into(n)' = {}
        BY Zenon, <2>2 DEF Into
      <3>3. Projection'[n] = IF n = Start THEN "Ready" ELSE "Inactive"
        BY Zenon, <1>1, <1>3, <2>1, <3>2 DEF ProjectionReads
      <3> QED
        BY Zenon, <1>3, <3>1, <3>3
    <2>3. CASE Into(n) # {}
      <3>1. ~Blocked(Projection, n) /\ ~Entered(Projection, n)
        BY Zenon, <1>1, <1>3, <1>5, <2>1, <2>3 DEF ProjectionReads
      <3>2. ASSUME NEW e \in Edges, e.to = n
            PROVE  /\ Projection[e.from] \in Resolved /\ Projection'[e.from] = Projection[e.from]
                   /\ ~(Projection[e.from] = "Succeeded" /\ EdgeActive(e)')
        <4>1. Projection[e.from] \in Resolved /\ ~(Projection[e.from] = "Succeeded" /\ EdgeActive(e))
          BY Zenon, <3>1, <3>2 DEF Blocked, Entered, Into
        <4>2. e.from \in K /\ e.from \notin S
          BY Zenon, <1>2, <1>3, <3>2
        <4>3. Projection[e.from] = "Succeeded" => decided'[e.from] = decided[e.from]
          BY Zenon, <4>2
        <4> QED
          BY Zenon, <4>1, <4>2, <4>3 DEF EdgeActive
      <3>3. ~Blocked(Projection, n)' /\ ~Entered(Projection, n)' /\ Into(n)' # {}
        BY Zenon, <2>3, <3>2 DEF Blocked, Entered, Into
      <3> QED
        BY Zenon, <1>1, <1>3, <1>5, <2>1, <3>3 DEF ProjectionReads
    <2> QED
      BY Zenon, <2>2, <2>3
  <1> QED
    BY Zenon, <1>3, <1>4, <1>5 DEF Resolved

-----------------------------------------------------------------------------
(* The rows and the graph.                                                  *)

\* A row stands on the nodes before its own: they have settled, and one of them succeeded
\* and leads to it.
GraphInv ==
    /\ OneRow
    /\ \A id \in DOMAIN rows : id[1] # Start =>
         /\ \A e \in Edges : e.to = id[1] => Projection[e.from] \in {"Succeeded", "Inactive"}
         /\ \E e \in Edges : e.to = id[1] /\ EdgeActive(e) /\ Projection[e.from] = "Succeeded"

\* A transaction that clears nothing: settled rows and the decisions of succeeded nodes stay,
\* and a row is begun for a node that had one or that is ready.
KeepsGraph ==
    /\ OneRow'
    /\ \A id \in DOMAIN rows : rows[id].st \in Settled => id \in DOMAIN rows'
    /\ \A id \in DOMAIN rows' : (\E jd \in DOMAIN rows : jd[1] = id[1]) \/ id[1] \in ReadyNodes
    /\ \A n \in Nodes : Projection[n] = "Succeeded" => decided'[n] = decided[n]

\* Such a transaction keeps every row on its ground and every resolved node resolved.
LEMMA GraphKept ==
    ASSUME RowsInv, RowsInv', GraphInv, KeepsSettled, KeepsGraph,
           \/ \A id \in DOMAIN rows : rows[id].st # "Cancelled"
           \/ \A id \in DOMAIN rows' : \E jd \in DOMAIN rows : jd[1] = id[1]
    PROVE  /\ GraphInv'
           /\ \A n \in Nodes : Projection[n] \in Resolved => Projection'[n] = Projection[n]
  <1>1. OneRow /\ OneRow' /\ ProjectionReads
    BY Zenon, ProjectionOf DEF GraphInv, KeepsGraph
  <1>2. ASSUME NEW n \in Nodes PROVE Projection[n] = "Inactive" => RowsOf(n)' = {}
    <2> SUFFICES ASSUME Projection[n] = "Inactive", NEW id \in DOMAIN rows', id[1] = n PROVE FALSE
      BY Zenon DEF RowsOf
    <2>1. n \notin ReadyNodes
      BY Zenon DEF ReadyNodes
    <2>2. PICK jd \in DOMAIN rows : jd[1] = n
      BY Zenon, <2>1 DEF KeepsGraph
    <2>3. rows[jd].st = "Inactive" /\ rows[jd].st \in RowStates
      BY Zenon, <1>1, <2>2 DEF ProjectionReads, RowsInv, RowRecs
    <2> QED
      BY Zenon, <2>3 DEF RowStates, RunStates
  <1>3. ASSUME NEW id \in DOMAIN rows, rows[id].st \in {"Succeeded", "Cancelled"}
        PROVE  id \in DOMAIN rows' /\ rows'[id].st = rows[id].st
    <2>1. rows[id].st \in Settled
      BY Zenon, <1>3 DEF Settled
    <2> QED
      BY Zenon, <2>1 DEF KeepsGraph, KeepsSettled
  <1>4. \A n \in Nodes : Projection[n] = "Succeeded" => decided'[n] = decided[n]
    BY Zenon DEF KeepsGraph
  <1>5. \A n \in Nodes : Projection[n] \in Resolved => Projection'[n] = Projection[n]
    <2>1. PICK K \in SUBSET Nodes : K = Nodes
      BY Zenon
    <2>2. \A e \in Edges : e.to \in K => e.from \in K
      BY Zenon, <2>1, GraphAssumption
    <2> QED
      BY Zenon, <1>1, <1>2, <1>3, <1>4, <2>1, <2>2, ProjectionStays
  <1>6. ASSUME NEW id \in DOMAIN rows', id[1] # Start
        PROVE  /\ \A e \in Edges : e.to = id[1] => Projection'[e.from] \in {"Succeeded", "Inactive"}
               /\ \E e \in Edges : e.to = id[1] /\ EdgeActive(e)' /\ Projection'[e.from] = "Succeeded"
    <2>1. /\ \A e \in Edges : e.to = id[1] => Projection[e.from] \in {"Succeeded", "Inactive"}
          /\ \E e \in Edges : e.to = id[1] /\ EdgeActive(e) /\ Projection[e.from] = "Succeeded"
      <3>1. CASE \E jd \in DOMAIN rows : jd[1] = id[1]
        BY Zenon, <1>6, <3>1 DEF GraphInv
      <3>2. CASE ~\E jd \in DOMAIN rows : jd[1] = id[1]
        <4>1. /\ id[1] \in Nodes /\ Projection[id[1]] = "Ready" /\ RowsOf(id[1]) = {}
              /\ \A jd \in DOMAIN rows : rows[jd].st # "Cancelled"
          BY Zenon, <3>2 DEF KeepsGraph, ReadyNodes, RowsOf
        <4>2. Into(id[1]) # {} /\ ~Blocked(Projection, id[1]) /\ Entered(Projection, id[1])
          BY Zenon, <1>1, <1>6, <4>1 DEF ProjectionReads
        <4>3. ASSUME NEW e \in Edges, e.to = id[1]
              PROVE  Projection[e.from] \in {"Succeeded", "Inactive"}
          <5>1. e.from \in Nodes /\ Projection[e.from] \in Resolved
            BY Zenon, <4>2, <4>3, GraphAssumption DEF Blocked, Into
          <5>2. Projection[e.from] # "Cancelled"
            <6> SUFFICES ASSUME Projection[e.from] = "Cancelled" PROVE FALSE
              BY Zenon
            <6>1. Projection[e.from] \in RowStates
              BY Zenon DEF RowStates, RunStates
            <6>2. PICK jd \in DOMAIN rows : jd[1] = e.from
              BY Zenon, <1>1, <5>1, <6>1 DEF ProjectionReads
            <6>3. rows[jd].st = "Cancelled"
              BY Zenon, <1>1, <6>2 DEF ProjectionReads
            <6> QED
              BY Zenon, <4>1, <6>3
          <5> QED
            BY Zenon, <5>1, <5>2 DEF Resolved
        <4> QED
          BY Zenon, <4>2, <4>3 DEF Entered, Into
      <3> QED
        BY Zenon, <3>1, <3>2
    <2>2. ASSUME NEW e \in Edges, Projection[e.from] \in {"Succeeded", "Inactive"}
          PROVE  Projection'[e.from] = Projection[e.from]
      BY Zenon, <1>5, <2>2, GraphAssumption DEF Resolved
    <2>3. ASSUME NEW e \in Edges, Projection[e.from] = "Succeeded", EdgeActive(e)
          PROVE  EdgeActive(e)'
      BY Zenon, <1>4, <2>3, GraphAssumption DEF EdgeActive
    <2> QED
      BY Zenon, <2>1, <2>2, <2>3
  <1> QED
    BY Zenon, <1>1, <1>5, <1>6 DEF GraphInv

\* A transaction on the rows there are, without a decision.
LEMMA GraphSame ==
    ASSUME OneRow, DOMAIN rows' = DOMAIN rows,
           \A n \in Nodes : Projection[n] = "Succeeded" => decided'[n] = decided[n]
    PROVE  /\ KeepsGraph
           /\ \A id \in DOMAIN rows' : \E jd \in DOMAIN rows : jd[1] = id[1]
  BY Zenon DEF OneRow, KeepsGraph

\* resume_clear_node_ids leaves whole branches: what is kept has its sources kept.
LEMMA ToClearIs ==
    /\ \A e \in Edges : e.to \in Nodes \ ToClear => e.from \in Nodes \ ToClear
    /\ \A n \in Nodes : \A id \in RowsOf(n) :
          rows[id].st \in {"Failed", "Cancelled"} => n \in ToClear
  <1>1. ASSUME NEW e \in Edges, e.from \in ToClear PROVE e.to \in ToClear
    BY Zenon, <1>1, GraphAssumption DEF ToClear, Downstreams
  <1>2. ASSUME NEW n \in Nodes, NEW id \in RowsOf(n), rows[id].st \in {"Failed", "Cancelled"}
        PROVE  n \in ToClear
    BY Zenon, <1>2 DEF ToClear
  <1> QED
    BY Zenon, <1>1, <1>2, GraphAssumption

\* resume_from_failure keeps every row it leaves on its ground.
LEMMA ResumeGraph ==
    ASSUME RowsInv, RowsInv', GraphInv, ResumeRun
    PROVE  GraphInv'
  <1>1. /\ rows' = Without({id \in DOMAIN rows : id[1] \in ToClear})
        /\ decided' = [n \in Nodes |-> IF n \in ToClear THEN "none" ELSE decided[n]]
    BY Zenon DEF ResumeRun
  <1>2. /\ DOMAIN rows' \subseteq DOMAIN rows
        /\ \A id \in DOMAIN rows : id[1] \notin ToClear => id \in DOMAIN rows'
        /\ \A id \in DOMAIN rows' : id[1] \notin ToClear /\ rows'[id] = rows[id]
    BY Zenon, <1>1 DEF Without
  <1>3. PICK K \in SUBSET Nodes : K = Nodes \ ToClear
    BY Zenon
  <1>4. OneRow /\ OneRow' /\ ProjectionReads
    BY Zenon, <1>2, ProjectionOf DEF GraphInv, OneRow
  <1>5. \A e \in Edges : e.to \in K => e.from \in K
    BY Zenon, <1>3, ToClearIs
  <1>6. ASSUME NEW n \in K PROVE Projection[n] = "Inactive" => RowsOf(n)' = {}
    <2> SUFFICES ASSUME Projection[n] = "Inactive", NEW id \in DOMAIN rows', id[1] = n PROVE FALSE
      BY Zenon DEF RowsOf
    <2>1. rows[id].st = "Inactive" /\ rows[id].st \in RowStates
      BY Zenon, <1>2, <1>4 DEF ProjectionReads, RowsInv, RowRecs
    <2> QED
      BY Zenon, <2>1 DEF RowStates, RunStates
  <1>7. \A n \in K : decided'[n] = decided[n]
    BY Zenon, <1>1, <1>3
  <1>8. \A id \in DOMAIN rows : id[1] \in K => id \in DOMAIN rows' /\ rows'[id].st = rows[id].st
    BY Zenon, <1>2, <1>3
  <1>9. \A n \in K : Projection[n] \in Resolved => Projection'[n] = Projection[n]
    BY Zenon, <1>4, <1>5, <1>6, <1>7, <1>8, ProjectionStays
  <1>10. ASSUME NEW id \in DOMAIN rows', id[1] # Start
         PROVE  /\ \A e \in Edges : e.to = id[1] => Projection'[e.from] \in {"Succeeded", "Inactive"}
                /\ \E e \in Edges : e.to = id[1] /\ EdgeActive(e)' /\ Projection'[e.from] = "Succeeded"
    <2>1. /\ \A e \in Edges : e.to = id[1] => Projection[e.from] \in {"Succeeded", "Inactive"}
          /\ \E e \in Edges : e.to = id[1] /\ EdgeActive(e) /\ Projection[e.from] = "Succeeded"
      BY Zenon, <1>2, <1>10 DEF GraphInv
    <2>2. id[1] \in K
      BY Zenon, <1>2, <1>3 DEF RowsInv
    <2>3. ASSUME NEW e \in Edges, e.to = id[1], Projection[e.from] \in {"Succeeded", "Inactive"}
          PROVE  Projection'[e.from] = Projection[e.from] /\ (EdgeActive(e) => EdgeActive(e)')
      <3>1. e.from \in K
        BY Zenon, <1>5, <2>2, <2>3
      <3> QED
        BY Zenon, <1>7, <1>9, <2>3, <3>1 DEF Resolved, EdgeActive
    <2> QED
      BY Zenon, <2>1, <2>3
  <1> QED
    BY Zenon, <1>4, <1>10 DEF GraphInv

\* With nothing ready and nothing in flight, a Running run has come to the end of every
\* branch it took.
LEMMA NothingLeft ==
    ASSUME RowsInv, OneRow, ReadyNodes = {}, ~HasInFlight,
           \A id \in DOMAIN rows : rows[id].st \notin {"Failed", "Cancelled"}
    PROVE  \A n \in Nodes : Projection[n] \in {"Succeeded", "Inactive"}
  <1> DEFINE S == {n \in Nodes : Projection[n] \notin {"Succeeded", "Inactive"}}
  <1> SUFFICES ASSUME S # {} PROVE FALSE
    BY Zenon
  <1>1. ProjectionReads
    BY Zenon, ProjectionOf
  <1>2. PICK n \in S : \A e \in Edges : e.to = n => e.from \notin S
    BY Zenon, GraphAssumption
  <1>3. n \in Nodes /\ Projection[n] \notin {"Succeeded", "Inactive", "Ready"}
    BY Zenon DEF ReadyNodes
  <1>4. RowsOf(n) = {}
    <2> SUFFICES ASSUME NEW id \in DOMAIN rows, id[1] = n PROVE FALSE
      BY Zenon DEF RowsOf
    <2>1. Projection[n] = rows[id].st /\ rows[id].st \in RowStates
      BY Zenon, <1>1 DEF ProjectionReads, RowsInv, RowRecs
    <2>2. rows[id].st \notin {"Running", "Pending", "Failed", "Cancelled"}
      BY Zenon DEF HasInFlight
    <2> QED
      BY Zenon, <1>3, <2>1, <2>2 DEF RowStates, RunStates
  <1>5. Blocked(Projection, n)
    BY Zenon, <1>1, <1>3, <1>4 DEF ProjectionReads
  <1>6. PICK e \in Edges : e.to = n /\ Projection[e.from] \notin Resolved
    BY Zenon, <1>5 DEF Blocked, Into
  <1> QED
    BY Zenon, <1>2, <1>6, GraphAssumption DEF Resolved

-----------------------------------------------------------------------------
(* The run's status, and who drives a row.                                  *)

\* The run's status and its rows.
StatusInv ==
    /\ run \in RunStates
    /\ run = "Running" => \A id \in DOMAIN rows : rows[id].st \notin {"Failed", "Cancelled"}
    /\ run # "Running" => \A id \in DOMAIN rows : ~rows[id].waiting
    /\ run = "Pending" => DOMAIN rows = {}
    /\ run \in {"Succeeded", "Cancelled"} =>
          \A id \in DOMAIN rows : rows[id].st \notin {"Running", "Pending"}
    /\ proc = "swept" => RunningRows = {}

DoneInv == run = "Succeeded" => \A n \in Nodes : Projection[n] \in {"Succeeded", "Inactive"}

Known(id) == id \in Nodes \X Nat /\ id[2] <= minted[id[1]]

\* An id has one driver, one human turn or one stopped prompt at most.  In a live process
\* a Running row of an Agent node has one, or waits for its timer; a Pending row has none.
Owned(id) ==
    /\ id \in muted => id \notin preparing \cup prompting \cup turns
    /\ id \in turns => id \notin preparing \cup prompting
    /\ id \in preparing => id \notin prompting
    /\ id \in timers \cup muted => Known(id)
    /\ id \in DOMAIN rows =>
         /\ id \in muted => ~rows[id].waiting
         /\ rows[id].st = "Pending" => id \notin preparing \cup prompting \cup turns \cup muted
         /\ proc = "up" /\ rows[id].st = "Running" /\ ~Swift(id) =>
              IF rows[id].waiting THEN id \in timers
              ELSE id \in preparing \cup prompting \cup turns \cup muted

OwnerInv == \A id : Owned(id)

FlowInv == EndedInv /\ StatusInv /\ GraphInv /\ DoneInv /\ OwnerInv

\* What a transaction of fail_node leaves.
LEMMA FailRowsIs ==
    ASSUME RowsInv, NEW S, FailRows(S)
    PROVE  /\ DOMAIN rows' = DOMAIN rows
           /\ \A i \in DOMAIN rows : \/ rows'[i] = rows[i]
                                     \/ rows'[i].st \in {"Failed", "Cancelled"} /\ ~rows'[i].waiting
           /\ \A i \in S \cap DOMAIN rows : rows'[i].st # "Running"
           /\ \/ rows' = rows /\ run' = run
              \/ /\ \A i \in DOMAIN rows : ~rows'[i].waiting
                 /\ run' = IF run = "Running" THEN "Failed" ELSE run
  <1> DEFINE hit == {id \in S : At(id, "Running")}
             New(id) == IF id \in hit THEN [rows[id] EXCEPT !.st = "Failed", !.waiting = FALSE]
                        ELSE IF hit # {} /\ rows[id].waiting
                             THEN [rows[id] EXCEPT !.st = "Cancelled", !.waiting = FALSE]
                        ELSE rows[id]
  <1>1. /\ rows' = [id \in DOMAIN rows |-> New(id)]
        /\ run' = IF hit # {} /\ run = "Running" THEN "Failed" ELSE run
    BY Zenon DEF FailRows
  <1>2. ASSUME NEW id \in DOMAIN rows
        PROVE  /\ \/ New(id) = rows[id]
                  \/ New(id).st \in {"Failed", "Cancelled"} /\ ~New(id).waiting
               /\ id \in S => New(id).st # "Running"
               /\ hit # {} => ~New(id).waiting
               /\ hit = {} => New(id) = rows[id]
    <2>1. rows[id] \in RowRecs
      BY Zenon DEF RowsInv
    <2>2. ASSUME NEW st \in {"Failed", "Cancelled"}
          PROVE  LET r == [rows[id] EXCEPT !.st = st, !.waiting = FALSE]
                 IN  r.waiting = FALSE /\ r.st = st
      BY Zenon, <2>1 DEF RowRecs
    <2>3. CASE id \in hit
      BY Zenon, <2>2, <2>3
    <2>4. CASE id \notin hit /\ hit # {} /\ rows[id].waiting
      BY Zenon, <2>2, <2>4
    <2>5. CASE id \notin hit /\ ~(hit # {} /\ rows[id].waiting)
      <3>1. New(id) = rows[id]
        BY Zenon, <2>5
      <3>2. id \in S => rows[id].st # "Running"
        BY Zenon, <2>5 DEF At
      <3>3. ~(hit # {} /\ rows[id].waiting)
        BY Zenon, <2>5
      <3> HIDE DEF New, hit
      <3> QED
        BY Zenon, <3>1, <3>2, <3>3
    <2> QED
      BY Zenon, <2>3, <2>4, <2>5
  <1> HIDE DEF New
  <1>3. DOMAIN rows' = DOMAIN rows /\ \A id \in DOMAIN rows : rows'[id] = New(id)
    BY Zenon, <1>1
  <1>4. CASE hit = {}
    <2>1. rows' = rows
      BY Zenon, <1>1, <1>2, <1>4 DEF RowsInv
    <2> QED
      BY Zenon, <1>1, <1>2, <1>3, <1>4, <2>1
  <1>5. CASE hit # {}
    <2> HIDE DEF hit
    <2> QED
      BY Zenon, <1>1, <1>2, <1>3, <1>5
  <1> QED
    BY Zenon, <1>4, <1>5

\* What CancelRun and the boot sweep leave.
LEMMA SweptIs ==
    ASSUME RowsInv, NEW st \in {"Failed", "Cancelled"},
           rows' = [id \in DOMAIN rows |->
                      IF rows[id].st \in {"Running", "Pending"}
                      THEN [rows[id] EXCEPT !.st = st, !.waiting = FALSE] ELSE rows[id]]
    PROVE  /\ DOMAIN rows' = DOMAIN rows
           /\ \A i \in DOMAIN rows : rows'[i].st \in Settled /\ ~rows'[i].waiting
  <1>1. DOMAIN rows' = DOMAIN rows
    BY Zenon
  <1>2. ASSUME NEW i \in DOMAIN rows PROVE rows'[i].st \in Settled /\ ~rows'[i].waiting
    <2>1. /\ rows[i] \in RowRecs /\ rows[i].st \in RowStates
          /\ rows[i].waiting => rows[i].st = "Running"
      BY Zenon DEF RowsInv, RowRecs
    <2>2. CASE rows[i].st \in {"Running", "Pending"}
      <3>1. rows'[i] = [rows[i] EXCEPT !.st = st, !.waiting = FALSE]
        BY Zenon, <2>2
      <3>2. LET r == [rows[i] EXCEPT !.st = st, !.waiting = FALSE] IN r.st = st /\ r.waiting = FALSE
        BY ONLY Zenon, <2>1 DEF RowRecs
      <3> QED
        BY Zenon, <3>1, <3>2 DEF Settled
    <2>3. CASE rows[i].st \notin {"Running", "Pending"}
      <3>1. rows'[i] = rows[i]
        BY Zenon, <2>3
      <3> QED
        BY Zenon, <2>1, <2>3, <3>1 DEF RowStates, RunStates, Settled
    <2> QED
      BY Zenon, <2>2, <2>3
  <1> QED
    BY Zenon, <1>1, <1>2

\* What the write of one row's status leaves.
LEMMA WriteIs ==
    ASSUME RowsInv, NEW id \in DOMAIN rows, NEW st, rows' = [rows EXCEPT ![id].st = st]
    PROVE  /\ DOMAIN rows' = DOMAIN rows /\ \A i \in DOMAIN rows : i # id => rows'[i] = rows[i]
           /\ rows'[id].st = st /\ rows'[id].waiting = rows[id].waiting
  <1>1. rows[id] \in RowRecs /\ rows'[id] = [rows[id] EXCEPT !.st = st]
    BY Zenon DEF RowsInv
  <1>2. rows'[id].st = st /\ rows'[id].waiting = rows[id].waiting
    BY Zenon, <1>1 DEF RowRecs
  <1> QED
    BY Zenon, <1>2

\* A transaction on the rows there are keeps them on their ground.
LEMMA FlowSame ==
    ASSUME FlowInv, RowsInv', KeepsSettled, DOMAIN rows' = DOMAIN rows, decided' = decided,
           run' = "Succeeded" => run = "Succeeded"
    PROVE  GraphInv' /\ DoneInv'
  <1>1. RowsInv /\ GraphInv /\ OneRow /\ DoneInv
    BY Zenon DEF FlowInv, EndedInv, GraphInv
  <1>2. KeepsGraph /\ \A id \in DOMAIN rows' : \E jd \in DOMAIN rows : jd[1] = id[1]
    BY Zenon, <1>1, GraphSame
  <1>3. /\ GraphInv'
        /\ \A n \in Nodes : Projection[n] \in Resolved => Projection'[n] = Projection[n]
    BY Zenon, <1>1, <1>2, GraphKept
  <1> QED
    BY Zenon, <1>1, <1>3 DEF DoneInv, Resolved

\* A known id stays known.
LEMMA KnownStays ==
    ASSUME RowsInv, RowsInv', NewWaits, NEW i, Known(i)
    PROVE  Known(i)'
  <1>1. i \in Nodes \X Nat /\ i[1] \in Nodes /\ i[2] \in Nat /\ i[2] <= minted[i[1]]
    BY Zenon DEF Known
  <1>2. minted[i[1]] \in Nat /\ minted'[i[1]] \in Nat /\ minted'[i[1]] >= minted[i[1]]
    BY Zenon, <1>1 DEF RowsInv, NewWaits
  <1>3. i[2] <= minted'[i[1]]
    BY <1>1, <1>2
  <1> QED
    BY Zenon, <1>1, <1>3 DEF Known

\* A row that is written by nobody, or is settled, keeps its owner.
LEMMA OwnedStays ==
    ASSUME RowsInv, RowsInv', NewWaits, NEW i, Owned(i), proc' = "up" => proc = "up",
           i \in preparing' <=> i \in preparing, i \in prompting' <=> i \in prompting,
           i \in turns' <=> i \in turns, i \in timers' <=> i \in timers,
           \/ i \in muted' <=> i \in muted
           \/ i \notin muted' /\ (i \in DOMAIN rows' => rows'[i].st \in Settled),
           i \in DOMAIN rows' => \/ i \in DOMAIN rows /\ rows'[i] = rows[i]
                                 \/ rows'[i].st \in Settled /\ ~rows'[i].waiting
    PROVE  Owned(i)'
  <1>1. i \in timers' \cup muted' => Known(i)'
    <2>1. i \in timers' \cup muted' => i \in timers \cup muted
      BY Zenon
    <2> QED
      BY Zenon, <2>1, KnownStays DEF Owned
  <1>2. /\ i \in muted' => i \notin preparing' \cup prompting' \cup turns'
        /\ i \in turns' => i \notin preparing' \cup prompting'
        /\ i \in preparing' => i \notin prompting'
    BY Zenon DEF Owned
  <1>3. CASE i \in DOMAIN rows' /\ rows'[i].st \in Settled /\ ~rows'[i].waiting
    BY Zenon, <1>1, <1>2, <1>3 DEF Owned, Settled
  <1>4. CASE i \in DOMAIN rows' /\ i \in DOMAIN rows /\ rows'[i] = rows[i] /\ rows'[i].st \notin Settled
    <2>1. i \in muted' <=> i \in muted
      BY Zenon, <1>4
    <2>2. Swift(i)' = Swift(i)
      BY Zenon DEF Swift
    <2>3. /\ i \in muted' => ~rows'[i].waiting
          /\ rows'[i].st = "Pending" => i \notin preparing' \cup prompting' \cup turns' \cup muted'
      BY Zenon, <1>4, <2>1 DEF Owned
    <2>4. proc' = "up" /\ rows'[i].st = "Running" /\ ~Swift(i)' =>
             IF rows'[i].waiting THEN i \in timers'
             ELSE i \in preparing' \cup prompting' \cup turns' \cup muted'
      BY Zenon, <1>4, <2>1, <2>2 DEF Owned
    <2> QED
      BY Zenon, <1>1, <1>2, <2>3, <2>4 DEF Owned
  <1>5. CASE i \notin DOMAIN rows'
    BY Zenon, <1>1, <1>2, <1>5 DEF Owned
  <1>6. i \in DOMAIN rows /\ rows[i].st \in Settled => ~rows[i].waiting
    BY Zenon DEF RowsInv, Settled
  <1> QED
    BY Zenon, <1>3, <1>4, <1>5, <1>6

\* An id that is drawn has no owner yet.
LEMMA FreshUnowned ==
    ASSUME EndedInv, OwnerInv, NEW n \in Nodes
    PROVE  Fresh(n) \notin preparing \cup prompting \cup turns \cup timers \cup muted
  <1>1. Fresh(n)[1] = n /\ Fresh(n)[2] = minted[n] + 1 /\ minted[n] \in Nat
    BY Zenon, FreshIsNew DEF EndedInv, RowsInv
  <1>2. ~(Fresh(n)[2] <= minted[Fresh(n)[1]])
    BY <1>1
  <1>3. Fresh(n) \notin preparing \cup prompting \cup turns
    BY Zenon, <1>2 DEF EndedInv, DriverInv
  <1>4. Fresh(n) \notin timers \cup muted
    BY Zenon, <1>2 DEF OwnerInv, Owned, Known
  <1> QED
    BY Zenon, <1>3, <1>4

\* The parts of the invariant a step starts from, and what EndedStep gives of it.
LEMMA FlowParts ==
    FlowInv => /\ RowsInv /\ GateInv /\ DriverInv /\ EndedInv /\ StatusInv /\ GraphInv
               /\ OneRow /\ DoneInv /\ OwnerInv
  BY Zenon DEF FlowInv, EndedInv, GraphInv

\* A step that writes no row and leaves the owners: commands that only switch, the head of
\* the loop, claims and their preparation.
LEMMA QuietFlow ==
    ASSUME FlowInv, EndedInv', KeepsRows,
           UNCHANGED <<run, rows, decided, minted, proc, preparing, prompting, timers, muted, turns>>
    PROVE  FlowInv'
  <1>1. GraphInv' /\ DoneInv'
    BY Zenon, FlowSame DEF EndedInv, KeepsRows
  <1>2. StatusInv'
    BY Zenon DEF FlowInv, StatusInv, RunningRows
  <1>3. OwnerInv'
    <2> SUFFICES ASSUME NEW i PROVE Owned(i)'
      BY Zenon DEF OwnerInv
    <2>1. Owned(i)
      BY Zenon, FlowParts DEF OwnerInv
    <2> QED
      BY Zenon, <2>1, OwnedStays, FlowParts DEF EndedInv, KeepsRows
  <1> QED
    BY Zenon, <1>1, <1>2, <1>3 DEF FlowInv

\* start_run: its row is the only one.
LEMMA StartFlow ==
    ASSUME FlowInv, EndedInv', KeepsRows, StartRun
    PROVE  FlowInv'
  <1> USE DEF db, loop, drivers, human, bounds
  <1>1. /\ run = "Pending" /\ run' = "Running" /\ proc = "up" /\ decided' = decided
        /\ rows' = Started({Start}, FirstAttempt)
        /\ UNCHANGED <<proc, preparing, prompting, timers, muted, turns>>
    BY Zenon DEF StartRun
  <1>2. DOMAIN rows = {}
    BY Zenon, <1>1, FlowParts DEF StatusInv
  <1>3. DOMAIN rows' = {Fresh(Start)} /\ rows'[Fresh(Start)] = FirstAttempt
    BY Zenon, <1>1, <1>2 DEF Started
  <1>4. /\ Start \in Nodes /\ Fresh(Start)[1] = Start /\ Kind[Start] = "start"
        /\ Fresh(Start) \notin preparing \cup prompting \cup turns \cup timers \cup muted
    BY Zenon, FlowParts, FreshIsNew, FreshUnowned, GraphAssumption
  <1>5. FirstAttempt.st = "Running" /\ FirstAttempt.waiting = FALSE
    BY Zenon DEF FirstAttempt
  <1>6. StatusInv'
    BY Zenon, <1>1, <1>3, <1>5 DEF StatusInv, RunStates
  <1>7. GraphInv' /\ DoneInv'
    BY Zenon, <1>1, <1>3, <1>4 DEF GraphInv, OneRow, DoneInv
  <1>8. OwnerInv'
    <2> SUFFICES ASSUME NEW i PROVE Owned(i)'
      BY Zenon DEF OwnerInv
    <2>1. Owned(i)
      BY Zenon, FlowParts DEF OwnerInv
    <2>2. CASE i = Fresh(Start)
      <3>1. Swift(i)'
        BY Zenon, <1>4, <2>2 DEF Swift
      <3> QED
        BY Zenon, <1>1, <1>3, <1>4, <1>5, <2>2, <3>1 DEF Owned
    <2>3. CASE i # Fresh(Start)
      BY Zenon, <1>1, <1>3, <2>1, <2>3, OwnedStays, FlowParts DEF EndedInv, KeepsRows
    <2> QED
      BY Zenon, <2>2, <2>3
  <1> QED
    BY Zenon, <1>6, <1>7, <1>8 DEF FlowInv

\* restart_run clears the run; resume_from_failure keeps what does not depend on a failure.
LEMMA ClearFlow ==
    ASSUME FlowInv, EndedInv', KeepsRows, RestartRun \/ ResumeRun
    PROVE  FlowInv'
  <1> USE DEF db, loop, drivers, human, bounds
  <1>1. /\ proc = "up" /\ UNCHANGED <<proc, preparing, prompting, timers, muted, turns>>
        /\ DOMAIN rows' \subseteq DOMAIN rows /\ \A id \in DOMAIN rows' : rows'[id] = rows[id]
    BY Zenon DEF RestartRun, ResumeRun, Without, Free
  <1>2. OwnerInv'
    <2> SUFFICES ASSUME NEW i PROVE Owned(i)'
      BY Zenon DEF OwnerInv
    <2>1. Owned(i)
      BY Zenon, FlowParts DEF OwnerInv
    <2> QED
      BY Zenon, <1>1, <2>1, OwnedStays, FlowParts DEF EndedInv, KeepsRows
  <1>3. CASE RestartRun
    <2>1. run' = "Pending" /\ DOMAIN rows' = {}
      BY Zenon, <1>3 DEF RestartRun, Without
    <2>2. StatusInv'
      BY Zenon, <1>1, <2>1 DEF StatusInv, RunStates
    <2>3. GraphInv' /\ DoneInv'
      BY Zenon, <2>1 DEF GraphInv, OneRow, DoneInv
    <2> QED
      BY Zenon, <1>2, <2>2, <2>3 DEF FlowInv
  <1>4. CASE ResumeRun
    <2>1. /\ run' = "Running" /\ RunningRows = {}
          /\ rows' = Without({id \in DOMAIN rows : id[1] \in ToClear})
      BY Zenon, <1>4 DEF ResumeRun, Resumable
    <2>2. \A id \in DOMAIN rows' : id \in RowsOf(id[1]) /\ id[1] \in Nodes /\ id[1] \notin ToClear
      BY Zenon, <1>1, <2>1, FlowParts DEF Without, RowsOf, RowsInv
    <2>3. \A id \in DOMAIN rows' : rows'[id].st \notin {"Failed", "Cancelled"}
      BY Zenon, <1>1, <2>2, ToClearIs
    <2>4. StatusInv'
      BY Zenon, <1>1, <2>1, <2>3 DEF StatusInv, RunStates
    <2>5. GraphInv' /\ DoneInv'
      BY Zenon, <1>4, <2>1, ResumeGraph, FlowParts DEF EndedInv, DoneInv
    <2> QED
      BY Zenon, <1>2, <2>4, <2>5 DEF FlowInv
  <1> QED
    BY Zenon, <1>3, <1>4

\* cancel_run settles every row.
LEMMA CancelFlow ==
    ASSUME FlowInv, EndedInv', KeepsRows, CancelRun
    PROVE  FlowInv'
  <1> USE DEF db, loop, drivers, human, bounds
  <1>1. /\ run' = "Cancelled" /\ decided' = decided /\ proc' = "up" /\ proc = "up" /\ muted' = {}
        /\ rows' = [id \in DOMAIN rows |->
                       IF rows[id].st \in {"Running", "Pending"}
                       THEN [rows[id] EXCEPT !.st = "Cancelled", !.waiting = FALSE] ELSE rows[id]]
        /\ UNCHANGED <<preparing, prompting, timers, turns>>
    BY Zenon DEF CancelRun, Free
  <1>2. /\ DOMAIN rows' = DOMAIN rows
        /\ \A i \in DOMAIN rows : rows'[i].st \in Settled /\ ~rows'[i].waiting
    BY Zenon, <1>1, SweptIs, FlowParts
  <1>3. StatusInv'
    BY Zenon, <1>1, <1>2 DEF StatusInv, RunStates, Settled
  <1>4. GraphInv' /\ DoneInv'
    BY Zenon, <1>1, <1>2, FlowSame DEF EndedInv, KeepsRows
  <1>5. OwnerInv'
    <2> SUFFICES ASSUME NEW i PROVE Owned(i)'
      BY Zenon DEF OwnerInv
    <2>1. Owned(i)
      BY Zenon, FlowParts DEF OwnerInv
    <2> QED
      BY Zenon, <1>1, <1>2, <2>1, OwnedStays, FlowParts DEF EndedInv, KeepsRows
  <1> QED
    BY Zenon, <1>3, <1>4, <1>5 DEF FlowInv

\* fail_node settles its row and the waiting attempts, and fails a Running run.
LEMMA FailFlow ==
    ASSUME FlowInv, RowsInv', KeepsRows, NEW S, FailRows(S), proc = "up", proc' = "up",
           decided' = decided
    PROVE  StatusInv' /\ GraphInv' /\ DoneInv'
  <1>1. /\ DOMAIN rows' = DOMAIN rows
        /\ \A i \in DOMAIN rows : \/ rows'[i] = rows[i]
                                  \/ rows'[i].st \in {"Failed", "Cancelled"} /\ ~rows'[i].waiting
        /\ \/ rows' = rows /\ run' = run
           \/ /\ \A i \in DOMAIN rows : ~rows'[i].waiting
              /\ run' = IF run = "Running" THEN "Failed" ELSE run
    BY Zenon, FailRowsIs, FlowParts
  <1>2. StatusInv
    BY Zenon, FlowParts
  <1>3. StatusInv'
    <2>1. CASE rows' = rows /\ run' = run
      BY Zenon, <1>2, <2>1 DEF StatusInv
    <2>2. CASE /\ \A i \in DOMAIN rows : ~rows'[i].waiting
               /\ run' = IF run = "Running" THEN "Failed" ELSE run
      BY Zenon, <1>1, <1>2, <2>2 DEF StatusInv, RunStates
    <2> QED
      BY Zenon, <1>1, <2>1, <2>2
  <1>4. GraphInv' /\ DoneInv'
    BY Zenon, <1>1, FlowSame DEF KeepsRows
  <1> QED
    BY Zenon, <1>3, <1>4

\* A row that is in flight is parked, begun again or completed.
LEMMA WriteFlow ==
    ASSUME FlowInv, RowsInv', KeepsRows, proc = "up", proc' = "up", run' = run,
           DOMAIN rows' = DOMAIN rows,
           \A i \in DOMAIN rows :
              \/ rows'[i] = rows[i]
              \/ /\ rows[i].st \in {"Running", "Pending"} /\ ~rows'[i].waiting
                 /\ rows'[i].st \in {"Running", "Pending", "Succeeded"}
    PROVE  StatusInv' /\ (decided' = decided => GraphInv' /\ DoneInv')
  <1>1. StatusInv'
    <2>1. StatusInv
      BY Zenon, FlowParts
    <2> QED
      BY Zenon, <2>1 DEF StatusInv
  <1>2. decided' = decided => GraphInv' /\ DoneInv'
    BY Zenon, FlowSame DEF KeepsRows
  <1> QED
    BY Zenon, <1>1, <1>2

\* The plan of a scheduling pass: a new row stands on what the pass has seen, and a run
\* ends when it has come to the end of its branches.
LEMMA PlanFlow ==
    ASSUME FlowInv, EndedInv', KeepsRows, Plan
    PROVE  FlowInv'
  <1> USE DEF db, loop, drivers, human, bounds
  <1>1. /\ RowsInv /\ RowsInv' /\ GraphInv /\ OneRow /\ StatusInv
        /\ run = "Running" /\ proc = "up" /\ proc' = "up" /\ decided' = decided
        /\ UNCHANGED <<prompting, timers, muted, turns>>
        /\ run' = IF ReadyNodes = {} /\ ~HasInFlight THEN "Succeeded" ELSE run
    BY Zenon, FlowParts DEF Plan, GateInv, EndedInv
  <1> DEFINE R == ReadyNodes
             D == DOMAIN rows \cup {Fresh(n) : n \in R}
  <1>2. /\ R \subseteq Nodes /\ \A n \in R : Projection[n] = "Ready"
        /\ rows' = Started(R, FirstAttempt)
        /\ preparing' = preparing \cup {Fresh(n) : n \in {m \in R : Kind[m] = "agent"}}
        /\ run' = IF R = {} /\ ~HasInFlight THEN "Succeeded" ELSE run
    BY Zenon, <1>1 DEF Plan, ReadyNodes
  <1>3. \A id \in DOMAIN rows : rows[id].st \notin {"Failed", "Cancelled"}
    BY Zenon, <1>1 DEF StatusInv
  <1>4. \A n \in R : \A id \in DOMAIN rows : id[1] # n
    <2> SUFFICES ASSUME NEW id \in DOMAIN rows, id[1] \in R PROVE FALSE
      BY Zenon
    <2>1. rows[id].st = "Ready" /\ rows[id].st \in RowStates
      BY Zenon, <1>1, <1>2, ProjectionOf DEF ProjectionReads, RowsInv, RowRecs
    <2> QED
      BY Zenon, <2>1 DEF RowStates, RunStates
  <1>5. \A n \in R : n \in ReadyNodes
    BY Zenon
  <1>6. R = {} => ReadyNodes = {}
    BY Zenon
  <1> HIDE DEF R
  <1>7. /\ DOMAIN rows' = D
        /\ \A id \in DOMAIN rows : rows'[id] = rows[id]
        /\ \A id \in D : id \notin DOMAIN rows => rows'[id] = FirstAttempt
    BY Zenon, <1>2 DEF Started
  <1>8. ASSUME NEW n \in R
        PROVE  /\ Fresh(n) \notin DOMAIN rows /\ Fresh(n)[1] = n
               /\ Fresh(n) \notin preparing \cup prompting \cup turns \cup timers \cup muted
    BY Zenon, <1>1, <1>2, FlowParts, FreshIsNew, FreshUnowned
  <1>9. FirstAttempt.st = "Running" /\ FirstAttempt.waiting = FALSE
    BY Zenon DEF FirstAttempt
  <1>10. KeepsGraph
    <2>1. OneRow'
      <3> SUFFICES ASSUME NEW id \in D, NEW jd \in D, id[1] = jd[1] PROVE id = jd
        BY Zenon, <1>7 DEF OneRow
      <3>1. CASE id \in DOMAIN rows /\ jd \in DOMAIN rows
        BY Zenon, <1>1, <3>1 DEF OneRow
      <3>2. CASE id \notin DOMAIN rows \/ jd \notin DOMAIN rows
        BY <1>4, <1>8, <3>2
      <3> QED
        BY Zenon, <3>1, <3>2
    <2>2. \A id \in D : (\E jd \in DOMAIN rows : jd[1] = id[1]) \/ id[1] \in ReadyNodes
      BY Zenon, <1>5, <1>8
    <2> QED
      BY Zenon, <1>1, <1>7, <2>1, <2>2 DEF KeepsGraph
  <1>11. /\ GraphInv'
         /\ \A n \in Nodes : Projection[n] \in Resolved => Projection'[n] = Projection[n]
    BY Zenon, <1>1, <1>3, <1>10, GraphKept DEF KeepsRows
  <1>12. DoneInv'
    <2> SUFFICES ASSUME run' = "Succeeded"
                 PROVE  \A n \in Nodes : Projection'[n] \in {"Succeeded", "Inactive"}
      BY Zenon DEF DoneInv
    <2>1. ReadyNodes = {} /\ ~HasInFlight
      BY Zenon, <1>1
    <2>2. \A n \in Nodes : Projection[n] \in {"Succeeded", "Inactive"}
      BY Zenon, <1>1, <1>3, <2>1, NothingLeft
    <2> QED
      BY Zenon, <1>11, <2>2 DEF Resolved
  <1>13. StatusInv'
    <2>1. CASE run' = "Running"
      <3>1. \A id \in D : rows'[id].st \notin {"Failed", "Cancelled"}
        BY Zenon, <1>3, <1>7, <1>9
      <3> QED
        BY Zenon, <1>1, <1>7, <2>1, <3>1 DEF StatusInv, RunStates
    <2>2. CASE run' = "Succeeded" /\ R = {} /\ ~HasInFlight
      <3>1. D = DOMAIN rows
        BY Zenon, <2>2
      <3>2. \A id \in DOMAIN rows : rows[id].st \notin {"Running", "Pending"} /\ ~rows[id].waiting
        BY Zenon, <1>1, <2>2 DEF HasInFlight, RowsInv
      <3> QED
        BY Zenon, <1>1, <1>7, <2>2, <3>1, <3>2 DEF StatusInv, RunStates
    <2> QED
      BY Zenon, <1>1, <1>2, <2>1, <2>2
  <1>14. OwnerInv'
    <2> SUFFICES ASSUME NEW i PROVE Owned(i)'
      BY Zenon DEF OwnerInv
    <2>1. Owned(i)
      BY Zenon, FlowParts DEF OwnerInv
    <2>2. ASSUME NEW n \in R, i = Fresh(n) PROVE Owned(i)'
      <3>1. /\ i \in DOMAIN rows' /\ rows'[i].st = "Running" /\ ~rows'[i].waiting
            /\ i \notin prompting' \cup turns' \cup timers' \cup muted'
        BY Zenon, <1>1, <1>7, <1>8, <1>9, <2>2
      <3>2. ~Swift(i)' => i \in preparing'
        BY Zenon, <1>2, <1>8, <2>2 DEF Swift
      <3> QED
        BY Zenon, <3>1, <3>2 DEF Owned
    <2>3. CASE \A n \in R : i # Fresh(n)
      <3>1. (i \in preparing' <=> i \in preparing) /\ (i \in DOMAIN rows' => i \in DOMAIN rows)
        BY Zenon, <1>2, <1>7, <2>3
      <3> QED
        BY Zenon, <1>1, <1>7, <2>1, <3>1, OwnedStays DEF KeepsRows
    <2> QED
      BY Zenon, <2>2, <2>3
  <1> QED
    BY Zenon, <1>11, <1>12, <1>13, <1>14 DEF FlowInv

\* The other steps of the scheduling loop.
LEMMA PassFlow ==
    ASSUME FlowInv, EndedInv', KeepsRows, NEW id \in todo,
           SwiftFails(id) \/ \E port \in Ports : SwiftCompletes(id, port)
    PROVE  FlowInv'
  <1> USE DEF db, loop, drivers, human, bounds
  <1>1. /\ RowsInv /\ RowsInv' /\ GraphInv /\ OneRow /\ DoneInv
        /\ id \in DOMAIN rows /\ rows[id].st = "Running" /\ Swift(id) /\ ~rows[id].waiting
    BY Zenon, FlowParts DEF EndedInv, GateInv, RowsInv
  <1>2. proc = "up" /\ proc' = "up" /\ UNCHANGED <<preparing, prompting, timers, muted, turns>>
    BY Zenon DEF SwiftFails, SwiftCompletes
  <1>3. ASSUME \A i \in DOMAIN rows' : \/ i \in DOMAIN rows /\ rows'[i] = rows[i]
                                       \/ rows'[i].st \in Settled /\ ~rows'[i].waiting
        PROVE  OwnerInv'
    <2> SUFFICES ASSUME NEW i PROVE Owned(i)'
      BY Zenon DEF OwnerInv
    <2>1. Owned(i)
      BY Zenon, FlowParts DEF OwnerInv
    <2> QED
      BY Zenon, <1>1, <1>2, <1>3, <2>1, OwnedStays DEF KeepsRows
  <1>4. CASE SwiftFails(id)
    <2>1. FailRows({id}) /\ decided' = decided
      BY Zenon, <1>4 DEF SwiftFails
    <2>2. StatusInv' /\ GraphInv' /\ DoneInv'
      BY Zenon, <1>1, <1>2, <2>1, FailFlow
    <2>3. OwnerInv'
      BY Zenon, <1>1, <1>3, <2>1, FailRowsIs DEF Settled
    <2> QED
      BY Zenon, <2>2, <2>3 DEF FlowInv
  <1>5. ASSUME NEW port \in Ports, SwiftCompletes(id, port) PROVE FlowInv'
    <2>1. /\ rows' = [rows EXCEPT ![id].st = "Succeeded"] /\ run' = run
          /\ decided' = [decided EXCEPT ![id[1]] = port]
      BY Zenon, <1>5 DEF SwiftCompletes
    <2>2. /\ DOMAIN rows' = DOMAIN rows /\ \A i \in DOMAIN rows : i # id => rows'[i] = rows[i]
          /\ rows'[id].st = "Succeeded" /\ ~rows'[id].waiting
      BY Zenon, <1>1, <2>1, WriteIs
    <2>3. StatusInv'
      BY Zenon, <1>1, <1>2, <2>1, <2>2, WriteFlow
    <2>4. OwnerInv'
      BY Zenon, <1>3, <2>2 DEF Settled
    <2>5. \A n \in Nodes : Projection[n] = "Succeeded" => decided'[n] = decided[n]
      <3>1. Projection[id[1]] = "Running"
        BY Zenon, <1>1, ProjectionOf DEF ProjectionReads
      <3> QED
        BY <2>1, <3>1
    <2>6. KeepsGraph /\ \A i \in DOMAIN rows' : \E jd \in DOMAIN rows : jd[1] = i[1]
      BY Zenon, <1>1, <2>2, <2>5, GraphSame
    <2>7. /\ GraphInv'
          /\ \A n \in Nodes : Projection[n] \in Resolved => Projection'[n] = Projection[n]
      BY Zenon, <1>1, <2>6, GraphKept DEF KeepsRows
    <2>8. DoneInv'
      BY Zenon, <1>1, <2>1, <2>7 DEF DoneInv, Resolved
    <2> QED
      BY Zenon, <2>3, <2>4, <2>7, <2>8 DEF FlowInv
  <1> QED
    BY Zenon, <1>4, <1>5

\* The session drivers, the retry timers and the human turns.
LEMMA OwnersFlow ==
    ASSUME FlowInv, EndedInv', KeepsRows, NEW id,
           OwnerActs(id) \/ PromptStopped(id) \/ BeginTurn(id) \/ RestoreTurn(id)
    PROVE  FlowInv'
  <1> USE DEF db, loop, drivers, human, bounds
  <1>1. /\ RowsInv /\ RowsInv' /\ NewWaits /\ StatusInv /\ GraphInv /\ OneRow /\ DoneInv
        /\ Owned(id) /\ \A i : Owned(i)
    BY Zenon, FlowParts DEF EndedInv, KeepsRows, OwnerInv
  <1>2. /\ proc = "up" /\ proc' = "up" /\ decided' = decided
        /\ \A i : i # id => /\ i \in prompting' <=> i \in prompting
                            /\ i \in preparing' <=> i \in preparing
                            /\ i \in turns' <=> i \in turns
                            /\ i \in muted' <=> i \in muted
    BY Zenon DEF OwnerActs, BindSession, DriverCompletes, DriverParks, DriverFails, FailNode, WakeRetry,
           EndTurn, PromptStopped, BeginTurn, RestoreTurn, Free
  <1>3. id \in preparing \cup prompting \cup turns =>
           /\ id \in Nodes \X Nat /\ id[2] <= minted[id[1]]
           /\ id \in DOMAIN rows => ~rows[id].waiting
    BY Zenon, FlowParts DEF DriverInv
  \* Rows the step writes settle, but for the one it is about.
  <1>4. ASSUME timers' \in {timers, timers \ {id}},
               \A i \in DOMAIN rows' : i # id =>
                  \/ i \in DOMAIN rows /\ rows'[i] = rows[i]
                  \/ rows'[i].st \in Settled /\ ~rows'[i].waiting,
               Owned(id)'
        PROVE  OwnerInv'
    <2> SUFFICES ASSUME NEW i, i # id PROVE Owned(i)'
      BY Zenon, <1>4 DEF OwnerInv
    <2> QED
      BY Zenon, <1>1, <1>2, <1>4, OwnedStays
  \* The id after the step: who has it, and what its row is.
  <1>5. ASSUME id \in timers' \cup muted' => id \in timers \cup muted \cup preparing \cup prompting
        PROVE  id \in timers' \cup muted' => Known(id)'
    <2>1. id \in timers \cup muted \cup preparing \cup prompting => Known(id)
      BY Zenon, <1>1, <1>3 DEF Owned, Known
    <2> QED
      BY Zenon, <1>1, <1>5, <2>1, KnownStays
  <1>6. Swift(id)' = Swift(id)
    BY Zenon DEF Swift
  <1>7. CASE BindSession(id) \/ PromptStopped(id)
    <2>1. UNCHANGED <<run, rows, timers, turns>> /\ DOMAIN rows' = DOMAIN rows
      BY Zenon, <1>7 DEF BindSession, PromptStopped
    <2>2. StatusInv' /\ GraphInv' /\ DoneInv'
      BY Zenon, <1>1, <1>2, <2>1, WriteFlow
    <2>3. Owned(id)'
      <3>1. CASE BindSession(id)
        <4>1. /\ id \in preparing /\ id \notin preparing' /\ muted' = muted
              /\ prompting' = IF At(id, "Running") THEN prompting \cup {id} ELSE prompting
          BY Zenon, <3>1 DEF BindSession
        <4>2. id \in timers' \cup muted' => Known(id)'
          BY Zenon, <1>5, <2>1, <4>1
        <4>3. id \notin prompting /\ id \notin turns /\ id \notin muted
          BY Zenon, <1>1, <4>1 DEF Owned
        <4>4. id \in DOMAIN rows /\ rows[id].st = "Running" => id \in prompting'
          BY Zenon, <4>1 DEF At
        <4>5. id \in DOMAIN rows => rows[id].st # "Pending" /\ ~rows[id].waiting
          BY Zenon, <1>1, <1>3, <4>1 DEF Owned
        <4> QED
          BY Zenon, <2>1, <4>1, <4>2, <4>3, <4>4, <4>5 DEF Owned
      <3>2. CASE PromptStopped(id)
        <4>1. /\ id \in prompting /\ id \notin prompting' /\ preparing' = preparing
              /\ muted' = IF At(id, "Running") THEN muted \cup {id} ELSE muted
          BY Zenon, <3>2 DEF PromptStopped
        <4>2. id \in timers' \cup muted' => Known(id)'
          BY Zenon, <1>5, <2>1, <4>1
        <4>3. id \notin preparing /\ id \notin turns /\ id \notin muted
          BY Zenon, <1>1, <4>1 DEF Owned
        <4>4. id \in DOMAIN rows /\ rows[id].st = "Running" => id \in muted'
          BY Zenon, <4>1 DEF At
        <4>5. id \in DOMAIN rows => rows[id].st # "Pending" /\ ~rows[id].waiting
          BY Zenon, <1>1, <1>3, <4>1 DEF Owned
        <4> QED
          BY Zenon, <2>1, <4>1, <4>2, <4>3, <4>4, <4>5 DEF Owned
      <3> QED
        BY Zenon, <1>7, <3>1, <3>2
    <2>4. OwnerInv'
      BY Zenon, <1>4, <2>1, <2>3
    <2> QED
      BY Zenon, <2>2, <2>4 DEF FlowInv
  <1>8. ASSUME UNCHANGED <<run, timers, muted, preparing>>, id \in prompting \cup turns,
               id \notin prompting', id \notin turns', DOMAIN rows' = DOMAIN rows,
               \A i \in DOMAIN rows : i # id => rows'[i] = rows[i],
               id \in DOMAIN rows =>
                  \/ rows'[id] = rows[id] /\ rows[id].st # "Running"
                  \/ /\ rows[id].st \in {"Running", "Pending"}
                     /\ rows'[id].st \in {"Pending", "Succeeded"} /\ rows'[id].waiting = rows[id].waiting
        PROVE  FlowInv'
    <2>1. id \notin preparing /\ id \notin muted
      BY Zenon, <1>1, <1>8 DEF Owned
    <2>2. id \in DOMAIN rows => rows[id].st # "Pending" /\ ~rows[id].waiting
      BY Zenon, <1>1, <1>3, <1>8 DEF Owned
    <2>3. StatusInv' /\ GraphInv' /\ DoneInv'
      BY Zenon, <1>1, <1>2, <1>8, <2>2, WriteFlow
    <2>4. id \in timers' \cup muted' => Known(id)'
      BY Zenon, <1>5, <1>8
    <2>5. Owned(id)'
      BY Zenon, <1>8, <2>1, <2>2, <2>4 DEF Owned
    <2>6. OwnerInv'
      BY Zenon, <1>4, <1>8, <2>5
    <2> QED
      BY Zenon, <2>3, <2>6 DEF FlowInv
  <1>9. CASE DriverCompletes(id) \/ DriverParks(id) \/ EndTurn(id) \/ RestoreTurn(id)
    <2>1. /\ UNCHANGED <<run, timers, muted, preparing>> /\ id \in prompting \cup turns
          /\ CompleteNode(id) \/ ParkRow(id)
          /\ \/ id \in prompting /\ id \notin prompting' /\ turns' = turns
             \/ id \in turns /\ id \notin turns' /\ prompting' = prompting
      BY Zenon, <1>9 DEF DriverCompletes, DriverParks, EndTurn, RestoreTurn
    <2>2. id \notin prompting' /\ id \notin turns'
      BY Zenon, <1>1, <2>1 DEF Owned
    <2>3. \/ rows' = rows /\ ~At(id, "Running")
          \/ /\ id \in DOMAIN rows /\ rows[id].st \in {"Running", "Pending"}
             /\ \E st \in {"Pending", "Succeeded"} : rows' = [rows EXCEPT ![id].st = st]
      BY Zenon, <2>1 DEF CompleteNode, ParkRow, At
    <2>4. CASE rows' = rows /\ ~At(id, "Running")
      BY Zenon, <1>8, <2>1, <2>2, <2>4 DEF At
    <2>5. ASSUME id \in DOMAIN rows, rows[id].st \in {"Running", "Pending"},
                 NEW st \in {"Pending", "Succeeded"}, rows' = [rows EXCEPT ![id].st = st]
          PROVE  FlowInv'
      <3>1. /\ DOMAIN rows' = DOMAIN rows /\ \A i \in DOMAIN rows : i # id => rows'[i] = rows[i]
            /\ rows'[id].st = st /\ rows'[id].waiting = rows[id].waiting
        BY Zenon, <1>1, <2>5, WriteIs
      <3> QED
        BY Zenon, <1>8, <2>1, <2>2, <2>5, <3>1
    <2> QED
      BY Zenon, <2>3, <2>4, <2>5
  <1>10. CASE BeginTurn(id)
    <2>1. /\ id \in DOMAIN rows /\ rows[id].st = "Pending" /\ rows' = [rows EXCEPT ![id].st = "Running"]
          /\ turns' = turns \cup {id} /\ UNCHANGED <<run, preparing, prompting, timers, muted>>
      BY Zenon, <1>10 DEF BeginTurn, At
    <2>2. /\ DOMAIN rows' = DOMAIN rows /\ \A i \in DOMAIN rows : i # id => rows'[i] = rows[i]
          /\ rows'[id].st = "Running" /\ rows'[id].waiting = rows[id].waiting
      BY Zenon, <1>1, <2>1, WriteIs
    <2>3. ~rows[id].waiting /\ id \notin preparing \cup prompting \cup turns \cup muted
      BY Zenon, <1>1, <2>1 DEF Owned, RowsInv
    <2>4. StatusInv' /\ GraphInv' /\ DoneInv'
      BY Zenon, <1>1, <1>2, <2>1, <2>2, <2>3, WriteFlow
    <2>5. id \in timers' \cup muted' => Known(id)'
      BY Zenon, <1>5, <2>1
    <2>6. Owned(id)'
      BY Zenon, <2>1, <2>2, <2>3, <2>5 DEF Owned
    <2>7. OwnerInv'
      BY Zenon, <1>4, <2>1, <2>2, <2>6
    <2> QED
      BY Zenon, <2>4, <2>7 DEF FlowInv
  <1>11. ASSUME NEW transient \in BOOLEAN, DriverFails(id, transient) PROVE FlowInv'
    <2>1. /\ FailNode(id, transient) /\ id \in preparing \cup prompting
          /\ id \notin preparing' /\ id \notin prompting' /\ UNCHANGED <<turns, muted>>
      BY Zenon, <1>11 DEF DriverFails
    <2>2. id \notin turns /\ id \notin muted /\ (id \in DOMAIN rows => rows[id].st # "Pending")
      BY Zenon, <1>1, <2>1 DEF Owned
    <2>3. CASE ~Retries(id, transient)
      <3>1. FailRows({id}) /\ timers' = timers
        BY Zenon, <2>1, <2>3 DEF FailNode
      <3>2. StatusInv' /\ GraphInv' /\ DoneInv'
        BY Zenon, <1>1, <1>2, <3>1, FailFlow
      <3>3. /\ DOMAIN rows' = DOMAIN rows
            /\ \A i \in DOMAIN rows : \/ rows'[i] = rows[i]
                                      \/ rows'[i].st \in {"Failed", "Cancelled"} /\ ~rows'[i].waiting
            /\ id \in DOMAIN rows => rows'[id].st # "Running"
        BY Zenon, <1>1, <3>1, FailRowsIs
      <3>4. id \in timers' \cup muted' => Known(id)'
        BY Zenon, <1>5, <2>1, <3>1
      <3>5. id \in DOMAIN rows' => rows'[id].st \notin {"Running", "Pending"}
        BY Zenon, <2>2, <3>3
      <3>6. Owned(id)'
        BY Zenon, <2>1, <2>2, <3>4, <3>5 DEF Owned
      <3>7. OwnerInv'
        BY Zenon, <1>4, <3>1, <3>3, <3>6 DEF Settled
      <3> QED
        BY Zenon, <3>2, <3>7 DEF FlowInv
    <2>4. CASE Retries(id, transient)
      <3> DEFINE new == Fresh(id[1])
      <3>1. /\ id \in DOMAIN rows /\ rows[id].st = "Running" /\ run = "Running" /\ run' = run
            /\ rows' = Rescheduled(id) /\ timers' = timers \cup {new} /\ minted' = Minted({id[1]})
        BY Zenon, <2>1, <2>4 DEF FailNode, Retries, At
      <3>2. id[1] \in Nodes
        BY Zenon, <1>1, <3>1 DEF RowsInv
      <3>3. /\ new \notin DOMAIN rows /\ new[1] = id[1]
            /\ new \notin preparing \cup prompting \cup turns \cup timers \cup muted
        BY Zenon, <3>2, FreshIsNew, FreshUnowned, FlowParts
      <3>4. /\ DOMAIN rows' = (DOMAIN rows \ {id}) \cup {new}
            /\ \A i \in DOMAIN rows \ {id} : rows'[i] = rows[i]
            /\ rows'[new].st = "Running" /\ rows'[new].waiting = TRUE
        BY Zenon, <3>1, <3>3 DEF Rescheduled
      <3> HIDE DEF new
      <3>5. StatusInv'
        BY Zenon, <1>1, <1>2, <3>1, <3>4 DEF StatusInv
      <3>6. KeepsGraph
        <4>1. OneRow'
          <5> SUFFICES ASSUME NEW i \in DOMAIN rows', NEW jd \in DOMAIN rows', i[1] = jd[1]
                       PROVE  i = jd
            BY Zenon DEF OneRow
          <5>1. \A k \in DOMAIN rows : k[1] = id[1] => k = id
            BY Zenon, <1>1, <3>1 DEF OneRow
          <5>2. CASE i # new /\ jd # new
            BY Zenon, <1>1, <3>4, <5>2 DEF OneRow
          <5>3. CASE i = new \/ jd = new
            BY Zenon, <3>3, <3>4, <5>1, <5>3
          <5> QED
            BY Zenon, <5>2, <5>3
        <4>2. \A i \in DOMAIN rows : rows[i].st \in Settled => i \in DOMAIN rows'
          BY Zenon, <3>1, <3>4 DEF Settled
        <4>3. \A i \in DOMAIN rows' : \E jd \in DOMAIN rows : jd[1] = i[1]
          BY Zenon, <3>1, <3>3, <3>4
        <4> QED
          BY Zenon, <1>2, <4>1, <4>2, <4>3 DEF KeepsGraph
      <3>7. \A i \in DOMAIN rows' : \E jd \in DOMAIN rows : jd[1] = i[1]
        BY Zenon, <3>1, <3>3, <3>4
      <3>8. GraphInv'
        BY Zenon, <1>1, <3>6, <3>7, GraphKept DEF KeepsRows
      <3>9. DoneInv'
        BY Zenon, <3>1 DEF DoneInv
      <3>10. OwnerInv'
        <4> SUFFICES ASSUME NEW i PROVE Owned(i)'
          BY Zenon DEF OwnerInv
        <4>1. CASE i = new
          <5>1. Known(i)'
            BY Zenon, <1>1, <3>4, <4>1 DEF RowsInv, Known
          <5>2. i \notin preparing' \cup prompting' \cup turns' \cup muted'
            BY Zenon, <1>2, <3>1, <3>3, <4>1
          <5> QED
            BY Zenon, <3>1, <3>4, <4>1, <5>1, <5>2 DEF Owned
        <4>2. CASE i = id
          <5>1. id \in timers' \cup muted' => Known(id)'
            <6>1. id # new
              BY Zenon, <3>1, <3>3
            <6> QED
              BY Zenon, <1>5, <2>1, <3>1, <6>1
          <5>2. id \notin DOMAIN rows'
            BY Zenon, <3>1, <3>3, <3>4
          <5> QED
            BY Zenon, <2>1, <2>2, <4>2, <5>1, <5>2 DEF Owned
        <4>3. CASE i # new /\ i # id
          BY Zenon, <1>1, <1>2, <3>1, <3>4, <4>3, OwnedStays
        <4> QED
          BY Zenon, <4>1, <4>2, <4>3
      <3> QED
        BY Zenon, <3>5, <3>8, <3>9, <3>10 DEF FlowInv
    <2> QED
      BY Zenon, <2>3, <2>4
  <1>12. CASE WakeRetry(id)
    <2>1. timers' = timers \ {id} /\ id \in timers /\ UNCHANGED <<prompting, turns, muted>>
      BY Zenon, <1>12 DEF WakeRetry
    <2>2. id \in timers' \cup muted' => Known(id)'
      BY Zenon, <1>5, <2>1
    <2>3. CASE (~At(id, "Running") \/ ~rows[id].waiting) /\ UNCHANGED <<run, rows, preparing>>
      <3>1. StatusInv' /\ GraphInv' /\ DoneInv'
        BY Zenon, <1>1, <1>2, <2>3, WriteFlow
      <3>2. id \in DOMAIN rows /\ rows[id].st = "Running" => ~rows[id].waiting
        BY Zenon, <2>3 DEF At
      <3>3. Owned(id)'
        BY Zenon, <1>1, <1>2, <1>6, <2>1, <2>2, <2>3, <3>2 DEF Owned
      <3>4. OwnerInv'
        BY Zenon, <1>4, <2>1, <2>3, <3>3
      <3> QED
        BY Zenon, <3>1, <3>4 DEF FlowInv
    <2>4. ASSUME At(id, "Running"), rows[id].waiting, preparing' = preparing \cup {id}, run' = run,
                 rows' = [rows EXCEPT ![id].waiting = FALSE]
          PROVE  FlowInv'
      <3>1. id \in DOMAIN rows /\ rows[id].st = "Running" /\ rows[id] \in RowRecs
        BY Zenon, <1>1, <2>4 DEF At, RowsInv
      <3>2. /\ DOMAIN rows' = DOMAIN rows /\ \A i \in DOMAIN rows : i # id => rows'[i] = rows[i]
            /\ rows'[id] = [rows[id] EXCEPT !.waiting = FALSE]
        BY Zenon, <1>1, <2>4, <3>1 DEF RowsInv
      <3>3. rows'[id].st = "Running" /\ rows'[id].waiting = FALSE
        BY Zenon, <3>1, <3>2 DEF RowRecs
      <3>4. StatusInv' /\ GraphInv' /\ DoneInv'
        BY Zenon, <1>1, <1>2, <2>4, <3>1, <3>2, <3>3, WriteFlow
      <3>5. id \notin preparing \cup prompting \cup turns /\ id \notin muted
        BY Zenon, <1>1, <1>3, <2>4, <3>1 DEF Owned
      <3>6. Owned(id)'
        BY Zenon, <2>1, <2>2, <2>4, <3>2, <3>3, <3>5 DEF Owned
      <3>7. OwnerInv'
        BY Zenon, <1>4, <2>1, <3>2, <3>6
      <3> QED
        BY Zenon, <3>4, <3>7 DEF FlowInv
    <2>5. CASE At(id, "Running") /\ FailRows({id}) /\ UNCHANGED preparing
      <3>1. StatusInv' /\ GraphInv' /\ DoneInv'
        BY Zenon, <1>1, <1>2, <2>5, FailFlow
      <3>2. /\ DOMAIN rows' = DOMAIN rows
            /\ \A i \in DOMAIN rows : \/ rows'[i] = rows[i]
                                      \/ rows'[i].st \in {"Failed", "Cancelled"} /\ ~rows'[i].waiting
            /\ id \in DOMAIN rows => rows'[id].st # "Running"
        BY Zenon, <1>1, <2>5, FailRowsIs
      <3>3. id \in DOMAIN rows' /\ rows'[id].st \in {"Failed", "Cancelled"} /\ ~rows'[id].waiting
        BY Zenon, <2>5, <3>2 DEF At
      <3>4. Owned(id)'
        BY Zenon, <1>1, <2>1, <2>2, <2>5, <3>3 DEF Owned
      <3>5. OwnerInv'
        BY Zenon, <1>4, <2>1, <3>2, <3>4 DEF Settled
      <3> QED
        BY Zenon, <3>1, <3>5 DEF FlowInv
    <2>6. At(id, "Running") /\ rows[id].waiting => run = "Running"
      BY Zenon, <1>1 DEF StatusInv, At
    <2> QED
      BY Zenon, <1>12, <2>3, <2>4, <2>5, <2>6 DEF WakeRetry
  <1> QED
    BY Zenon, <1>7, <1>9, <1>10, <1>11, <1>12 DEF OwnerActs

\* The manual completions of a parked row.
LEMMA CompletionsFlow ==
    ASSUME FlowInv, EndedInv', KeepsRows, NEW q,
           \/ \E id : ClaimNode(q, id) \/ PrepareCompletion(q, id)
           \/ RefuseCompletion(q) \/ CommitCompletion(q)
    PROVE  FlowInv'
  <1> USE DEF db, loop, drivers, human, bounds
  <1>1. /\ UNCHANGED <<run, decided, minted, proc, preparing, prompting, timers, muted, turns>>
        /\ proc = "up"
    BY Zenon DEF ClaimNode, PrepareCompletion, RefuseCompletion, CommitCompletion, Free
  <1>2. CASE rows' = rows
    BY Zenon, <1>1, <1>2, QuietFlow
  <1>3. ASSUME NEW id, At(id, "Pending"), rows' = [rows EXCEPT ![id].st = "Succeeded"]
        PROVE  FlowInv'
    <2>1. RowsInv /\ RowsInv' /\ id \in DOMAIN rows /\ rows[id].st = "Pending" /\ ~rows[id].waiting
      BY Zenon, <1>3, FlowParts DEF At, RowsInv, EndedInv
    <2>2. /\ DOMAIN rows' = DOMAIN rows /\ \A i \in DOMAIN rows : i # id => rows'[i] = rows[i]
          /\ rows'[id].st = "Succeeded" /\ rows'[id].waiting = rows[id].waiting
      BY Zenon, <1>3, <2>1, WriteIs
    <2>3. StatusInv' /\ GraphInv' /\ DoneInv'
      BY Zenon, <1>1, <2>1, <2>2, WriteFlow
    <2>4. OwnerInv'
      <3> SUFFICES ASSUME NEW i PROVE Owned(i)'
        BY Zenon DEF OwnerInv
      <3>1. Owned(i)
        BY Zenon, FlowParts DEF OwnerInv
      <3>2. i \in DOMAIN rows' => \/ i \in DOMAIN rows /\ rows'[i] = rows[i]
                                  \/ rows'[i].st \in Settled /\ ~rows'[i].waiting
        BY Zenon, <2>1, <2>2 DEF Settled
      <3> QED
        BY Zenon, <1>1, <2>1, <3>1, <3>2, OwnedStays DEF KeepsRows
    <2> QED
      BY Zenon, <2>3, <2>4 DEF FlowInv
  <1>4. CASE CommitCompletion(q)
    <2>1. CASE run = "Running" /\ At(reqs[q].id, "Pending")
      <3>1. PICK id : id = reqs[q].id
        BY Zenon
      <3>2. At(id, "Pending") /\ CompleteNode(id)
        BY Zenon, <1>4, <2>1, <3>1 DEF CommitCompletion
      <3>3. rows' = [rows EXCEPT ![id].st = "Succeeded"]
        BY Zenon, <3>2 DEF CompleteNode
      <3> QED
        BY Zenon, <1>3, <3>2, <3>3
    <2>2. CASE ~(run = "Running" /\ At(reqs[q].id, "Pending"))
      <3>1. rows' = rows
        BY Zenon, <1>4, <2>2 DEF CommitCompletion
      <3> QED
        BY Zenon, <1>2, <3>1
    <2> QED
      BY Zenon, <2>1, <2>2
  <1>5. CASE ~CommitCompletion(q)
    <2>1. rows' = rows
      BY Zenon, <1>5 DEF ClaimNode, PrepareCompletion, RefuseCompletion
    <2> QED
      BY Zenon, <1>2, <2>1
  <1> QED
    BY Zenon, <1>4, <1>5

\* The end of the process, the boot sweep and the reconciliation: the next process starts
\* with no Running row.
LEMMA RecoveryFlow ==
    ASSUME FlowInv, EndedInv', KeepsRows, Crash \/ Sweep \/ Reconcile
    PROVE  FlowInv'
  <1> USE DEF db, loop, drivers, human, bounds
  <1>1. /\ RowsInv /\ RowsInv' /\ NewWaits /\ StatusInv /\ GraphInv /\ OneRow /\ DoneInv
        /\ \A i : Owned(i)
    BY Zenon, FlowParts DEF EndedInv, KeepsRows, OwnerInv
  <1>2. decided' = decided /\ minted' = minted
    BY Zenon DEF Crash, Sweep, Reconcile
  <1>3. CASE Crash
    <2>1. /\ rows' = rows /\ run' = run /\ proc' = "down" /\ preparing' = {} /\ prompting' = {}
          /\ timers' = {} /\ muted' = {} /\ turns' = {}
      BY Zenon, <1>3 DEF Crash
    <2>2. StatusInv'
      BY Zenon, <1>1, <2>1 DEF StatusInv
    <2>3. GraphInv' /\ DoneInv'
      BY Zenon, <1>1, <1>2, <2>1, FlowSame DEF KeepsRows
    <2>4. OwnerInv'
      BY Zenon, <2>1 DEF OwnerInv, Owned
    <2> QED
      BY Zenon, <2>2, <2>3, <2>4 DEF FlowInv
  <1>4. CASE Sweep
    <2>1. /\ proc = "down" /\ proc' = "swept"
          /\ UNCHANGED <<preparing, prompting, timers, muted, turns>>
      BY Zenon, <1>4 DEF Sweep
    <2>2. ASSUME \A i \in DOMAIN rows' : \/ i \in DOMAIN rows /\ rows'[i] = rows[i]
                                         \/ rows'[i].st \in Settled /\ ~rows'[i].waiting
          PROVE  OwnerInv'
      <3> SUFFICES ASSUME NEW i PROVE Owned(i)'
        BY Zenon DEF OwnerInv
      <3>1. Owned(i)
        BY Zenon, <1>1
      <3> QED
        BY Zenon, <1>1, <2>1, <2>2, <3>1, OwnedStays
    <2>3. CASE run \in {"Running", "Failed"} /\ RunningRows # {}
      <3>1. /\ rows' = [id \in DOMAIN rows |->
                          IF rows[id].st \in {"Running", "Pending"}
                          THEN [rows[id] EXCEPT !.st = "Failed", !.waiting = FALSE]
                          ELSE rows[id]]
            /\ run' = "Failed"
        BY Zenon, <1>4, <2>3 DEF Sweep
      <3>2. /\ DOMAIN rows' = DOMAIN rows
            /\ \A i \in DOMAIN rows : rows'[i].st \in Settled /\ ~rows'[i].waiting
        BY Zenon, <1>1, <3>1, SweptIs
      <3>3. StatusInv'
        BY Zenon, <2>1, <3>1, <3>2 DEF StatusInv, RunStates, RunningRows, Settled
      <3>4. GraphInv' /\ DoneInv'
        BY Zenon, <1>1, <1>2, <3>1, <3>2, FlowSame DEF KeepsRows
      <3>5. OwnerInv'
        BY Zenon, <2>2, <3>2
      <3> QED
        BY Zenon, <3>3, <3>4, <3>5 DEF FlowInv
    <2>4. CASE ~(run \in {"Running", "Failed"} /\ RunningRows # {})
      <3>1. rows' = rows /\ run' = run
        BY Zenon, <1>4, <2>4 DEF Sweep
      <3>2. RunningRows = {}
        BY Zenon, <1>1, <2>4 DEF StatusInv, RunStates, RunningRows
      <3>3. StatusInv'
        BY Zenon, <1>1, <3>1, <3>2 DEF StatusInv, RunningRows
      <3>4. GraphInv' /\ DoneInv'
        BY Zenon, <1>1, <1>2, <3>1, FlowSame DEF KeepsRows
      <3>5. OwnerInv'
        BY Zenon, <2>2, <3>1
      <3> QED
        BY Zenon, <3>3, <3>4, <3>5 DEF FlowInv
    <2> QED
      BY Zenon, <2>3, <2>4
  <1>5. CASE Reconcile
    <2>1. /\ proc = "swept" /\ proc' = "up"
          /\ UNCHANGED <<preparing, prompting, timers, muted, turns>>
          /\ FailRows(InvalidPending) \/ UNCHANGED <<run, rows>>
      BY Zenon, <1>5 DEF Reconcile
    <2>2. RunningRows = {}
      BY Zenon, <1>1, <2>1 DEF StatusInv
    <2>3. rows' = rows /\ run' = run
      <3> SUFFICES ASSUME FailRows(InvalidPending) PROVE rows' = rows /\ run' = run
        BY Zenon, <2>1
      <3>1. {id \in InvalidPending : At(id, "Running")} = {}
        BY Zenon DEF InvalidPending, At
      <3>2. PICK hit : hit = {id \in InvalidPending : At(id, "Running")}
        BY Zenon
      <3>3. /\ hit = {}
            /\ rows' = [id \in DOMAIN rows |->
                          IF id \in hit THEN [rows[id] EXCEPT !.st = "Failed", !.waiting = FALSE]
                          ELSE IF hit # {} /\ rows[id].waiting
                               THEN [rows[id] EXCEPT !.st = "Cancelled", !.waiting = FALSE]
                          ELSE rows[id]]
            /\ run' = IF hit # {} /\ run = "Running" THEN "Failed" ELSE run
        BY Zenon, <3>1, <3>2 DEF FailRows
      <3>4. rows' = [id \in DOMAIN rows |-> rows[id]]
        BY Zenon, <3>3
      <3>5. rows = [id \in DOMAIN rows |-> rows[id]]
        BY Zenon, <1>1 DEF RowsInv
      <3> QED
        BY Zenon, <3>3, <3>4, <3>5
    <2>4. StatusInv'
      BY Zenon, <1>1, <2>1, <2>3 DEF StatusInv
    <2>5. GraphInv' /\ DoneInv'
      BY Zenon, <1>1, <1>2, <2>3, FlowSame DEF KeepsRows
    <2>6. OwnerInv'
      <3> SUFFICES ASSUME NEW i PROVE Owned(i)'
        BY Zenon DEF OwnerInv
      <3>1. Owned(i) /\ (i \in DOMAIN rows => rows[i].st # "Running")
        BY Zenon, <1>1, <2>2 DEF RunningRows
      <3>2. Known(i)' = Known(i)
        BY Zenon, <1>2 DEF Known
      <3> QED
        BY Zenon, <2>1, <2>3, <3>1, <3>2 DEF Owned
    <2> QED
      BY Zenon, <2>4, <2>5, <2>6 DEF FlowInv
  <1> QED
    BY Zenon, <1>3, <1>4, <1>5

\* A run that was created has no rows.
LEMMA FlowInit == Init => FlowInv
  <1> SUFFICES ASSUME Init PROVE FlowInv
    BY Zenon
  <1>1. rows = <<>> /\ DOMAIN rows = {} /\ run = "Pending" /\ proc = "up"
    BY DEF Init
  <1>2. StatusInv
    BY Zenon, <1>1 DEF StatusInv, RunStates
  <1>3. GraphInv /\ DoneInv
    BY Zenon, <1>1 DEF GraphInv, OneRow, DoneInv
  <1>4. OwnerInv
    BY Zenon, <1>1 DEF Init, OwnerInv, Owned
  <1> QED
    BY Zenon, <1>2, <1>3, <1>4, EndedInit DEF FlowInv

\* Every entry point of the engine keeps the run, its rows, the graph and the owners of the
\* rows together.
LEMMA FlowStep == FlowInv /\ [Next]_vars => FlowInv'
  <1> SUFFICES ASSUME FlowInv, [Next]_vars PROVE FlowInv'
    BY Zenon
  <1>1. EndedInv' /\ (KeepsEnded \/ UNCHANGED vars)
    BY Zenon, EndedStep, FlowParts
  <1>2. CASE UNCHANGED vars
    <2>1. UNCHANGED <<run, rows, decided, minted, proc, preparing, prompting, timers, muted, turns>>
      BY Zenon, <1>2 DEF vars, db, drivers, human
    <2>2. KeepsRows
      BY Zenon, <2>1, EngineKeeps, FlowParts
    <2> QED
      BY Zenon, <1>1, <2>1, <2>2, QuietFlow
  <1>3. CASE Next /\ ~UNCHANGED vars
    <2>1. KeepsRows
      BY Zenon, <1>1, <1>3 DEF KeepsEnded
    <2>2. \/ StartRun \/ RestartRun \/ ResumeRun \/ CancelRun
          \/ \E V \in Versions : SwitchSnapshot(V)
          \/ Head \/ Plan
          \/ \E id \in todo : SwiftFails(id) \/ \E port \in Ports : SwiftCompletes(id, port)
          \/ \E id : OwnerActs(id) \/ PromptStopped(id) \/ BeginTurn(id) \/ RestoreTurn(id)
          \/ \E q : \/ \E id : ClaimNode(q, id) \/ PrepareCompletion(q, id)
                    \/ RefuseCompletion(q) \/ CommitCompletion(q)
          \/ Crash \/ Sweep \/ Reconcile
      BY Zenon, <1>3 DEF Next, Scheduling
    <2>3. CASE Head \/ \E V \in Versions : SwitchSnapshot(V)
      <3>1. UNCHANGED <<run, rows, decided, minted, proc, preparing, prompting, timers, muted, turns>>
        BY Zenon, <2>3 DEF Head, SwitchSnapshot, db, drivers, human
      <3> QED
        BY Zenon, <1>1, <2>1, <3>1, QuietFlow
    <2> QED
      BY Zenon, <1>1, <2>1, <2>2, <2>3, StartFlow, ClearFlow, CancelFlow, PlanFlow, PassFlow, OwnersFlow,
         CompletionsFlow, RecoveryFlow
  <1> QED
    BY Zenon, <1>2, <1>3

\* The run, its rows, the graph and the owners of the rows fit together in every reachable
\* state.
THEOREM FlowInvariant == Spec => []FlowInv
  BY FlowInit, FlowStep, PTL DEF Spec

\* Every live row is the only one of its node and stands on the work it was scheduled from,
\* for every acyclic graph: no resume, retry or late callback leaves a row whose predecessor
\* is missing, running again or failed.
THEOREM RowsStandOnTheGraph == Spec => []RowsFollowGraph
  <1>1. FlowInv => RowsFollowGraph
    <2> SUFFICES ASSUME FlowInv, NEW id \in DOMAIN rows
                 PROVE  /\ RowsOf(id[1]) = {id}
                        /\ id[1] # Start =>
                             /\ \A e \in Edges : e.to = id[1] =>
                                   Projection[e.from] \in {"Succeeded", "Inactive"}
                             /\ \E e \in Edges : /\ e.to = id[1] /\ EdgeActive(e)
                                                 /\ Projection[e.from] = "Succeeded"
      BY Zenon DEF RowsFollowGraph
    <2>1. RowsOf(id[1]) = {id}
      BY Zenon, FlowParts, ProjectionOf DEF ProjectionReads
    <2> QED
      BY Zenon, <2>1, FlowParts DEF GraphInv
  <1> QED
    BY <1>1, FlowInvariant, PTL

\* The run's status agrees with its rows, for every acyclic graph: a Running run carries no
\* failed row, an ended one no waiting attempt, a run that is to start no rows, and one that
\* is reported as Succeeded has come to the end of every branch it took.
THEOREM StatusMatchesRows == Spec => []RunAgreesWithRows
  <1>1. FlowInv => RunAgreesWithRows
    <2> SUFFICES ASSUME FlowInv PROVE RunAgreesWithRows
      BY Zenon
    <2>1. StatusInv /\ DoneInv /\ rows \in [DOMAIN rows -> RowRecs]
      BY Zenon, FlowParts DEF RowsInv
    <2>2. run = "Pending" => rows = <<>>
      BY <2>1 DEF StatusInv
    <2> QED
      BY Zenon, <2>1, <2>2 DEF StatusInv, DoneInv, RunAgreesWithRows
  <1> QED
    BY <1>1, FlowInvariant, PTL

\* In a live process every Running row of an Agent node has one owner, a driver, an armed
\* timer or a human turn, unless the user stopped its prompt: nothing is left that "no
\* executor and no timer will ever finish".
THEOREM RunningRowsAreDriven == Spec => []RunningAgentIsDriven
  <1>1. FlowInv => RunningAgentIsDriven
    <2> SUFFICES ASSUME FlowInv, proc = "up", NEW id \in RunningRows, ~Swift(id), id \notin muted
                 PROVE  \E owner \in {"driver", "timer", "turn"} :
                           /\ owner = "driver" <=> id \in preparing \cup prompting
                           /\ owner = "timer" <=> id \in timers /\ rows[id].waiting
                           /\ owner = "turn" <=> id \in turns
      BY Zenon DEF RunningAgentIsDriven
    <2>1. /\ id \in DOMAIN rows /\ rows[id].st = "Running" /\ Owned(id)
          /\ id \in preparing \cup prompting \cup turns => ~rows[id].waiting
      BY Zenon, FlowParts DEF RunningRows, OwnerInv, DriverInv
    <2>2. CASE rows[id].waiting
      <3>1. id \in timers /\ id \notin preparing \cup prompting \cup turns
        BY Zenon, <2>1, <2>2 DEF Owned
      <3> QED
        BY Zenon, <2>2, <3>1
    <2>3. CASE ~rows[id].waiting
      <3>1. id \in preparing \cup prompting \cup turns /\ (id \in turns => id \notin preparing \cup prompting)
        BY Zenon, <2>1, <2>3 DEF Owned
      <3>2. CASE id \in turns
        BY Zenon, <2>3, <3>1, <3>2
      <3>3. CASE id \notin turns
        BY Zenon, <2>3, <3>1, <3>3
      <3> QED
        BY Zenon, <3>2, <3>3
    <2> QED
      BY Zenon, <2>2, <2>3
  <1> QED
    BY <1>1, FlowInvariant, PTL
====
