------------------------- MODULE CloneControlProofs -------------------------
(***************************************************************************)
(* The safety of CloneControl, for any number of executions, epochs,       *)
(* restarts, lost sessions and messages under way.                         *)
(*                                                                         *)
(* What is under way is the difficulty: a report may be read long after it *)
(* was written.  So the invariant says of every message in a stream that   *)
(* it is still true (TrueReports, TrueMessages), which is preserved        *)
(* because what reports say is stable: a Completed status is final, and an *)
(* epoch once sealed stays so (Sealed).                                    *)
(***************************************************************************)
EXTENDS CloneControl, SequenceTheorems, TLAPS

\* No execution of epoch k or an earlier one is unfinished or can still be accepted.
Sealed(k) ==
    /\ controlled /\ binding # None
    /\ binding.epoch >= k /\ (binding.epoch = k => binding.closed)
    /\ \A e \in Execs : e <= k => status[e].state \in {"Absent", "Completed"}

EndedWith(e, result) == status[e].state = "Completed" /\ status[e].result = result

\* The reports that are still true of the Node.
TrueReports ==
    {m \in Reports :
        /\ m.kind = "Event" => EndedWith(m.exec, m.result)
        /\ m.kind = "Status" /\ m.state = "Completed" => EndedWith(m.exec, m.result)
        /\ m.kind = "ControlState" /\ m.binding.closed /\ m.unfinished = {} =>
              Sealed(m.binding.epoch)}

\* The Controller acknowledges only what the store has a receipt of.
TrueMessages == {m \in Messages : m.kind = "Ack" => m.exec \in receipts}

\* Everything but the streams and the Node has its type.
Clouds == [epoch : Execs \cup {0}, closed : BOOLEAN, released : BOOLEAN,
           opened : Incarnations \cup {0}, inc : Incarnations \cup {0}]
StoreTypeOK ==
    /\ up \in BOOLEAN /\ drops \in Nat
    /\ window \subseteq Execs /\ sent \subseteq Execs
    /\ receipts \subseteq Execs /\ taken \in [Execs -> Results \cup {None}]
    /\ cloud \in Clouds

\* The inductive invariant.
ControlInv ==
    /\ LedgerTypeOK /\ StoreTypeOK
    /\ cloud.epoch > 0 => cloud.inc > 0
    /\ toCtl \in Seq(TrueReports) /\ toNode \in Seq(TrueMessages)
    /\ reply \in {None} \cup TrueMessages
    /\ \A e \in outbox : status[e].state = "Completed"
    /\ \A e \in receipts : taken[e] # None
    /\ ResultsAreKept
    /\ cloud.epoch > 1 => Sealed(cloud.epoch - 1)
    /\ cloud.released => Sealed(cloud.epoch)

-----------------------------------------------------------------------------
(* The Node's ledger.                                                       *)

\* Epochs, and with them executions, are positive numbers.
LEMMA EpochsArePositive ==
    /\ \A k \in Epochs : k \in Nat /\ k > 0
    /\ \A e \in Execs : e \in Epochs /\ e \in Nat /\ e > 0
  BY CloneLedgerAssumption

\* A larger set has more sequences.
LEMMA SeqGrows == ASSUME NEW S, NEW T, S \subseteq T PROVE Seq(S) \subseteq Seq(T)
  <1> SUFFICES ASSUME NEW s \in Seq(S) PROVE s \in Seq(T)
    BY Zenon
  <1>1. s \in [1..Len(s) -> T] /\ Len(s) \in Nat
    OBVIOUS
  <1> QED
    BY <1>1, SeqDef

\* What a Node tells keeps its type in every step of it (runtime_control.rs and
\* repository.rs write nothing else).
LEMMA LedgerTypes == LedgerTypeOK /\ [Next]_ledgerVars => LedgerTypeOK'
  <1> SUFFICES ASSUME LedgerTypeOK, [Next]_ledgerVars PROVE LedgerTypeOK'
    BY Zenon
  <1> USE CloneLedgerAssumption
  <1>1. ASSUME NEW b \in Bindings, Bind(b) PROVE LedgerTypeOK'
    BY Zenon, <1>1 DEF LedgerTypeOK, Bind
  <1>2. ASSUME NEW e \in Execs, NEW p \in Permits \cup {None}, Accept(e, p) PROVE LedgerTypeOK'
    BY Zenon, <1>2 DEF LedgerTypeOK, Accept, Accepts, States
  <1>3. ASSUME NEW e \in Execs, Start(e) PROVE LedgerTypeOK'
    BY Zenon, <1>3 DEF LedgerTypeOK, Start
  <1>4. ASSUME NEW e \in Execs, Work(e) PROVE LedgerTypeOK'
    BY <1>4 DEF LedgerTypeOK, Work, States
  <1>5. ASSUME NEW e \in Execs, Complete(e) PROVE LedgerTypeOK'
    BY <1>5 DEF LedgerTypeOK, Complete, States
  <1>6. ASSUME NEW e \in Execs, Acknowledge(e) PROVE LedgerTypeOK'
    BY Zenon, <1>6 DEF LedgerTypeOK, Acknowledge
  <1>7. CASE Stop
    BY Zenon, <1>7 DEF LedgerTypeOK, Stop
  <1>8. CASE Restart
    <2>1. inc' \in Incarnations
      BY <1>8 DEF LedgerTypeOK, Restart, Incarnations
    <2>2. binding' \in {None} \cup Bindings
      <3>1. CASE binding = None
        BY Zenon, <1>8, <3>1 DEF Restart
      <3>2. CASE binding # None
        BY Zenon, <1>8, <3>2 DEF LedgerTypeOK, Restart, Bindings
      <3> QED
        BY Zenon, <3>1, <3>2
    <2> QED
      BY Zenon, <1>8, <2>1, <2>2 DEF LedgerTypeOK, Restart
  <1>9. CASE UNCHANGED ledgerVars
    BY Zenon, <1>9 DEF LedgerTypeOK, ledgerVars
  <1> QED
    BY Zenon, <1>1, <1>2, <1>3, <1>4, <1>5, <1>6, <1>7, <1>8, <1>9 DEF Next

\* complete_clone returns the result it finds: a Completed execution stays as it is.
LEMMA CompletedIsFinal ==
    ASSUME LedgerTypeOK, [Next]_ledgerVars, NEW e \in Execs, status[e].state = "Completed"
    PROVE  status'[e] = status[e]
  <1>1. ASSUME NEW d \in Execs, NEW p \in Permits \cup {None}, Accept(d, p) PROVE d # e
    BY Zenon, <1>1 DEF Accept, Accepts
  <1>2. ASSUME NEW d \in Execs, Work(d) PROVE d # e
    BY Zenon, <1>2 DEF Work
  <1>3. ASSUME NEW d \in Execs, Complete(d) PROVE d # e
    BY Zenon, <1>3 DEF Complete
  <1> QED
    BY Zenon, <1>1, <1>2, <1>3
    DEF LedgerTypeOK, Next, Bind, Accept, Start, Work, Complete, Acknowledge, Stop, Restart,
        ledgerVars

\* bind_runtime, accept_controlled_clone and a restart keep a sealed epoch sealed.
LEMMA SealedStays ==
    ASSUME LedgerTypeOK, [Next]_ledgerVars, NEW k \in Nat, Sealed(k)
    PROVE  Sealed(k)'
  <1> USE CloneLedgerAssumption DEF Sealed
  <1>1. ASSUME NEW b \in Bindings, Bind(b) PROVE Sealed(k)'
    <2>1. b.epoch >= binding.epoch /\ (b.epoch = binding.epoch /\ binding.closed => b.closed)
      BY Zenon, <1>1 DEF Bind, Binds
    <2>2. binding' = b /\ status' = status /\ controlled' = controlled
      BY Zenon, <1>1 DEF Bind
    <2>3. b.epoch \in Nat /\ binding.epoch \in Nat
      BY Zenon DEF LedgerTypeOK, Bindings
    <2>4. b # None
      BY <1>1 DEF Bindings, None
    <2> QED
      BY <2>1, <2>2, <2>3, <2>4
  <1>2. ASSUME NEW d \in Execs, NEW p \in Permits \cup {None}, Accept(d, p) PROVE Sealed(k)'
    <2>1. d = binding.epoch /\ ~binding.closed
      BY Zenon, <1>2 DEF Accept, Accepts, PermitHolds
    <2>2. binding.epoch \in Nat
      BY Zenon DEF LedgerTypeOK, Bindings
    <2>3. ~(d <= k)
      BY <2>1, <2>2
    <2> QED
      BY Zenon, <1>2, <2>3 DEF Accept, LedgerTypeOK
  <1>3. ASSUME NEW d \in Execs, Start(d) PROVE Sealed(k)'
    BY Zenon, <1>3 DEF Start
  <1>4. ASSUME NEW d \in Execs, Work(d) PROVE Sealed(k)'
    BY Zenon, <1>4 DEF LedgerTypeOK, Work
  <1>5. ASSUME NEW d \in Execs, Complete(d) PROVE Sealed(k)'
    BY Zenon, <1>5 DEF LedgerTypeOK, Complete
  <1>6. ASSUME NEW d \in Execs, Acknowledge(d) PROVE Sealed(k)'
    BY Zenon, <1>6 DEF Acknowledge
  <1>7. CASE Stop
    BY Zenon, <1>7 DEF Stop
  <1>8. CASE Restart
    <2>1. binding' = [binding EXCEPT !.closed = TRUE] /\ binding \in Bindings
      BY Zenon, <1>8 DEF LedgerTypeOK, Restart
    <2>2. binding' \in Bindings /\ binding'.closed /\ binding'.epoch = binding.epoch
      BY Zenon, <2>1 DEF Bindings
    <2>3. binding' # None
      BY <2>2 DEF Bindings, None
    <2> QED
      BY Zenon, <1>8, <2>2, <2>3 DEF Restart
  <1>9. CASE UNCHANGED ledgerVars
    BY Zenon, <1>9 DEF ledgerVars
  <1> QED
    BY Zenon, <1>1, <1>2, <1>3, <1>4, <1>5, <1>6, <1>7, <1>8, <1>9 DEF Next

-----------------------------------------------------------------------------
(* Messages.                                                                *)

\* The fields of a report, by its kind.
LEMMA ReportFields ==
    ASSUME NEW m \in Reports
    PROVE  /\ m.kind = "Event" => m.exec \in Execs /\ m.result \in Results
           /\ m.kind = "Status" => m.exec \in Execs /\ m.result \in Results \cup {None}
           /\ m.kind = "ControlState" => m.binding \in Bindings
  BY DEF Reports

\* The fields of a Controller's message, by its kind.
LEMMA MessageFields ==
    ASSUME NEW m \in Messages
    PROVE  /\ m.kind = "BindRuntime" => m.binding \in Bindings
           /\ m.kind \in {"Query", "Ack", "Clone"} => m.exec \in Execs
           /\ m.kind = "Clone" => m.permit \in Permits \cup {None}
  BY DEF Messages

\* What the Node said stays true whatever the Node does next.
LEMMA ReportsStayTrue ==
    ASSUME LedgerTypeOK, [Next]_ledgerVars
    PROVE  TrueReports \subseteq TrueReports' /\ Seq(TrueReports) \subseteq Seq(TrueReports')
  <1> SUFFICES ASSUME NEW m \in TrueReports PROVE m \in TrueReports'
    BY Zenon, SeqGrows
  <1> USE CloneLedgerAssumption
  <1>1. m \in Reports
    BY Zenon DEF TrueReports
  <1>2. ASSUME NEW e \in Execs, NEW r, EndedWith(e, r) PROVE EndedWith(e, r)'
    BY Zenon, <1>2, CompletedIsFinal DEF EndedWith
  <1>3. m.kind = "Event" => EndedWith(m.exec, m.result)'
    BY Zenon, <1>1, <1>2, ReportFields DEF TrueReports
  <1>4. m.kind = "Status" /\ m.state = "Completed" => EndedWith(m.exec, m.result)'
    BY Zenon, <1>1, <1>2, ReportFields DEF TrueReports
  <1>5. ASSUME m.kind = "ControlState", m.binding.closed, m.unfinished = {}
        PROVE  Sealed(m.binding.epoch)'
    <2>1. m.binding.epoch \in Nat
      BY Zenon, <1>1, <1>5, ReportFields DEF Bindings
    <2>2. Sealed(m.binding.epoch)
      BY Zenon, <1>5 DEF TrueReports
    <2> QED
      BY Zenon, <2>1, <2>2, SealedStays
  <1> QED
    BY Zenon, <1>1, <1>3, <1>4, <1>5 DEF TrueReports

-----------------------------------------------------------------------------
(* Steps.                                                                   *)

\* The first message of a stream is one of its set, and so are the others.
LEMMA HeadAndTail ==
    ASSUME NEW S, NEW s \in Seq(S), s # <<>>
    PROVE  Head(s) \in S /\ Tail(s) \in Seq(S)
  BY Zenon, HeadTailProperties

\* Whatever the session does, the Node's own facts move as its ledger says.
LEMMA ControlFollowsLedger == ControlInv /\ [ControlNext]_vars => [Next]_ledgerVars
  <1> SUFFICES ASSUME ControlInv, ControlNext PROVE [Next]_ledgerVars
    BY Zenon DEF vars
  <1>1. ASSUME toNode # <<>> PROVE Head(toNode) \in Messages
    BY Zenon, <1>1, HeadAndTail DEF ControlInv, TrueMessages
  <1>2. CASE Handle
    <2>1. Delivered(Head(toNode).kind)
      BY Zenon, <1>2 DEF Handle, HandleBind, HandleClone, HandleQuery, HandleAck, Delivered
    <2>2. Head(toNode) \in Messages
      BY Zenon, <1>1, <2>1 DEF Delivered
    <2>3. CASE HandleBind
      BY Zenon, <2>2, <2>3, MessageFields DEF HandleBind, Delivered, Next, Refuses
    <2>4. CASE HandleClone
      BY Zenon, <2>2, <2>4, MessageFields DEF HandleClone, Delivered, Next, Refuses
    <2>5. CASE HandleQuery
      BY Zenon, <2>5 DEF HandleQuery
    <2>6. CASE HandleAck
      BY Zenon, <2>2, <2>6, MessageFields DEF HandleAck, Delivered, Next
    <2> QED
      BY Zenon, <1>2, <2>3, <2>4, <2>5, <2>6 DEF Handle
  <1>3. CASE NodeWorks \/ NodeStops \/ NodeRestarts
    BY Zenon, <1>3 DEF NodeWorks, NodeStops, NodeRestarts, Next
  <1>4. CASE Polls \/ Reconcile \/ \E e \in Execs : ReplayEvent(e)
    BY Zenon, <1>4 DEF Polls, PollIdle, PollStatus, Poll, Reconcile, TakeOverEvent, TakeOverStatus,
                Retransmit, AcknowledgeBinding, SendReply, ReplayEvent
  <1>5. CASE CloudOpens \/ CloudCloses \/ Connect \/ Drop
    BY Zenon, <1>5 DEF CloudOpens, CloudCloses, Connect, Drop
  <1> QED
    BY Zenon, <1>2, <1>3, <1>4, <1>5 DEF ControlNext

\* The report that the Controller reads is true, and so are those behind it.
LEMMA ReadingReports ==
    ASSUME ControlInv, NEW kind, Arrives(kind)
    PROVE  /\ Head(toCtl) \in TrueReports /\ Head(toCtl) \in Reports /\ Head(toCtl).kind = kind
           /\ Tail(toCtl) \in Seq(TrueReports)
  BY Zenon, HeadAndTail DEF ControlInv, Arrives, TrueReports

\* The message that the Node reads is one the Controller meant, and so are those behind it.
LEMMA ReadingMessages ==
    ASSUME ControlInv, NEW kind, Delivered(kind)
    PROVE  /\ Head(toNode) \in TrueMessages /\ Head(toNode) \in Messages
           /\ Head(toNode).kind = kind /\ Tail(toNode) \in Seq(TrueMessages)
  BY Zenon, HeadAndTail DEF ControlInv, Delivered, TrueMessages

\* The Controller's store and Cloud keep their types.
LEMMA StoreTypes == ControlInv /\ [ControlNext]_vars => StoreTypeOK'
  <1> SUFFICES ASSUME ControlInv, [ControlNext]_vars PROVE StoreTypeOK'
    BY Zenon
  <1> USE CloneLedgerAssumption, ControlAssumption
  <1>0. LedgerTypeOK /\ StoreTypeOK
    BY Zenon DEF ControlInv
  <1>1. CASE CloudOpens
    <2>1. cloud' \in Clouds
      BY Zenon, <1>0, <1>1 DEF StoreTypeOK, Clouds, CloudOpens
    <2> QED
      BY Zenon, <1>0, <1>1, <2>1 DEF StoreTypeOK, CloudOpens, streams, store
  <1>2. CASE CloudCloses
    BY Zenon, <1>0, <1>2 DEF StoreTypeOK, Clouds, CloudCloses, streams, store
  <1>3. CASE Connect
    <2>1. cloud' \in Clouds
      BY Zenon, <1>0, <1>3 DEF LedgerTypeOK, StoreTypeOK, Clouds, Connect
    <2> QED
      BY Zenon, <1>0, <1>3, <2>1 DEF StoreTypeOK, Connect, streams, store
  <1>4. CASE Drop
    <2>1. drops' \in Nat
      BY <1>0, <1>4 DEF StoreTypeOK, Drop
    <2>2. up' = FALSE /\ window' = {} /\ sent' = {} /\ UNCHANGED <<taken, receipts, cloud>>
      BY Zenon, <1>4 DEF Drop, Ends, store
    <2> QED
      BY Zenon, <1>0, <2>1, <2>2 DEF StoreTypeOK
  <1>5. CASE Polls
    BY Zenon, <1>0, <1>5 DEF StoreTypeOK, Polls, PollIdle, PollStatus, Poll, store
  <1>6. CASE TakeOverEvent
    BY Zenon, <1>0, <1>6, ReadingReports, ReportFields DEF StoreTypeOK, TakeOverEvent, Records
  <1>7. CASE TakeOverStatus
    BY <1>0, <1>7, ReadingReports, ReportFields DEF StoreTypeOK, TakeOverStatus, Records
  <1>8. CASE Retransmit
    <2>1. Arrives("Status") /\ sent' \in {sent, sent \cup {Head(toCtl).exec}}
      BY Zenon, <1>8 DEF Retransmit
    <2>2. Head(toCtl).exec \in Execs
      BY Zenon, <2>1, ReadingReports, ReportFields
    <2>3. UNCHANGED <<up, window, store, cloud, drops>>
      BY Zenon, <1>8 DEF Retransmit
    <2> QED
      BY Zenon, <1>0, <2>1, <2>2, <2>3 DEF StoreTypeOK, store
  <1>9. CASE AcknowledgeBinding
    <2>1. cloud' \in Clouds
      BY Zenon, <1>0, <1>9 DEF StoreTypeOK, Clouds, AcknowledgeBinding
    <2> QED
      BY Zenon, <1>0, <1>9, <2>1 DEF StoreTypeOK, AcknowledgeBinding, store
  <1>10. CASE SendReply
    BY Zenon, <1>0, <1>10 DEF StoreTypeOK, SendReply, store
  <1>11. CASE Handle
    BY Zenon, <1>0, <1>11 DEF StoreTypeOK, Handle, HandleBind, HandleClone, HandleQuery, HandleAck,
                       Answers, Refuses, Ends, store
  <1>12. CASE \E e \in Execs : ReplayEvent(e)
    BY Zenon, <1>0, <1>12 DEF StoreTypeOK, ReplayEvent, store
  <1>13. CASE NodeWorks \/ NodeStops \/ NodeRestarts
    BY Zenon, <1>0, <1>13 DEF StoreTypeOK, NodeWorks, NodeStops, NodeRestarts, Ends, streams, store
  <1>14. CASE UNCHANGED vars
    BY Zenon, <1>0, <1>14 DEF StoreTypeOK, vars, streams, store
  <1> QED
    BY Zenon, <1>1, <1>2, <1>3, <1>4, <1>5, <1>6, <1>7, <1>8, <1>9, <1>10, <1>11, <1>12, <1>13, <1>14
    DEF ControlNext, Reconcile

\* The messages the Controller makes.
LEMMA MessagesMade ==
    /\ \A b \in Bindings : BindRuntime(b) \in Messages /\ BindRuntime(b).kind = "BindRuntime"
    /\ \A e \in Execs : Query(e) \in Messages /\ Query(e).kind = "Query"
    /\ \A e \in Execs : Ack(e) \in Messages /\ Ack(e).kind = "Ack" /\ Ack(e).exec = e
    /\ \A e \in Execs, p \in Permits \cup {None} :
          Clone(e, p) \in Messages /\ Clone(e, p).kind = "Clone"
  BY Zenon DEF Messages, BindRuntime, Query, Ack, Clone

\* The polled bindings are well formed: Cloud has an epoch only for an incarnation.
LEMMA ListedBindings == ControlInv => Listed \in Seq(TrueMessages)
  <1> SUFFICES ASSUME ControlInv PROVE Listed \in Seq(TrueMessages)
    BY Zenon
  <1> USE CloneLedgerAssumption
  <1>1. CASE cloud.epoch = 0
    BY <1>1 DEF Listed
  <1>2. CASE cloud.epoch # 0
    <2> DEFINE b == [epoch |-> cloud.epoch, closed |-> cloud.closed, inc |-> cloud.inc]
    <2>0. cloud.epoch \in Execs /\ cloud.closed \in BOOLEAN /\ cloud.inc \in Incarnations \cup {0}
      BY Zenon, <1>2 DEF ControlInv, StoreTypeOK, Clouds
    <2>1. cloud.inc \in Incarnations
      <3>1. cloud.epoch > 0
        BY Zenon, <2>0, EpochsArePositive
      <3>2. cloud.inc > 0
        BY Zenon, <3>1 DEF ControlInv
      <3> QED
        BY <2>0, <3>2
    <2>2. b \in Bindings
      BY Zenon, <2>0, <2>1 DEF Bindings
    <2>3. BindRuntime(b) \in TrueMessages
      BY Zenon, <2>2, MessagesMade DEF TrueMessages
    <2> QED
      BY <1>2, <2>3 DEF Listed
  <1> QED
    BY Zenon, <1>1, <1>2

\* What the Node tells of an execution is true when it tells it.
LEMMA ToldIsTrue == ASSUME LedgerTypeOK, NEW e \in Execs PROVE Told(e) \in TrueReports
  <1>1. status[e].state \in States /\ status[e].result \in Results \cup {None}
    BY Zenon DEF LedgerTypeOK
  <1> DEFINE told == CASE status[e].state \in {"Absent", "Unknown"} -> "Unknown"
                       [] status[e].state \in {"Accepted", "Running"} -> "Live"
                       [] OTHER -> "Completed"
  <1>2. told \in {"Unknown", "Live", "Completed"}
        /\ (told = "Completed" => status[e].state = "Completed")
    BY Zenon, <1>1 DEF States
  <1>3. Told(e) = Status(e, told, status[e].result)
    BY Zenon DEF Told
  <1> HIDE DEF told
  <1>4. Told(e) \in Reports
    BY <1>1, <1>2, <1>3 DEF Reports, Status
  <1> QED
    BY <1>2, <1>3, <1>4 DEF TrueReports, Status, EndedWith

\* A report of nothing unfinished in a closed epoch seals it.
LEMMA ClosureIsTrue ==
    ASSUME LedgerTypeOK, NEW b \in Bindings, Bind(b)
    PROVE  ControlState(b, Unfinished) \in TrueReports'
  <1> USE CloneLedgerAssumption
  <1>1. Unfinished \subseteq Execs
    BY Zenon DEF Unfinished
  <1>2. ControlState(b, Unfinished) \in Reports
    BY Zenon, <1>1 DEF Reports, ControlState
  <1>3. ASSUME b.closed, Unfinished = {} PROVE Sealed(b.epoch)'
    <2>1. binding' = b /\ status' = status /\ controlled'
      BY Zenon DEF Bind
    <2>2. b.epoch >= b.epoch
      <3>1. b.epoch \in Nat
        BY Zenon, EpochsArePositive DEF Bindings
      <3> QED
        BY <3>1
    <2>3. b # None
      BY DEF Bindings, None
    <2>4. \A e \in Execs : status[e].state \in {"Absent", "Completed"}
      BY Zenon, <1>3 DEF Unfinished
    <2> QED
      BY Zenon, <1>3, <2>1, <2>2, <2>3, <2>4 DEF Sealed
  <1> QED
    BY Zenon, <1>2, <1>3 DEF TrueReports, ControlState

\* Whatever is under way stays true.
LEMMA StreamsStayTrue ==
    ControlInv /\ [ControlNext]_vars =>
        /\ toCtl' \in Seq(TrueReports') /\ toNode' \in Seq(TrueMessages')
        /\ reply' \in {None} \cup TrueMessages'
  <1> SUFFICES ASSUME ControlInv, [ControlNext]_vars
               PROVE  /\ toCtl' \in Seq(TrueReports') /\ toNode' \in Seq(TrueMessages')
                      /\ reply' \in {None} \cup TrueMessages'
    BY Zenon
  <1> USE CloneLedgerAssumption, ControlAssumption
  <1>a. LedgerTypeOK /\ StoreTypeOK /\ toCtl \in Seq(TrueReports) /\ toNode \in Seq(TrueMessages)
        /\ reply \in {None} \cup TrueMessages
    BY Zenon DEF ControlInv
  <1>b. TrueReports \subseteq TrueReports' /\ Seq(TrueReports) \subseteq Seq(TrueReports')
    BY Zenon, <1>a, ControlFollowsLedger, ReportsStayTrue
  <1>c. receipts \subseteq receipts'
    BY Zenon DEF ControlNext, CloudOpens, CloudCloses, Connect, Drop, Polls, PollIdle, PollStatus, Poll,
           Reconcile, TakeOverEvent, TakeOverStatus, Retransmit, AcknowledgeBinding, SendReply,
           Handle, HandleBind, HandleClone, HandleQuery, HandleAck, Answers, Refuses, ReplayEvent,
           NodeWorks, NodeStops, NodeRestarts, store, vars
  <1>d. TrueMessages \subseteq TrueMessages' /\ Seq(TrueMessages) \subseteq Seq(TrueMessages')
    BY Zenon, <1>c, SeqGrows DEF TrueMessages
  <1>e. <<>> \in Seq(TrueReports') /\ <<>> \in Seq(TrueMessages')
    OBVIOUS
  <1>1. CASE CloudOpens \/ CloudCloses \/ Connect \/ NodeWorks \/ UNCHANGED vars
    BY Zenon, <1>1, <1>a, <1>b, <1>d DEF CloudOpens, CloudCloses, Connect, NodeWorks, vars, streams
  <1>2. CASE Drop \/ NodeStops \/ NodeRestarts
    BY Zenon, <1>2, <1>e DEF Drop, NodeStops, NodeRestarts, Ends
  <1>3. CASE Polls
    <2>1. PICK queries \in {<<>>} \cup {<<Query(e)>> : e \in Execs} : Poll(queries)
      BY Zenon, <1>3 DEF Polls, PollIdle, PollStatus
    <2>2. \A e \in Execs : Query(e) \in TrueMessages
      BY Zenon, MessagesMade DEF TrueMessages
    <2>3. queries \in Seq(TrueMessages)
      <3>1. CASE queries = <<>>
        BY <3>1
      <3>2. ASSUME NEW e \in Execs, queries = <<Query(e)>> PROVE queries \in Seq(TrueMessages)
        BY <2>2, <3>2
      <3> QED
        BY Zenon, <3>1, <3>2
    <2>4. toNode \o Listed \o queries \in Seq(TrueMessages)
      BY Zenon, <1>a, <2>3, ListedBindings, ConcatProperties
    <2> QED
      BY Zenon, <1>a, <1>b, <1>d, <2>1, <2>4 DEF Poll
  <1>4. CASE TakeOverEvent
    <2>1. Arrives("Event") /\ toCtl' = Tail(toCtl) /\ reply' = Ack(Head(toCtl).exec)
          /\ receipts' = receipts \cup {Head(toCtl).exec} /\ toNode' = toNode
      BY Zenon, <1>4 DEF TakeOverEvent
    <2>2. Tail(toCtl) \in Seq(TrueReports) /\ Head(toCtl).exec \in Execs
      BY Zenon, <2>1, ReadingReports, ReportFields
    <2>3. Ack(Head(toCtl).exec) \in TrueMessages'
      BY Zenon, <2>1, <2>2, MessagesMade DEF TrueMessages
    <2> QED
      BY Zenon, <1>a, <1>b, <1>d, <2>1, <2>2, <2>3
  <1>5. CASE TakeOverStatus
    <2>1. Arrives("Status") /\ toCtl' = Tail(toCtl) /\ UNCHANGED <<reply, toNode>>
      BY Zenon, <1>5 DEF TakeOverStatus
    <2> QED
      BY Zenon, <1>a, <1>b, <1>d, <2>1, ReadingReports
  <1>6. CASE Retransmit
    <2> DEFINE e == Head(toCtl).exec
               p == IF controlled THEN [epoch |-> cloud.epoch, inc |-> cloud.inc] ELSE None
    <2>1. Arrives("Status") /\ toCtl' = Tail(toCtl) /\ toNode' = toNode
      BY Zenon, <1>6 DEF Retransmit
    <2>2. reply' = reply \/ (Dispatchable(e) /\ reply' = Clone(e, p))
      BY Zenon, <1>6 DEF Retransmit
    <2>3. e \in Execs
      BY Zenon, <2>1, ReadingReports, ReportFields
    <2>4. ASSUME Dispatchable(e) PROVE p \in Permits \cup {None}
      <3>1. CASE ~controlled
        BY Zenon, <3>1
      <3>2. CASE controlled
        <4>1. cloud.epoch = e /\ cloud.epoch \in Epochs /\ cloud.epoch > 0
          BY Zenon, <2>3, <2>4, <3>2, EpochsArePositive DEF Dispatchable
        <4>2. cloud.inc > 0 /\ cloud.inc \in Incarnations \cup {0}
          BY Zenon, <4>1 DEF ControlInv, StoreTypeOK, Clouds
        <4>3. cloud.inc \in Incarnations
          BY <4>2
        <4> QED
          BY Zenon, <3>2, <4>1, <4>3 DEF Permits
      <3> QED
        BY Zenon, <3>1, <3>2
    <2>5. Dispatchable(e) => Clone(e, p) \in TrueMessages'
      BY Zenon, <2>3, <2>4, MessagesMade DEF TrueMessages
    <2> QED
      BY Zenon, <1>a, <1>b, <1>d, <2>1, <2>2, <2>5, ReadingReports
  <1>7. CASE AcknowledgeBinding
    <2>1. Arrives("ControlState") /\ toCtl' = Tail(toCtl) /\ UNCHANGED <<reply, toNode>>
      BY Zenon, <1>7 DEF AcknowledgeBinding
    <2> QED
      BY Zenon, <1>a, <1>b, <1>d, <2>1, ReadingReports
  <1>8. CASE SendReply
    <2>1. reply \in TrueMessages /\ toNode' = Append(toNode, reply) /\ reply' = None
          /\ toCtl' = toCtl
      BY Zenon, <1>8, <1>a DEF SendReply
    <2>2. toNode' \in Seq(TrueMessages)
      BY Zenon, <1>a, <2>1, AppendProperties
    <2> QED
      BY Zenon, <1>a, <1>b, <1>d, <2>1, <2>2
  <1>9. CASE \E e \in Execs : ReplayEvent(e)
    <2>1. PICK e \in Execs : ReplayEvent(e)
      BY Zenon, <1>9
    <2>2. e \in outbox /\ toCtl' = Append(toCtl, Event(e, status[e].result))
          /\ UNCHANGED <<reply, toNode>>
      BY Zenon, <2>1 DEF ReplayEvent
    <2>3. status[e].state = "Completed" /\ status[e].result \in Results
      BY Zenon, <1>a, <2>2 DEF ControlInv, LedgerTypeOK
    <2>4. Event(e, status[e].result) \in TrueReports
      BY Zenon, <2>3 DEF TrueReports, Reports, Event, EndedWith
    <2>5. toCtl' \in Seq(TrueReports)
      BY Zenon, <1>a, <2>2, <2>4, AppendProperties
    <2> QED
      BY Zenon, <1>a, <1>b, <1>d, <2>2, <2>5
  <1>10. ASSUME NEW m \in TrueReports', NEW kind, Delivered(kind), Answers(m)
         PROVE  /\ toCtl' \in Seq(TrueReports') /\ toNode' \in Seq(TrueMessages')
                /\ reply' \in {None} \cup TrueMessages'
    <2>1. toNode' = Tail(toNode) /\ toCtl' = Append(toCtl, m) /\ reply' = reply
      BY Zenon, <1>10 DEF Answers
    <2>2. toCtl \in Seq(TrueReports')
      BY Zenon, <1>a, <1>b
    <2>3. toCtl' \in Seq(TrueReports')
      BY Zenon, <2>1, <2>2, AppendProperties
    <2> QED
      BY Zenon, <1>10, <1>a, <1>d, <2>1, <2>3, ReadingMessages
  <1>11. ASSUME Refuses
         PROVE  /\ toCtl' \in Seq(TrueReports') /\ toNode' \in Seq(TrueMessages')
                /\ reply' \in {None} \cup TrueMessages'
    BY Zenon, <1>11, <1>e DEF Refuses, Ends
  <1>12. CASE HandleBind
    <2>1. Delivered("BindRuntime")
      BY Zenon, <1>12 DEF HandleBind
    <2>2. Head(toNode).binding \in Bindings
      BY Zenon, <2>1, ReadingMessages, MessageFields
    <2> QED
      BY Zenon, <1>12, <1>a, <1>10, <1>11, <2>1, <2>2, ClosureIsTrue DEF HandleBind
  <1>13. CASE HandleClone
    <2>1. Delivered("Clone")
      BY Zenon, <1>13 DEF HandleClone
    <2>2. Head(toNode).exec \in Execs
      BY Zenon, <2>1, ReadingMessages, MessageFields
    <2>3. Status(Head(toNode).exec, "Live", None) \in TrueReports'
      BY Zenon, <2>2 DEF TrueReports, Reports, Status
    <2>4. Told(Head(toNode).exec) \in TrueReports'
      BY Zenon, <1>a, <1>b, <2>2, ToldIsTrue
    <2> QED
      BY Zenon, <1>13, <1>10, <1>11, <2>1, <2>3, <2>4 DEF HandleClone
  <1>14. CASE HandleQuery
    <2>1. Delivered("Query") /\ Answers(Told(Head(toNode).exec))
      BY Zenon, <1>14 DEF HandleQuery
    <2>2. Told(Head(toNode).exec) \in TrueReports'
      BY Zenon, <1>a, <1>b, <2>1, ToldIsTrue, ReadingMessages, MessageFields
    <2> QED
      BY Zenon, <1>10, <2>1, <2>2
  <1>15. CASE HandleAck
    <2>1. Delivered("Ack") /\ toNode' = Tail(toNode) /\ UNCHANGED <<toCtl, reply>>
      BY Zenon, <1>15 DEF HandleAck
    <2> QED
      BY Zenon, <1>a, <1>b, <1>d, <2>1, ReadingMessages
  <1> QED
    BY Zenon, <1>1, <1>2, <1>3, <1>4, <1>5, <1>6, <1>7, <1>8, <1>9, <1>12, <1>13, <1>14, <1>15
    DEF ControlNext, Reconcile, Handle

-----------------------------------------------------------------------------
(* Results.                                                                 *)

\* complete_clone writes the event with the result, so the outbox holds results only,
\* and an execution that has just ended is in it.
LEMMA OutboxMoves ==
    ASSUME LedgerTypeOK, [Next]_ledgerVars, \A e \in outbox : status[e].state = "Completed"
    PROVE  /\ \A e \in outbox' : status'[e].state = "Completed"
           /\ \A e \in Execs : status'[e].state = "Completed" =>
                                  e \in outbox' \/ status[e].state = "Completed"
  <1>1. outbox \subseteq Execs /\ status \in [Execs -> [state : States, result : Results \cup {None}]]
    BY Zenon DEF LedgerTypeOK
  <1>2. ASSUME NEW d \in Execs, Complete(d)
        PROVE  /\ \A e \in outbox' : status'[e].state = "Completed"
               /\ \A e \in Execs : status'[e].state = "Completed" =>
                                      e \in outbox' \/ status[e].state = "Completed"
    BY <1>1, <1>2 DEF Complete
  <1>3. ASSUME NEW d \in Execs, NEW p \in Permits \cup {None}, Accept(d, p)
        PROVE  /\ \A e \in outbox' : status'[e].state = "Completed"
               /\ \A e \in Execs : status'[e].state = "Completed" =>
                                      e \in outbox' \/ status[e].state = "Completed"
    BY Zenon, <1>1, <1>3 DEF Accept, Accepts
  <1>4. ASSUME NEW d \in Execs, Work(d)
        PROVE  /\ \A e \in outbox' : status'[e].state = "Completed"
               /\ \A e \in Execs : status'[e].state = "Completed" =>
                                      e \in outbox' \/ status[e].state = "Completed"
    BY Zenon, <1>1, <1>4 DEF Work
  <1>5. ASSUME outbox' \subseteq outbox, status' = status
        PROVE  /\ \A e \in outbox' : status'[e].state = "Completed"
               /\ \A e \in Execs : status'[e].state = "Completed" =>
                                      e \in outbox' \/ status[e].state = "Completed"
    BY Zenon, <1>5
  <1>6. ASSUME NEW d \in Execs, Start(d) \/ Acknowledge(d)
        PROVE  outbox' \subseteq outbox /\ status' = status
    BY Zenon, <1>6 DEF Start, Acknowledge
  <1>7. ASSUME NEW b \in Bindings, Bind(b) PROVE outbox' \subseteq outbox /\ status' = status
    BY Zenon, <1>7 DEF Bind
  <1>8. CASE Stop \/ Restart \/ UNCHANGED ledgerVars
    BY Zenon, <1>5, <1>8 DEF Stop, Restart, ledgerVars
  <1> QED
    BY Zenon, <1>2, <1>3, <1>4, <1>5, <1>6, <1>7, <1>8 DEF Next

\* What the outbox and the store hold.
StoreInv ==
    /\ \A e \in outbox : status[e].state = "Completed"
    /\ \A e \in receipts : taken[e] # None
    /\ ResultsAreKept

\* The store keeps its promise in every step.
LEMMA ResultsStayKept == ControlInv /\ [ControlNext]_vars => StoreInv'
  <1> SUFFICES ASSUME ControlInv, [ControlNext]_vars PROVE StoreInv'
    BY Zenon
  <1>a. LedgerTypeOK /\ StoreTypeOK /\ StoreInv
    BY Zenon DEF ControlInv, StoreInv
  <1>b. [Next]_ledgerVars
    BY Zenon, ControlFollowsLedger
  <1>c. \A e \in Execs : status[e].state = "Completed" => status'[e] = status[e]
    BY Zenon, <1>a, <1>b, CompletedIsFinal
  <1>d. /\ \A e \in outbox' : status'[e].state = "Completed"
        /\ \A e \in Execs : status'[e].state = "Completed" =>
                               e \in outbox' \/ status[e].state = "Completed"
    BY Zenon, <1>a, <1>b, OutboxMoves DEF StoreInv
  <1>1. ASSUME UNCHANGED store, outbox \ outbox' \subseteq receipts PROVE StoreInv'
    <2>1. taken' = taken /\ receipts' = receipts
      BY Zenon, <1>1 DEF store
    <2>2. ASSUME NEW e \in Execs, taken[e] # None
          PROVE  status'[e].state = "Completed" /\ taken[e] = status'[e].result
      BY Zenon, <1>a, <1>c, <2>2 DEF StoreInv, ResultsAreKept
    <2>3. ASSUME NEW e \in Execs, status'[e].state = "Completed", e \notin outbox'
          PROVE  e \in receipts /\ taken[e] # None
      <3>1. status[e].state = "Completed"
        BY Zenon, <1>d, <2>3
      <3>2. e \in receipts
        BY Zenon, <1>a, <1>1, <2>3, <3>1 DEF StoreInv, ResultsAreKept
      <3> QED
        BY Zenon, <1>a, <3>2 DEF StoreInv
    <2> QED
      BY Zenon, <1>a, <1>d, <2>1, <2>2, <2>3 DEF StoreInv, ResultsAreKept
  <1>2. CASE TakeOverEvent
    <2> DEFINE m == Head(toCtl)
    <2>1. Arrives("Event") /\ taken' = [taken EXCEPT ![m.exec] = m.result]
          /\ receipts' = receipts \cup {m.exec} /\ UNCHANGED <<status, outbox>>
      BY Zenon, <1>2 DEF TakeOverEvent, Records, ledgerVars
    <2>2. m.exec \in Execs /\ m.result \in Results /\ EndedWith(m.exec, m.result)
      BY Zenon, <2>1, ReadingReports, ReportFields DEF TrueReports
    <2>3. m.result # None
      BY Zenon, <2>2, CloneLedgerAssumption
    <2> HIDE DEF m
    <2> QED
      BY Zenon, <1>a, <2>1, <2>2, <2>3 DEF StoreInv, ResultsAreKept, StoreTypeOK, EndedWith
  <1>3. CASE TakeOverStatus
    <2> DEFINE m == Head(toCtl)
    <2>1. Arrives("Status") /\ receipts' = receipts /\ UNCHANGED <<status, outbox>>
      BY Zenon, <1>3 DEF TakeOverStatus, ledgerVars
    <2>2. CASE m.state # "Completed"
      BY Zenon, <1>1, <1>3, <2>1, <2>2 DEF TakeOverStatus, store
    <2>3. CASE m.state = "Completed"
      <3>1. taken' = [taken EXCEPT ![m.exec] = m.result]
        BY Zenon, <1>3, <2>3 DEF TakeOverStatus, Records
      <3>2. m.exec \in Execs /\ EndedWith(m.exec, m.result)
        BY Zenon, <2>1, <2>3, ReadingReports, ReportFields DEF TrueReports
      <3>3. m.result # None
        BY Zenon, <1>a, <3>2 DEF LedgerTypeOK, EndedWith
      <3> HIDE DEF m
      <3> QED
        BY Zenon, <1>a, <2>1, <3>1, <3>2, <3>3 DEF StoreInv, ResultsAreKept, StoreTypeOK, EndedWith
    <2> QED
      BY Zenon, <2>2, <2>3
  <1>4. CASE HandleAck
    <2>1. Delivered("Ack") /\ outbox' = outbox \ {Head(toNode).exec} /\ UNCHANGED store
      BY Zenon, <1>4 DEF HandleAck, Acknowledge
    <2>2. Head(toNode).exec \in receipts
      BY Zenon, <2>1, ReadingMessages DEF TrueMessages
    <2> QED
      BY Zenon, <1>1, <2>1, <2>2
  <1>5. CASE HandleBind \/ HandleClone \/ HandleQuery
    <2>1. UNCHANGED store
      BY Zenon, <1>5 DEF HandleBind, HandleClone, HandleQuery, Answers, Refuses
    <2>2. outbox' = outbox
      BY Zenon, <1>5 DEF HandleBind, HandleClone, HandleQuery, Refuses, Bind, Accept, ledgerVars
    <2> QED
      BY Zenon, <1>1, <2>1, <2>2
  <1>6. CASE NodeWorks \/ NodeStops \/ NodeRestarts
    <2>1. UNCHANGED store
      BY Zenon, <1>6 DEF NodeWorks, NodeStops, NodeRestarts
    <2>2. outbox \subseteq outbox'
      BY Zenon, <1>6 DEF NodeWorks, NodeStops, NodeRestarts, Start, Work, Complete, Stop, Restart
    <2> QED
      BY Zenon, <1>1, <2>1, <2>2
  <1>7. CASE \/ CloudOpens \/ CloudCloses \/ Connect \/ Drop \/ Polls \/ Retransmit
             \/ AcknowledgeBinding \/ SendReply \/ UNCHANGED vars
             \/ \E e \in Execs : ReplayEvent(e)
    <2>1. UNCHANGED store /\ outbox' = outbox
      BY Zenon, <1>7 DEF CloudOpens, CloudCloses, Connect, Drop, Polls, PollIdle, PollStatus, Poll,
                  Retransmit, AcknowledgeBinding, SendReply, ReplayEvent, vars, ledgerVars
    <2> QED
      BY Zenon, <1>1, <2>1
  <1> QED
    BY Zenon, <1>2, <1>3, <1>4, <1>5, <1>6, <1>7 DEF ControlNext, Reconcile, Handle

-----------------------------------------------------------------------------
(* Epochs.                                                                  *)

\* What Cloud may rely on when it hands an epoch over.
EpochInv ==
    /\ cloud.epoch > 0 => cloud.inc > 0
    /\ cloud.epoch > 1 => Sealed(cloud.epoch - 1)
    /\ cloud.released => Sealed(cloud.epoch)

\* Cloud opens an epoch only behind a sealed one, and the Node keeps it sealed.
LEMMA EpochsStaySealed == ControlInv /\ [ControlNext]_vars => EpochInv'
  <1> SUFFICES ASSUME ControlInv, [ControlNext]_vars PROVE EpochInv'
    BY Zenon
  <1>a. LedgerTypeOK /\ StoreTypeOK /\ EpochInv
    BY Zenon DEF ControlInv, EpochInv
  <1>b. [Next]_ledgerVars
    BY Zenon, ControlFollowsLedger
  <1>c. cloud.epoch \in Nat /\ (cloud.epoch > 1 => cloud.epoch - 1 \in Nat)
    BY <1>a, EpochsArePositive DEF StoreTypeOK, Clouds
  <1>d. ASSUME NEW k \in Nat, Sealed(k) PROVE Sealed(k)'
    BY Zenon, <1>a, <1>b, <1>d, SealedStays
  <1>e. ASSUME cloud'.epoch > 0 => cloud'.inc > 0,
               ASSUME NEW k \in Nat, cloud'.epoch > 1 /\ k = cloud'.epoch - 1 PROVE Sealed(k)',
               ASSUME NEW k \in Nat, cloud'.released /\ k = cloud'.epoch PROVE Sealed(k)'
        PROVE  EpochInv'
    <2>1. cloud'.epoch \in Nat
      <3>1. cloud'.epoch \in Execs \cup {0}
        BY Zenon, StoreTypes DEF StoreTypeOK, Clouds
      <3> QED
        BY <3>1, EpochsArePositive
    <2>2. ASSUME cloud'.epoch > 1 PROVE Sealed(cloud.epoch - 1)'
      <3>1. PICK k \in Nat : k = cloud'.epoch - 1
        BY <2>1, <2>2
      <3>2. Sealed(k)'
        BY Zenon, <1>e, <2>2, <3>1
      <3> QED
        BY Zenon, <3>1, <3>2 DEF Sealed
    <2>3. ASSUME cloud'.released PROVE Sealed(cloud.epoch)'
      <3>1. PICK k \in Nat : k = cloud'.epoch
        BY Zenon, <2>1
      <3>2. Sealed(k)'
        BY Zenon, <1>e, <2>3, <3>1
      <3> QED
        BY Zenon, <3>1, <3>2 DEF Sealed
    <2> QED
      BY Zenon, <1>e, <2>2, <2>3 DEF EpochInv
  <1>1. CASE UNCHANGED cloud
    <2>1. ASSUME NEW k \in Nat, cloud'.epoch > 1 /\ k = cloud'.epoch - 1 PROVE Sealed(k)'
      BY Zenon, <1>a, <1>d, <1>1, <2>1 DEF EpochInv
    <2>2. ASSUME NEW k \in Nat, cloud'.released /\ k = cloud'.epoch PROVE Sealed(k)'
      BY Zenon, <1>a, <1>d, <1>1, <2>2 DEF EpochInv
    <2> QED
      BY Zenon, <1>a, <1>1, <1>e, <2>1, <2>2 DEF EpochInv
  <1>2. CASE CloudOpens
    <2>1. cloud'.epoch = cloud.epoch + 1 /\ ~cloud'.released /\ cloud'.inc = cloud.inc
      BY Zenon, <1>a, <1>2 DEF StoreTypeOK, Clouds, CloudOpens
    <2>2. cloud.inc > 0 /\ (cloud.epoch = 0 \/ cloud.released)
      BY Zenon, <1>2 DEF CloudOpens
    <2>3. ASSUME NEW k \in Nat, cloud'.epoch > 1 /\ k = cloud'.epoch - 1 PROVE Sealed(k)'
      <3>1. k = cloud.epoch /\ cloud.epoch # 0
        BY <1>c, <2>1, <2>3
      <3> QED
        BY Zenon, <1>a, <1>d, <2>2, <3>1 DEF EpochInv
    <2> QED
      BY Zenon, <1>e, <2>1, <2>2, <2>3
  <1>3. CASE CloudCloses
    <2>1. UNCHANGED <<cloud.epoch, cloud.released, cloud.inc>>
      BY Zenon, <1>a, <1>3 DEF StoreTypeOK, Clouds, CloudCloses
    <2>2. ASSUME NEW k \in Nat, cloud'.epoch > 1 /\ k = cloud'.epoch - 1 PROVE Sealed(k)'
      BY Zenon, <1>a, <1>d, <2>1, <2>2 DEF EpochInv
    <2>3. ASSUME NEW k \in Nat, cloud'.released /\ k = cloud'.epoch PROVE Sealed(k)'
      BY Zenon, <1>a, <1>d, <2>1, <2>3 DEF EpochInv
    <2> QED
      BY Zenon, <1>a, <1>e, <2>1, <2>2, <2>3 DEF EpochInv
  <1>4. CASE Connect
    <2>1. UNCHANGED <<cloud.epoch, cloud.released>> /\ cloud'.inc \in {cloud.inc, inc}
      BY Zenon, <1>a, <1>4 DEF StoreTypeOK, Clouds, Connect
    <2>2. inc > 0
      BY <1>a DEF LedgerTypeOK, Incarnations
    <2>3. ASSUME NEW k \in Nat, cloud'.epoch > 1 /\ k = cloud'.epoch - 1 PROVE Sealed(k)'
      BY Zenon, <1>a, <1>d, <2>1, <2>3 DEF EpochInv
    <2>4. ASSUME NEW k \in Nat, cloud'.released /\ k = cloud'.epoch PROVE Sealed(k)'
      BY Zenon, <1>a, <1>d, <2>1, <2>4 DEF EpochInv
    <2> QED
      BY Zenon, <1>a, <1>e, <2>1, <2>2, <2>3, <2>4 DEF EpochInv
  <1>5. CASE AcknowledgeBinding
    <2> DEFINE m == Head(toCtl)
    <2>1. Arrives("ControlState") /\ UNCHANGED <<cloud.epoch, cloud.inc>>
          /\ (cloud'.released => \/ cloud.released
                                 \/ m.binding.closed /\ m.unfinished = {} /\ m.binding.epoch = cloud.epoch)
      BY Zenon, <1>a, <1>5 DEF StoreTypeOK, Clouds, AcknowledgeBinding
    <2>2. m.binding.closed /\ m.unfinished = {} => Sealed(m.binding.epoch)
      BY Zenon, <2>1, ReadingReports DEF TrueReports
    <2>3. ASSUME NEW k \in Nat, cloud'.epoch > 1 /\ k = cloud'.epoch - 1 PROVE Sealed(k)'
      BY Zenon, <1>a, <1>d, <2>1, <2>3 DEF EpochInv
    <2>4. ASSUME NEW k \in Nat, cloud'.released /\ k = cloud'.epoch PROVE Sealed(k)'
      <3>1. Sealed(k)
        BY Zenon, <1>a, <2>1, <2>2, <2>4 DEF EpochInv
      <3> QED
        BY Zenon, <1>d, <3>1
    <2> QED
      BY Zenon, <1>a, <1>e, <2>1, <2>3, <2>4 DEF EpochInv
  <1> QED
    BY Zenon, <1>1, <1>2, <1>3, <1>4, <1>5
    DEF ControlNext, Drop, Polls, PollIdle, PollStatus, Poll, Reconcile, TakeOverEvent,
        TakeOverStatus, Retransmit, SendReply, Handle, HandleBind, HandleClone, HandleQuery,
        HandleAck, Answers, Refuses, ReplayEvent, NodeWorks, NodeStops, NodeRestarts, vars

-----------------------------------------------------------------------------
(* Theorems.                                                                *)

\* The initial state satisfies the invariant, every step preserves it.
LEMMA ControlInvHolds == ControlSpec => []ControlInv
  <1>1. ControlInit => ControlInv
    <2> SUFFICES ASSUME ControlInit PROVE ControlInv
      BY Zenon
    <2> USE CloneLedgerAssumption DEF ControlInit, Init
    <2>1. LedgerTypeOK
      <3>1. inc \in Incarnations
        BY DEF Incarnations
      <3>2. status \in [Execs -> [state : States, result : Results \cup {None}]]
        BY Zenon DEF States
      <3>3. permit \in [Execs -> {None} \cup Permits] /\ binding \in {None} \cup Bindings
        BY Zenon
      <3>4. \A e \in Execs : status[e].state # "Completed" /\ status[e].result = None
        BY Zenon
      <3> QED
        BY Zenon, <3>1, <3>2, <3>3, <3>4 DEF LedgerTypeOK
    <2>2. StoreTypeOK
      BY Zenon DEF StoreTypeOK, Clouds
    <2>3. toCtl \in Seq(TrueReports) /\ toNode \in Seq(TrueMessages)
          /\ reply \in {None} \cup TrueMessages
      <3>1. toCtl = <<>> /\ toNode = <<>> /\ reply = None
        BY Zenon
      <3> QED
        BY ONLY <3>1
    <2>4. StoreInv
      BY Zenon DEF StoreInv, ResultsAreKept
    <2>5. EpochInv
      BY DEF EpochInv
    <2> QED
      BY Zenon, <2>1, <2>2, <2>3, <2>4, <2>5 DEF ControlInv, StoreInv, EpochInv
  <1>2. ControlInv /\ [ControlNext]_vars => ControlInv'
    <2> SUFFICES ASSUME ControlInv, [ControlNext]_vars PROVE ControlInv'
      BY Zenon
    <2>1. LedgerTypeOK'
      BY Zenon, ControlFollowsLedger, LedgerTypes DEF ControlInv
    <2> QED
      BY Zenon, <2>1, StoreTypes, StreamsStayTrue, ResultsStayKept, EpochsStaySealed
      DEF ControlInv, StoreInv, EpochInv
  <1> QED
    BY <1>1, <1>2, PTL DEF ControlSpec

\* Whatever is lost, repeated or answered late between a Node and its Controller, the
\* store holds only the Node's results, and the Node forgets an event only after the
\* store has its receipt (coordination.rs take_over, node-db acknowledge).
THEOREM ResultsKept == ControlSpec => []ResultsAreKept
  <1>1. ControlInv => ResultsAreKept
    BY Zenon DEF ControlInv
  <1> QED
    BY <1>1, ControlInvHolds, PTL

\* No work outlives the control epoch it was accepted in: runtime_control.rs refuses
\* the bindings and permits that would let it, however late they arrive.
THEOREM EpochsAreExclusive == ControlSpec => []NothingOutlivesItsEpoch
  <1>1. ControlInv => NothingOutlivesItsEpoch
    <2> SUFFICES ASSUME ControlInv, NEW e \in Execs, e < cloud.epoch PROVE e \notin Unfinished
      BY Zenon DEF NothingOutlivesItsEpoch
    <2>0. cloud.epoch \in Execs \cup {0}
      BY Zenon DEF ControlInv, StoreTypeOK, Clouds
    <2>1. cloud.epoch \in Nat /\ e \in Nat /\ e > 0
      BY <2>0, EpochsArePositive
    <2>2. cloud.epoch > 1 /\ e <= cloud.epoch - 1
      BY <2>1
    <2>3. Sealed(cloud.epoch - 1)
      BY Zenon, <2>2 DEF ControlInv
    <2> QED
      BY Zenon, <2>2, <2>3 DEF Sealed, Unfinished
  <1> QED
    BY <1>1, ControlInvHolds, PTL

\* The Node's facts, the messages and the store always have their types.
THEOREM ControlTypes == ControlSpec => []ControlTypeOK
  <1>1. ControlInv => ControlTypeOK
    <2> SUFFICES ASSUME ControlInv PROVE ControlTypeOK
      BY Zenon
    <2>1. TrueReports \subseteq Reports /\ TrueMessages \subseteq Messages
      BY Zenon DEF TrueReports, TrueMessages
    <2>2. Seq(TrueReports) \subseteq Seq(Reports) /\ Seq(TrueMessages) \subseteq Seq(Messages)
      BY Zenon, <2>1, SeqGrows
    <2> QED
      BY Zenon, <2>1, <2>2 DEF ControlInv, ControlTypeOK, StoreTypeOK, Clouds
  <1> QED
    BY <1>1, ControlInvHolds, PTL
====
