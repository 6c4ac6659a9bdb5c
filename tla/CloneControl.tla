---------------------------- MODULE CloneControl ----------------------------
(***************************************************************************)
(* The Node's clone executions together with the Controller that           *)
(* dispatches them and takes their results over (apps/ora-controller): the *)
(* control session and its two message streams, the Controller's store,    *)
(* and the runtime control that says which epoch's work a Node may accept. *)
(*                                                                         *)
(* Of the Node this uses the promise of CloneLedger, which NodeClones      *)
(* keeps.  The store is the Controller's own SQLite file for a Node behind *)
(* a private socket, and Cloud for a Node under runtime control; Cloud is  *)
(* external and modelled from what the Controller asks of it.              *)
(***************************************************************************)
EXTENDS CloneLedger, Sequences

CONSTANTS
    Local,     \* the executions registered in the Controller's own store
    MaxLosses, \* bound: sessions lost to the connection or to the Node's end
    Window     \* bound: a poll waits while so many messages are under way

ASSUME ControlAssumption ==
    Local \subseteq Execs /\ MaxLosses \in Nat /\ Window \in Nat \ {0}

VARIABLES
    up,       \* a control session is established
    toNode,   \* Controller to Node, in order
    toCtl,    \* Node to Controller, in order
    window,   \* Delivery: the events this connection has sent
    sent,     \* Retransmitted: the commands this connection has sent
    reply,    \* what reconcile has decided to send and not sent yet
    taken,    \* the store's results
    receipts, \* the store's receipts of events
    cloud,    \* external: Cloud's runtime control
    drops

streams == <<toNode, toCtl, window, sent, reply>>
store == <<taken, receipts>>
vars == <<ledgerVars, up, streams, store, cloud, drops>>

-----------------------------------------------------------------------------
(* Messages.                                                                *)

BindRuntime(b) == [kind |-> "BindRuntime", binding |-> b]
Query(e) == [kind |-> "Query", exec |-> e]
Clone(e, p) == [kind |-> "Clone", exec |-> e, permit |-> p]
Ack(e) == [kind |-> "Ack", exec |-> e]
Status(e, state, result) ==
    [kind |-> "Status", exec |-> e, state |-> state, result |-> result]
Event(e, result) == [kind |-> "Event", exec |-> e, result |-> result]
ControlState(b, unfinished) ==
    [kind |-> "ControlState", binding |-> b, unfinished |-> unfinished]

-----------------------------------------------------------------------------
(* Cloud, external: one control epoch at a time, opened for the incarnation *)
(* it knows; a closed epoch is handed over once the Node has reported       *)
(* nothing unfinished in it.                                                *)

CloudOpens ==
    /\ controlled /\ cloud.inc > 0 /\ cloud.epoch + 1 \in Execs
    /\ cloud.epoch = 0 \/ cloud.released
    /\ cloud' = [cloud EXCEPT !.epoch = @ + 1, !.closed = FALSE, !.released = FALSE,
                              !.opened = cloud.inc]
    /\ UNCHANGED <<ledgerVars, up, streams, store, drops>>

CloudCloses ==
    /\ cloud.epoch > 0 /\ ~cloud.closed
    /\ cloud' = [cloud EXCEPT !.closed = TRUE]
    /\ UNCHANGED <<ledgerVars, up, streams, store, drops>>

\* The executions whose result the store still waits for.
PendingDispatches ==
    {e \in Execs : taken[e] = None /\ IF controlled THEN e <= cloud.epoch ELSE e \in Local}

\* ListBindings.
Listed == IF cloud.epoch = 0 THEN <<>>
          ELSE <<BindRuntime([epoch |-> cloud.epoch, closed |-> cloud.closed, inc |-> cloud.inc])>>

-----------------------------------------------------------------------------
(* The session.  Both ends lose what was under way when it ends.            *)

\* Mutant: a new connection believes the events of the last one sent.
Ends_MKeepsWindow ==
    /\ up' = FALSE /\ toNode' = <<>> /\ toCtl' = <<>>
    /\ sent' = {} /\ reply' = None
    /\ UNCHANGED window

Ends ==
    /\ up' = FALSE /\ toNode' = <<>> /\ toCtl' = <<>>
    /\ window' = {} /\ sent' = {} /\ reply' = None

Losses == drops + inc - 1

\* coordinate's handshake; Cloud learns the incarnation.
Connect ==
    /\ ~up /\ ~stopping /\ up' = TRUE
    /\ cloud' = IF controlled THEN [cloud EXCEPT !.inc = inc] ELSE cloud
    /\ UNCHANGED <<ledgerVars, streams, store, drops>>

\* The connection is lost, or the Controller restarts.
Drop ==
    /\ up /\ Losses < MaxLosses /\ drops' = drops + 1
    /\ Ends
    /\ UNCHANGED <<ledgerVars, store, cloud>>

-----------------------------------------------------------------------------
(* The Controller: session/control.rs.                                      *)

\* poll: the bindings first, then a query of one pending execution.
Poll(queries) ==
    /\ up /\ Len(toNode) + Len(toCtl) < Window
    /\ toNode' = toNode \o Listed \o queries
    /\ toNode' # toNode
    /\ UNCHANGED <<ledgerVars, up, toCtl, window, sent, reply, store, cloud, drops>>

PollIdle == PendingDispatches = {} /\ Poll(<<>>)
PollStatus(e) == e \in PendingDispatches /\ Poll(<<Query(e)>>)

\* reconcile takes the next message once the previous reply is sent.
Arrives(kind) == up /\ reply = None /\ toCtl # <<>> /\ Head(toCtl).kind = kind

\* commit_result keeps the first result; another one is a conflict.
Records(e, result) ==
    /\ taken[e] \in {None, result}
    /\ taken' = [taken EXCEPT ![e] = result]

\* take_over of a CloneResult: result and receipt commit together, and only
\* then is the event acknowledged.
TakeOverEvent ==
    LET m == Head(toCtl) IN
    /\ Arrives("Event")
    /\ Records(m.exec, m.result)
    /\ receipts' = receipts \cup {m.exec}
    /\ toCtl' = Tail(toCtl) /\ reply' = Ack(m.exec)
    /\ UNCHANGED <<ledgerVars, up, toNode, window, sent, cloud, drops>>

\* Mutant: a queried result is acknowledged as if its event had been taken over.
TakeOverStatus_MAcknowledges ==
    LET m == Head(toCtl) IN
    /\ Arrives("Status") /\ m.state # "Unknown"
    /\ IF m.state = "Completed"
       THEN Records(m.exec, m.result) /\ reply' = Ack(m.exec)
       ELSE UNCHANGED <<taken, reply>>
    /\ toCtl' = Tail(toCtl)
    /\ UNCHANGED <<ledgerVars, up, toNode, window, sent, receipts, cloud, drops>>

\* record_queried_result: no receipt, so no acknowledgement.
TakeOverStatus ==
    LET m == Head(toCtl) IN
    /\ Arrives("Status") /\ m.state # "Unknown"
    /\ IF m.state = "Completed" THEN Records(m.exec, m.result) ELSE UNCHANGED taken
    /\ toCtl' = Tail(toCtl)
    /\ UNCHANGED <<ledgerVars, up, toNode, window, sent, reply, receipts, cloud, drops>>

\* dispatch_message: under runtime control only with a permit of the open epoch.
Dispatchable(e) ==
    /\ e \notin sent /\ taken[e] = None
    /\ controlled => cloud.epoch = e /\ ~cloud.closed

\* An Unknown execution's original command is sent once per connection.
Retransmit ==
    LET m == Head(toCtl)
        p == IF controlled THEN [epoch |-> cloud.epoch, inc |-> cloud.inc] ELSE None
    IN
    /\ Arrives("Status") /\ m.state = "Unknown"
    /\ toCtl' = Tail(toCtl)
    /\ IF Dispatchable(m.exec)
       THEN reply' = Clone(m.exec, p) /\ sent' = sent \cup {m.exec}
       ELSE UNCHANGED <<reply, sent>>
    /\ UNCHANGED <<ledgerVars, up, toNode, window, store, cloud, drops>>

\* control_ack: only the closure of the current epoch reports its liabilities.
AcknowledgeBinding ==
    LET m == Head(toCtl) IN
    /\ Arrives("ControlState")
    /\ toCtl' = Tail(toCtl)
    /\ cloud' = IF /\ m.binding.closed /\ cloud.closed /\ m.binding.epoch = cloud.epoch
                   /\ m.unfinished = {}
                THEN [cloud EXCEPT !.released = TRUE] ELSE cloud
    /\ UNCHANGED <<ledgerVars, up, toNode, window, sent, reply, store, drops>>

SendReply ==
    /\ up /\ reply # None
    /\ toNode' = Append(toNode, reply) /\ reply' = None
    /\ UNCHANGED <<ledgerVars, up, toCtl, window, sent, store, cloud, drops>>

-----------------------------------------------------------------------------
(* The Node's side of the session: service/session.rs, service/worker.rs.   *)

Delivered(kind) == up /\ ~stopping /\ toNode # <<>> /\ Head(toNode).kind = kind

Answers(m) ==
    /\ toNode' = Tail(toNode) /\ toCtl' = Append(toCtl, m)
    /\ UNCHANGED <<up, window, sent, reply, store, cloud, drops>>

\* A refused request closes the session.  A binding or a permit too old to be
\* live is refused the same way: to both ends that is a Drop.
Refuses == Ends /\ UNCHANGED <<ledgerVars, store, cloud, drops>>

HandleBind ==
    LET b == Head(toNode).binding IN
    /\ Delivered("BindRuntime")
    /\ \/ Bind(b) /\ Answers(ControlState(b, Unfinished))
       \/ ~Binds(b, Unfinished) /\ Refuses

\* What the Node tells of an execution; one it never accepted is Unknown, and the
\* Controller makes no difference between Accepted and Running.
Told(e) ==
    LET state == status[e].state IN
    Status(e, CASE state \in {"Absent", "Unknown"} -> "Unknown"
                [] state \in {"Accepted", "Running"} -> "Live"
                [] OTHER -> "Completed", status[e].result)

\* A repeated command only returns the existing state.
HandleClone ==
    LET m == Head(toNode) IN
    /\ Delivered("Clone")
    /\ \/ /\ status[m.exec].state # "Absent"
          /\ Answers(Told(m.exec)) /\ UNCHANGED ledgerVars
       \/ Accept(m.exec, m.permit) /\ Answers(Status(m.exec, "Live", None))
       \/ /\ status[m.exec].state = "Absent" /\ ~Accepts(m.exec, m.permit, Unfinished)
          /\ Refuses

HandleQuery ==
    /\ Delivered("Query")
    /\ Answers(Told(Head(toNode).exec))
    /\ UNCHANGED ledgerVars

HandleAck ==
    /\ Delivered("Ack")
    /\ Acknowledge(Head(toNode).exec)
    /\ toNode' = Tail(toNode)
    /\ UNCHANGED <<up, toCtl, window, sent, reply, store, cloud, drops>>

\* The replay tick sends what this connection has not sent yet.
ReplayEvent(e) ==
    /\ up /\ ~stopping /\ e \in outbox \ window
    /\ toCtl' = Append(toCtl, Event(e, status[e].result))
    /\ window' = window \cup {e}
    /\ UNCHANGED <<ledgerVars, up, toNode, sent, reply, store, cloud, drops>>

\* What the Node does by itself; a session ends with the process that holds it.
NodeWorks ==
    /\ \E e \in Execs : Start(e) \/ Work(e) \/ Complete(e)
    /\ UNCHANGED <<up, streams, store, cloud, drops>>

NodeStops == Losses < MaxLosses /\ Stop /\ Ends /\ UNCHANGED <<store, cloud, drops>>

\* A Controller serves one kind of Node: runtime control is not enabled under it.
NodeRestarts ==
    /\ Losses < MaxLosses /\ Restart /\ UNCHANGED controlled
    /\ Ends /\ UNCHANGED <<store, cloud, drops>>

-----------------------------------------------------------------------------
ControlInit ==
    /\ Init
    /\ up = FALSE /\ toNode = <<>> /\ toCtl = <<>> /\ window = {} /\ sent = {} /\ reply = None
    /\ taken = [e \in Execs |-> None] /\ receipts = {}
    /\ cloud = [epoch |-> 0, closed |-> TRUE, released |-> FALSE, opened |-> 0, inc |-> 0]
    /\ drops = 0

Polls == PollIdle \/ \E e \in Execs : PollStatus(e)
Reconcile == TakeOverEvent \/ TakeOverStatus \/ Retransmit \/ AcknowledgeBinding \/ SendReply
Handle == HandleBind \/ HandleClone \/ HandleQuery \/ HandleAck

ControlNext ==
    \/ CloudOpens \/ CloudCloses \/ Connect \/ Drop
    \/ Polls \/ Reconcile \/ Handle \/ \E e \in Execs : ReplayEvent(e)
    \/ NodeWorks \/ NodeStops \/ NodeRestarts

\* Both ends keep reading and writing while a session lasts, a Controller
\* reconnects, a stopped Node is started again, and Cloud withdraws an epoch whose
\* incarnation is gone.
Fairness ==
    /\ WF_vars(Connect) /\ WF_vars(Polls) /\ WF_vars(Reconcile) /\ WF_vars(Handle)
    /\ WF_vars(stopping /\ NodeRestarts)
    /\ WF_vars(cloud.opened # cloud.inc /\ CloudCloses)
    /\ \A e \in Execs : WF_vars(ReplayEvent(e))

ControlSpec == ControlInit /\ [][ControlNext]_vars /\ Fairness

-----------------------------------------------------------------------------
(* Properties.                                                              *)

Messages ==
    UNION { [kind : {"BindRuntime"}, binding : Bindings], [kind : {"Query", "Ack"}, exec : Execs],
            [kind : {"Clone"}, exec : Execs, permit : Permits \cup {None}] }
Reports ==
    UNION { [kind : {"Status"}, exec : Execs, state : {"Unknown", "Live", "Completed"},
             result : Results \cup {None}],
            [kind : {"Event"}, exec : Execs, result : Results],
            [kind : {"ControlState"}, binding : Bindings, unfinished : SUBSET Execs] }

\* The Node's facts, the messages and the store have their types.
ControlTypeOK ==
    /\ LedgerTypeOK
    /\ up \in BOOLEAN /\ toNode \in Seq(Messages) /\ toCtl \in Seq(Reports)
    /\ reply \in {None} \cup Messages
    /\ window \subseteq Execs /\ sent \subseteq Execs
    /\ receipts \subseteq Execs /\ taken \in [Execs -> Results \cup {None}]
    /\ cloud \in [epoch : Execs \cup {0}, closed : BOOLEAN, released : BOOLEAN,
                  opened : Incarnations \cup {0}, inc : Incarnations \cup {0}]
    /\ drops \in Nat

\* Whatever is lost, repeated or answered late, the store never holds another result
\* than the Node's, and the Node forgets an event only once the store has its receipt.
ResultsAreKept ==
    \A e \in Execs :
        /\ taken[e] # None => status[e].state = "Completed" /\ taken[e] = status[e].result
        /\ status[e].state = "Completed" /\ e \notin outbox => e \in receipts /\ taken[e] # None

\* Once Cloud has moved on to a later epoch, no execution of an earlier one is
\* unfinished, and none is accepted any more by a command still under way.
NothingOutlivesItsEpoch == \A e \in Execs : e < cloud.epoch => e \notin Unfinished

\* Every result's event is taken over and acknowledged, over as many connections as
\* that takes.
ResultsAreTakenOver ==
    outbox # {} ~> outbox = {} /\ {e \in Execs : status[e].state = "Completed"} \subseteq receipts

\* A closed epoch is handed over unless work accepted in it is still unfinished: the
\* closure reaches the Node and its report reaches Cloud, also after a restart.
HandoverCompletes ==
    cloud.epoch > 0 /\ cloud.closed ~> cloud.released \/ cloud.epoch \in Unfinished
====
