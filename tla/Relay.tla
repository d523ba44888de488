------------------------------- MODULE Relay --------------------------------
(***************************************************************************)
(* The message relay: the send_message family of commands                  *)
(* (handle_command in server/src/router.rs), the channel and forwarding    *)
(* task of every connection, the offline queue (pending_messages, in       *)
(* server/src/db.rs), and the two ends in the browser (useSocket.ts and    *)
(* chatStore.ts).  Connections come and go as in Sessions: every action    *)
(* here that moves a connection is an action of Sessions together with     *)
(* what it does to channels and messages.                                  *)
(***************************************************************************)
EXTENDS Sessions, Sequences, Functions

CONSTANTS
    Msgs,        \* client-generated message ids
    From, To,    \* Msgs -> Users: the composer and the addressee of a message
    Refusable,   \* messages that may fail the checks: size, recipient, block
    Silent,      \* connections whose browser, when it goes, sends no close frame
    Profile,     \* commands that write presence: of "set_status", "set_mood"
    DbMayFail,   \* TRUE: statements on pending_messages may return an error
    MayCrash     \* TRUE: the server process may die and start again

ASSUME RelayAssumption ==
    /\ From \in [Msgs -> Users]
    /\ To \in [Msgs -> Users]
    /\ \A m \in Msgs : From[m] # To[m]
    /\ None \notin Msgs
    /\ OneTab       \* a user's chat window is in one tab, with one open socket
    /\ Refusable \subseteq Msgs
    /\ Silent \subseteq Conns
    /\ Profile \subseteq {"set_status", "set_mood"}
    /\ DbMayFail \in BOOLEAN
    /\ MayCrash \in BOOLEAN

VARIABLES
    wire,      \* Conns -> messages the browser has written, the server not read
    job,       \* Conns -> the send command being handled, or Idle
    chan,      \* Conns -> the unbounded channel of server events
    rx,        \* Conns -> whether the channel's receiving end exists
    queue,     \* pending_messages: Users -> the rows of a recipient, oldest first
    drained,   \* Conns -> rows taken from the queue and not yet pushed
    bubble,    \* Msgs -> what the composer's chat window shows
    inbox,     \* Users -> the messages their browser was handed, in order
    lost,      \* history: messages that went down with something that failed
    dropped,   \* history: messages that were never accepted for relaying
    rows       \* history: every insert into the queue, in order

relayVars == <<wire, job, chan, rx, queue, drained, bubble, inbox, lost,
               dropped, rows>>
vars == <<sessionVars, relayVars>>

(***************************************************************************)
(* Server events: a message for the addressee, the echo to the composer    *)
(* with its delivered flag, the delivery receipt, and an error.            *)
(***************************************************************************)
Event == [kind : {"message", "echo", "receipt", "error"}, msg : Msgs, flag : BOOLEAN]

MessageEvent(m) == [kind |-> "message", msg |-> m, flag |-> TRUE]
EchoEvent(m, live) == [kind |-> "echo", msg |-> m, flag |-> live]
ReceiptEvent(m) == [kind |-> "receipt", msg |-> m, flag |-> TRUE]
ErrorEvent(m) == [kind |-> "error", msg |-> m, flag |-> FALSE]

(***************************************************************************)
(* The locals of a send command between its awaits: the message, the       *)
(* cloned session, and (in the stage) whether it was delivered live.       *)
(***************************************************************************)
Job == [stage : {"idle", "push", "queue", "echo_live", "echo_queued"},
        msg : Msgs \cup {None}, peer : Conns \cup {None}]
At(stage, m) == [stage |-> stage, msg |-> m, peer |-> None]
Idle == At("idle", None)

RelayTypeOK ==
    /\ TypeOK
    /\ wire \in [Conns -> Seq(Msgs)]
    /\ job \in [Conns -> Job]
    /\ chan \in [Conns -> Seq(Event)]
    /\ rx \in [Conns -> BOOLEAN]
    /\ queue \in [Users -> Seq(Msgs)]
    /\ drained \in [Conns -> Seq(Msgs)]
    /\ bubble \in [Msgs -> {"none", "sent", "delivered"}]
    /\ inbox \in [Users -> Seq(Msgs)]
    /\ lost \subseteq Msgs /\ dropped \subseteq Msgs
    /\ rows \in Seq(Msgs)

RelayInit ==
    /\ Init
    /\ wire = [c \in Conns |-> <<>>]
    /\ job = [c \in Conns |-> Idle]
    /\ chan = [c \in Conns |-> <<>>]
    /\ rx = [c \in Conns |-> FALSE]
    /\ queue = [u \in Users |-> <<>>]
    /\ drained = [c \in Conns |-> <<>>]
    /\ bubble = [m \in Msgs |-> "none"]
    /\ inbox = [u \in Users |-> <<>>]
    /\ lost = {} /\ dropped = {}
    /\ rows = <<>>

-----------------------------------------------------------------------------
(***************************************************************************)
(* A variant of RowsFor without the ORDER BY: the newest row first.        *)
(***************************************************************************)
RowsForUnordered(u) ==
    [i \in DOMAIN queue[u] |-> queue[u][Len(queue[u]) + 1 - i]]

(***************************************************************************)
(* What the drain returns: the rows of one recipient, oldest first.        *)
(***************************************************************************)
RowsFor(u) == queue[u]

(***************************************************************************)
(* UnboundedSender::send: succeeds as long as the receiving end exists.    *)
(***************************************************************************)
PushTo(ch, c, e) == IF rx[c] THEN [ch EXCEPT ![c] = Append(@, e)] ELSE ch

Carried(ch) == {ch[i].msg : i \in {j \in DOMAIN ch : ch[j].kind = "message"}}

-----------------------------------------------------------------------------
(* The browser.                                                            *)

(***************************************************************************)
(* A message is composed: its bubble appears with delivered = false, and   *)
(* the command is written to the tab's socket, if it has an open one.      *)
(* Without one, send() of useSocket returns silently.                      *)
(***************************************************************************)
Compose(c, m) ==
    /\ bubble[m] = "none"
    /\ sock[c] /\ owner[c] = From[m]
    /\ bubble' = [bubble EXCEPT ![m] = "sent"]
    /\ wire' = [wire EXCEPT ![c] = Append(@, m)]
    /\ UNCHANGED <<sessionVars, job, chan, rx, queue, drained, inbox, lost, dropped,
                   rows>>

ComposeOffline(m) ==
    /\ bubble[m] = "none"
    /\ \A c \in Conns : owner[c] = From[m] => ~ sock[c]
    /\ bubble' = [bubble EXCEPT ![m] = "sent"]
    /\ dropped' = dropped \cup {m}
    /\ UNCHANGED <<sessionVars, wire, job, chan, rx, queue, drained, inbox, lost,
                   rows>>

(***************************************************************************)
(* onmessage: receiveMessage appends a message of somebody else, and for   *)
(* one's own echo overwrites the fields of the bubble, delivered included; *)
(* a receipt sets delivered of a bubble that is there.                     *)
(***************************************************************************)
Handle(u, e) ==
    /\ bubble' = CASE e.kind = "echo" ->
                        [bubble EXCEPT ![e.msg] = IF e.flag THEN "delivered" ELSE "sent"]
                   [] e.kind = "receipt" -> [bubble EXCEPT ![e.msg] = "delivered"]
                   [] OTHER -> bubble
    /\ inbox' = IF e.kind = "message" THEN [inbox EXCEPT ![u] = Append(@, e.msg)]
                                      ELSE inbox

-----------------------------------------------------------------------------
(* The connection's task.                                                  *)

RelayOpen(c, u) == Open(c, u) /\ UNCHANGED relayVars

(***************************************************************************)
(* The end of a task: what the browser wrote is not read, the channel is   *)
(* dropped with what was in it.                                            *)
(***************************************************************************)
TaskEnds(c) ==
    /\ rx' = [rx EXCEPT ![c] = FALSE]
    /\ chan' = [chan EXCEPT ![c] = <<>>]
    /\ wire' = [wire EXCEPT ![c] = <<>>]
    /\ lost' = lost \cup Carried(chan[c]) \cup Range(wire[c])
    /\ UNCHANGED <<job, queue, drained, bubble, inbox, dropped, rows>>

RelayReject(c) == Reject(c) /\ TaskEnds(c)

(***************************************************************************)
(* The channel is made just before its sender is put in the registry.      *)
(***************************************************************************)
RelayRegister(c) ==
    /\ Register(c)
    /\ rx' = [rx EXCEPT ![c] = TRUE]
    /\ UNCHANGED <<wire, job, chan, queue, drained, bubble, inbox, lost, dropped,
                   rows>>

(***************************************************************************)
(* A variant of Drain that selects the rows and does not delete them.      *)
(***************************************************************************)
DrainKeepingRows(c) ==
    /\ Snapshot(c)
    /\ drained' = [drained EXCEPT ![c] = RowsFor(owner[c])]
    /\ UNCHANGED <<wire, job, chan, rx, queue, bubble, inbox, lost, dropped, rows>>

(***************************************************************************)
(* drain_pending_messages: one statement deletes the user's rows and       *)
(* returns them oldest first; on an error they stay.                       *)
(***************************************************************************)
Drain(c) ==
    /\ Snapshot(c)
    /\ \/ /\ drained' = [drained EXCEPT ![c] = RowsFor(owner[c])]
          /\ queue' = [queue EXCEPT ![owner[c]] = <<>>]
       \/ /\ DbMayFail
          /\ UNCHANGED <<drained, queue>>
    /\ UNCHANGED <<wire, job, chan, rx, bubble, inbox, lost, dropped, rows>>

(***************************************************************************)
(* One turn of the replay loop: the message goes to this connection's      *)
(* channel, and a receipt to the composer's registered connection, if any. *)
(***************************************************************************)
Replay(c) ==
    LET m == Head(drained[c])
        peer == clients[From[m]]
        own == PushTo(chan, c, MessageEvent(m))
    IN  /\ pc[c] = "replaying"
        /\ drained[c] # <<>>
        /\ drained' = [drained EXCEPT ![c] = Tail(@)]
        /\ chan' = IF peer = None THEN own ELSE PushTo(own, peer, ReceiptEvent(m))
        /\ UNCHANGED <<sessionVars, wire, job, rx, queue, bubble, inbox, lost, dropped,
                       rows>>

(***************************************************************************)
(* A variant of RelayEnterLoop that leaves the replay loop early.          *)
(***************************************************************************)
RelayEnterLoopEarly(c) == EnterLoop(c) /\ UNCHANGED relayVars

RelayEnterLoop(c) ==
    /\ drained[c] = <<>>
    /\ EnterLoop(c)
    /\ UNCHANGED relayVars

(***************************************************************************)
(* The forwarding task, spawned before the receive loop and aborted at the *)
(* end of the cleanup: the next event is written to the socket.  The       *)
(* browser handles it if it is still there.                                *)
(***************************************************************************)
Forwarding == {"running", "setting", "closing", "leaving", "left"}

Forward(c) ==
    /\ pc[c] \in Forwarding /\ chan[c] # <<>>
    /\ sock[c]
    /\ Handle(owner[c], Head(chan[c]))
    /\ chan' = [chan EXCEPT ![c] = Tail(@)]
    /\ UNCHANGED <<sessionVars, wire, job, rx, queue, drained, lost, dropped, rows>>

(***************************************************************************)
(* Writing to a socket whose other end is gone either succeeds, into a     *)
(* buffer nobody reads, or fails: the task stops and drops the receiver.   *)
(***************************************************************************)
ForwardToDeadSocket(c) ==
    /\ pc[c] \in Forwarding /\ chan[c] # <<>>
    /\ ~ sock[c]
    /\ \/ /\ chan' = [chan EXCEPT ![c] = Tail(@)]
          /\ lost' = lost \cup Carried(<<Head(chan[c])>>)
          /\ UNCHANGED rx
       \/ /\ chan' = [chan EXCEPT ![c] = <<>>]
          /\ lost' = lost \cup Carried(chan[c])
          /\ rx' = [rx EXCEPT ![c] = FALSE]
    /\ UNCHANGED <<sessionVars, wire, job, queue, drained, bubble, inbox, dropped, rows>>

-----------------------------------------------------------------------------
(* The send_message family.  One command at a time per connection.         *)

NextCommand(c) ==
    /\ pc[c] = "running"
    /\ job[c] = Idle
    /\ wire[c] # <<>>
    /\ wire' = [wire EXCEPT ![c] = Tail(@)]

(***************************************************************************)
(* The refusals: over a size limit, unknown recipient, a block either way, *)
(* a database error while checking.  The composer gets an error event,     *)
(* except for a payload that names no recipient, which is dropped.         *)
(***************************************************************************)
RefuseMessage(c) ==
    /\ NextCommand(c)
    /\ Head(wire[c]) \in Refusable
    /\ chan' \in {chan, PushTo(chan, c, ErrorEvent(Head(wire[c])))}
    /\ dropped' = dropped \cup {Head(wire[c])}
    /\ UNCHANGED <<sessionVars, job, rx, queue, drained, bubble, inbox, lost, rows>>

(***************************************************************************)
(* The checks passed; the recipient's session is cloned out of the         *)
(* registry under its read lock.                                           *)
(***************************************************************************)
Lookup(c) ==
    LET m == Head(wire[c])
        peer == clients[To[m]]
    IN  /\ NextCommand(c)
        /\ job' = [job EXCEPT ![c] = [stage |-> IF peer = None THEN "queue" ELSE "push",
                                      msg |-> m, peer |-> peer]]
        /\ UNCHANGED <<sessionVars, chan, rx, queue, drained, bubble, inbox, lost,
                       dropped, rows>>

(***************************************************************************)
(* A variant of Push without the fallback to the queue.                    *)
(***************************************************************************)
PushOrForget(c) ==
    LET m == job[c].msg
        peer == job[c].peer
    IN  /\ job[c].stage = "push"
        /\ chan' = PushTo(chan, peer, MessageEvent(m))
        /\ job' = [job EXCEPT ![c] = At(IF rx[peer] THEN "echo_live" ELSE "echo_queued", m)]
        /\ UNCHANGED <<sessionVars, wire, rx, queue, drained, bubble, inbox, lost,
                       dropped, rows>>

(***************************************************************************)
(* sender.send(..).is_ok(): the message is handed to the cloned session's  *)
(* channel if that channel still has a receiver.                           *)
(***************************************************************************)
Push(c) ==
    LET m == job[c].msg
        peer == job[c].peer
    IN  /\ job[c].stage = "push"
        /\ chan' = PushTo(chan, peer, MessageEvent(m))
        /\ job' = [job EXCEPT ![c] = IF rx[peer]
                                     THEN At("echo_live", m) ELSE At("queue", m)]
        /\ UNCHANGED <<sessionVars, wire, rx, queue, drained, bubble, inbox, lost,
                       dropped, rows>>

(***************************************************************************)
(* queue_pending_message: insert unless the id is already queued for this  *)
(* recipient.  An error is logged, and the composer is told nothing of it. *)
(***************************************************************************)
Queue(c) ==
    LET m == job[c].msg
    IN  /\ job[c].stage = "queue"
        /\ \/ /\ IF m \in Range(queue[To[m]])
                 THEN UNCHANGED <<queue, rows>>
                 ELSE /\ queue' = [queue EXCEPT ![To[m]] = Append(@, m)]
                      /\ rows' = Append(rows, m)
              /\ UNCHANGED lost
           \/ /\ DbMayFail
              /\ lost' = lost \cup {m}
              /\ UNCHANGED <<queue, rows>>
        /\ job' = [job EXCEPT ![c] = At("echo_queued", m)]
        /\ UNCHANGED <<sessionVars, wire, chan, rx, drained, bubble, inbox, dropped>>

(***************************************************************************)
(* A variant of Echo that always says delivered.                           *)
(***************************************************************************)
EchoDelivered(c) ==
    /\ job[c].stage \in {"echo_live", "echo_queued"}
    /\ chan' = PushTo(chan, c, EchoEvent(job[c].msg, TRUE))
    /\ job' = [job EXCEPT ![c] = Idle]
    /\ UNCHANGED <<sessionVars, wire, rx, queue, drained, bubble, inbox, lost, dropped,
                   rows>>

Echo(c) ==
    /\ job[c].stage \in {"echo_live", "echo_queued"}
    /\ chan' = PushTo(chan, c, EchoEvent(job[c].msg, job[c].stage = "echo_live"))
    /\ job' = [job EXCEPT ![c] = Idle]
    /\ UNCHANGED <<sessionVars, wire, rx, queue, drained, bubble, inbox, lost, dropped,
                   rows>>

-----------------------------------------------------------------------------
(* The end of the receive loop, and of the server.                         *)

RelayHangUp(c) ==
    /\ job[c] = Idle
    /\ HangUp(c)
    /\ UNCHANGED relayVars

RelayUnregister(c) ==
    /\ Unregister(c)
    /\ IF clients[owner[c]] = c THEN UNCHANGED relayVars ELSE TaskEnds(c)

RelayAnnounceOffline(c) == AnnounceOffline(c) /\ TaskEnds(c)

(***************************************************************************)
(* Everything in memory goes; the queue is in the database, and the        *)
(* browsers keep what they show.                                           *)
(***************************************************************************)
RelayCrash ==
    /\ MayCrash
    /\ Crash
    /\ lost' = lost \cup UNION {Carried(chan[c]) \cup Range(wire[c]) \cup Range(drained[c])
                                \cup (IF job[c].stage \in {"push", "queue"}
                                      THEN {job[c].msg} ELSE {}) : c \in Conns}
    /\ wire' = [c \in Conns |-> <<>>]
    /\ job' = [c \in Conns |-> Idle]
    /\ chan' = [c \in Conns |-> <<>>]
    /\ rx' = [c \in Conns |-> FALSE]
    /\ drained' = [c \in Conns |-> <<>>]
    /\ UNCHANGED <<queue, bubble, inbox, dropped, rows>>

-----------------------------------------------------------------------------
(***************************************************************************)
(* Steps of Sessions that touch no message.                                *)
(***************************************************************************)
RelayDisconnect(c) == Disconnect(c) /\ UNCHANGED relayVars

Elsewhere(c) ==
    /\ \/ Authenticate(c) \/ SetOnline(c) \/ AnnounceOnline(c) \/ ClearPresence(c)
       \/ StatusWrite(c)
    /\ UNCHANGED relayVars

(***************************************************************************)
(* A set_status or a set_mood command is taken up between two others.      *)
(***************************************************************************)
ProfileCommand(c) ==
    /\ job[c] = Idle
    /\ \/ "set_status" \in Profile /\ \E s \in Statuses : StatusRead(c, s)
       \/ "set_mood" \in Profile /\ MoodRead(c)
    /\ UNCHANGED relayVars

Handling(c) ==
    \/ Elsewhere(c)
    \/ RelayReject(c) \/ RelayRegister(c) \/ Drain(c) \/ Replay(c) \/ RelayEnterLoop(c)
    \/ RefuseMessage(c) \/ Lookup(c) \/ Push(c) \/ Queue(c) \/ Echo(c)
    \/ RelayUnregister(c) \/ RelayAnnounceOffline(c)

TaskStep(c) == Handling(c) \/ RelayHangUp(c) \/ ProfileCommand(c)

ForwardStep(c) == Forward(c) \/ ForwardToDeadSocket(c)

RelayNext ==
    \/ \E c \in Conns : \E u \in Users : RelayOpen(c, u)
    \/ \E c \in Conns : RelayDisconnect(c) \/ TaskStep(c) \/ ForwardStep(c)
    \/ \E c \in Conns : \E m \in Msgs : Compose(c, m)
    \/ \E m \in Msgs : ComposeOffline(m)
    \/ RelayCrash

RelaySpec == RelayInit /\ [][RelayNext]_vars

(***************************************************************************)
(* The runtime polls the tasks and the forwarding tasks that can go on,    *)
(* and a receive loop whose stream has ended.  Browsers, users and crashes *)
(* owe nothing.  The server pings nobody and sets no read timeout, so the  *)
(* stream of a browser that went silently may never end for it.            *)
(***************************************************************************)
RelayFairness ==
    \A c \in Conns : /\ WF_vars(Handling(c))
                     /\ WF_vars(ForwardStep(c))
                     /\ c \notin Silent => WF_vars(RelayHangUp(c))

RelayFairSpec == RelaySpec /\ RelayFairness

-----------------------------------------------------------------------------
(* Properties.                                                             *)

Waiting(c) == IF job[c].stage \in {"push", "queue"} THEN {job[c].msg} ELSE {}

InTransit(m) ==
    \/ m \in Range(queue[To[m]])
    \/ \E c \in Conns : m \in Range(wire[c]) \cup Waiting(c) \cup Range(drained[c])
                             \cup Carried(chan[c])

(***************************************************************************)
(* Nothing falls through the cracks: a composed message is in one of the   *)
(* relay's stores, was refused, arrived, or is known to have been in a     *)
(* socket, a channel, a task or a statement that failed.  In particular a  *)
(* push to a closed channel falls back to the queue (router.rs 958-974).   *)
(***************************************************************************)
EveryMessageAccountedFor ==
    \A m \in Msgs :
        bubble[m] # "none" =>
            InTransit(m) \/ m \in lost \cup dropped \cup Range(inbox[To[m]])

(***************************************************************************)
(* A message is in one place at most, so the addressee never gets it       *)
(* twice: live delivery and the queue exclude each other, and the drain    *)
(* hands a row to one connection only.                                     *)
(***************************************************************************)
Copies(m) ==
    LET at(place, c, S) == {<<place, c, i>> : i \in S}
        hits(seq) == {i \in DOMAIN seq : seq[i] = m}
        events(c) == {i \in DOMAIN chan[c] : chan[c][i].kind = "message" /\ chan[c][i].msg = m}
        ofUser(u) == at("queue", u, hits(queue[u])) \cup at("inbox", u, hits(inbox[u]))
        ofConn(c) == at("wire", c, hits(wire[c])) \cup at("chan", c, events(c))
                       \cup at("drained", c, hits(drained[c]))
                       \cup at("job", c, {i \in {1} : m \in Waiting(c)})
    IN  (UNION {ofUser(u) : u \in Users}) \cup (UNION {ofConn(c) : c \in Conns})

AtMostOneCopy == \A m \in Msgs : Cardinality(Copies(m)) <= 1

(***************************************************************************)
(* The delivered tick is never shown for a message that is still waiting   *)
(* for its addressee: delivered = true in an echo or a receipt comes after *)
(* the hand-over to a channel of the addressee.                            *)
(***************************************************************************)
TickAfterHandover ==
    \A m \in Msgs :
        bubble[m] = "delivered" =>
            m \in lost \/ m \in Range(inbox[To[m]])
              \/ \E c \in Conns : owner[c] = To[m] /\ m \in Carried(chan[c])

(***************************************************************************)
(* Messages that went through the queue arrive in the order in which they  *)
(* were queued (the ORDER BY of drain_pending_messages), over any number   *)
(* of reconnects of the addressee.                                         *)
(***************************************************************************)
ReplayInOrder ==
    \A u \in Users : \A i, j \in DOMAIN inbox[u] : \A k, l \in DOMAIN rows :
        i < j /\ rows[k] = inbox[u][i] /\ rows[l] = inbox[u][j] => k < l

(***************************************************************************)
(* No message stays inside the server: whatever was written to a socket is *)
(* after a while with the addressee, in the queue, refused or lost with a  *)
(* connection.                                                             *)
(***************************************************************************)
EveryMessageSettles ==
    \A m \in Msgs :
        bubble[m] # "none" ~> \/ m \in lost \cup dropped \cup Range(inbox[To[m]])
                              \/ m \in Range(queue[To[m]])

(***************************************************************************)
(* A connection whose browser closed it is out of the registry after a     *)
(* while, wherever in its set-up, its replay or a command the close meets  *)
(* it: the messages that follow are queued and no longer pushed towards a  *)
(* dead socket.  A browser that just goes silent may stay registered.      *)
(***************************************************************************)
ClosedSocketsLeave ==
    \A c \in Conns \ Silent :
        (pc[c] \in Registered /\ ~ sock[c]) ~> (\A u \in Users : clients[u] # c)
=============================================================================
