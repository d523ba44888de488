----------------------------- MODULE WebClient ------------------------------
(***************************************************************************)
(* One tab of the web client: the socket effect of useSocket.ts, the       *)
(* stores it fills (authStore, contactsStore, chatStore) and the handlers  *)
(* of Sidebar.tsx and ChatWindow.tsx that read and change them.            *)
(*                                                                         *)
(* The effect closes its socket and opens another whenever the session     *)
(* object of the auth store is replaced; React runs it some time after the *)
(* change.  A socket that was closed reports that later, in its own time.  *)
(* The server is what router.rs answers, one command at a time; its own    *)
(* interleavings are the subject of Sessions and Contacts.                 *)
(***************************************************************************)
EXTENDS Naturals, Sequences, FiniteSets

CONSTANTS
    Socks,      \* bound: sockets of the tab that exist at the same time
    NoSock,
    Peers,      \* other users
    NoPeer,
    Edits,      \* bound: status changes the user may ask for
    MaxInbox,   \* bound: events on their way to the tab
    MaxOutbox,  \* bound: commands on their way to the server
    MayFail     \* TRUE: connections may be lost, sessions rejected, statements fail

ASSUME WebClientAssumption ==
    /\ NoSock \notin Socks /\ NoPeer \notin Peers
    /\ IsFiniteSet(Peers)
    /\ MaxInbox \in Nat /\ MaxOutbox \in Nat \ {0} /\ MayFail \in BOOLEAN

VARIABLES
    loggedIn,      \* authStore.session is not null
    effect,        \* "off", or whether the effect ran with the current session object
    ws,            \* the socket of the running effect
    wsRef,         \* wsRef.current, the socket that send uses
    phase,         \* Socks -> readyState, "rejected" when the close code is 4001
    authenticated, \* the local variable of the running effect
    inbox,         \* events on their way to the tab on ws
    outbox,        \* Socks -> commands on their way to the server
    contacts,      \* contactsStore.contacts: <<peer, requestStatus>>
    invitations,   \* contactsStore.pendingInvitations, by sender
    blockedUsers,  \* contactsStore.blockedUsers
    client,        \* server: the socket registered for the user
    inRow,         \* server: Peers -> status of the peer's request to the user
    outRow,        \* server: Peers -> status of the user's request to the peer
    blocks,        \* server: peers the user has blocked
    blockers,      \* server: peers who have blocked the user
    dropped,       \* history: pending requests that left the list, or never reached it
    crossed        \* history: peers about whom the tab was not told

socketVars == <<effect, ws, wsRef, phase, authenticated>>
channels == <<inbox, outbox>>
stores == <<contacts, invitations, blockedUsers>>
server == <<client, inRow, outRow, blocks, blockers>>
history == <<dropped, crossed>>
vars == <<loggedIn, socketVars, channels, stores, server, history>>

Phases == {"free", "connecting", "open", "closing", "rejected"}
Rows == {"none", "pending", "accepted"}
Answers == {"contact_request_rejected", "contact_accepted", "contact_blocked",
            "user_blocked", "contact_unblocked", "contact_request_sent"}

TypeOK ==
    /\ loggedIn \in BOOLEAN
    /\ effect \in {"off", "fresh", "stale"}
    /\ ws \in Socks \cup {NoSock} /\ wsRef \in Socks \cup {NoSock}
    /\ phase \in [Socks -> Phases]
    /\ authenticated \in BOOLEAN
    /\ Len(inbox) <= MaxInbox + 1 + Cardinality(Peers)
    /\ \A s \in Socks : Len(outbox[s]) <= MaxOutbox
    /\ contacts \subseteq Peers \X {"accepted", "pending_outbound"}
    /\ invitations \cup blockedUsers \cup blocks \cup blockers \subseteq Peers
    /\ client \in Socks \cup {NoSock}
    /\ inRow \in [Peers -> Rows] /\ outRow \in [Peers -> Rows]
    /\ dropped \cup crossed \subseteq Peers

Init ==
    /\ loggedIn = FALSE /\ effect = "off" /\ ws = NoSock /\ wsRef = NoSock
    /\ phase = [s \in Socks |-> "free"]
    /\ authenticated = FALSE
    /\ inbox = <<>> /\ outbox = [s \in Socks |-> <<>>]
    /\ contacts = {} /\ invitations = {} /\ blockedUsers = {}
    /\ client = NoSock
    /\ inRow = [p \in Peers |-> "none"] /\ outRow = [p \in Peers |-> "none"]
    /\ blocks = {} /\ blockers = {} /\ dropped = {} /\ crossed = {}

-----------------------------------------------------------------------------
(* The effect and its sockets.                                             *)

Event(name, about) == [event |-> name, about |-> about]

Incoming == {inbox[i] : i \in 1..Len(inbox)}

login ==
    /\ ~ loggedIn /\ effect = "off"
    /\ loggedIn' = TRUE
    /\ UNCHANGED <<socketVars, channels, stores, server, history>>

(***************************************************************************)
(* The store has a new session object: the effect is due.                  *)
(***************************************************************************)
NewSessionObject == effect' = IF loggedIn /\ effect # "off" THEN "stale" ELSE effect

(***************************************************************************)
(* The tab has closed its socket, or lost it: what was coming in is not    *)
(* read any more, nor is what it would have told about a peer.             *)
(***************************************************************************)
Closed == [s \in Socks |-> IF s = ws /\ phase[s] \in {"connecting", "open"}
                           THEN "closing" ELSE phase[s]]

Shown == {c[1] : c \in contacts}

Cleanup ==
    /\ inbox' = <<>>
    /\ authenticated' = FALSE
    /\ crossed' = crossed \cup {p \in Peers : \E e \in Incoming :
                                   \/ e.event \in Answers /\ e.about = p
                                   \/ e.event = "contacts_snapshot" /\ p \in Shown}

(***************************************************************************)
(* App shows the login page instead: the cleanup runs alone.               *)
(***************************************************************************)
Unmount ==
    /\ ~ loggedIn /\ effect # "off"
    /\ Cleanup
    /\ phase' = Closed
    /\ effect' = "off" /\ ws' = NoSock /\ wsRef' = NoSock
    /\ UNCHANGED <<loggedIn, outbox, stores, server, dropped>>

(***************************************************************************)
(* The effect runs, after its cleanup if it ran before: a new socket.      *)
(***************************************************************************)
RunEffect(s) ==
    /\ loggedIn /\ effect # "fresh"
    /\ phase[s] = "free"
    /\ Cleanup
    /\ phase' = [Closed EXCEPT ![s] = "connecting"]
    /\ effect' = "fresh" /\ ws' = s /\ wsRef' = s
    /\ UNCHANGED <<loggedIn, outbox, stores, server, dropped>>

onopen(s) ==
    /\ phase[s] = "connecting"
    /\ phase' = [phase EXCEPT ![s] = "open"]
    /\ outbox' = [outbox EXCEPT ![s] = <<Event("auth", NoPeer)>>]
    /\ UNCHANGED <<loggedIn, effect, ws, wsRef, authenticated, inbox, stores, server, history>>

Lose ==
    /\ MayFail /\ ws # NoSock /\ phase[ws] \in {"connecting", "open"}
    /\ Cleanup
    /\ phase' = Closed
    /\ UNCHANGED <<loggedIn, effect, ws, wsRef, outbox, stores, server, dropped>>

(***************************************************************************)
(* A close event (after an error event, when the connection failed): it    *)
(* clears wsRef whichever socket is in there now.  Code 4001 signs out.    *)
(***************************************************************************)
onclose(s) ==
    /\ phase[s] \in {"closing", "rejected"}
    /\ phase' = [phase EXCEPT ![s] = "free"]
    /\ outbox' = [outbox EXCEPT ![s] = <<>>]
    /\ wsRef' = NoSock
    /\ client' = IF client = s THEN NoSock ELSE client
    /\ loggedIn' = (loggedIn /\ phase[s] # "rejected")
    /\ effect' = IF loggedIn' = loggedIn \/ effect = "off" THEN effect ELSE "stale"
    /\ UNCHANGED <<ws, authenticated, inbox, stores, inRow, outRow, blocks, blockers, history>>

-----------------------------------------------------------------------------
(* The server's side of a connection.                                      *)

(***************************************************************************)
(* Events go to an open socket; the tab does not read a closed one.        *)
(***************************************************************************)
Deliver(s, events) ==
    IF s # NoSock /\ phase[s] = "open"
    THEN Len(inbox) < MaxInbox /\ inbox' = inbox \o events
    ELSE inbox' = inbox

(***************************************************************************)
(* The history: the tab is not told about p; p is off the list of          *)
(* invitations, which matters while the request is pending.                *)
(***************************************************************************)
Untold(p) == crossed' = crossed \cup {p}
TakenDown(p) == dropped' = IF inRow[p] = "pending" THEN dropped \cup {p} ELSE dropped

Reply(s, event) ==
    /\ Deliver(s, <<event>>)
    /\ crossed' = IF phase[s] = "open" \/ event.event \notin Answers
                  THEN crossed ELSE crossed \cup {event.about}

(***************************************************************************)
(* The command is refused, or one of its statements fails: an error event, *)
(* which the tab does not handle.                                          *)
(***************************************************************************)
Refused == UNCHANGED <<inbox, crossed, inRow, outRow, blocks>>

Take(s, name, p) ==
    /\ outbox[s] # <<>> /\ phase[s] \in {"open", "closing"}
    /\ Head(outbox[s]) = Event(name, p)
    /\ outbox' = [outbox EXCEPT ![s] = Tail(@)]
    /\ UNCHANGED <<loggedIn, effect, ws, wsRef, authenticated, stores, blockers>>

is_blocked_between(p) == p \in blocks \cup blockers

list_contact_roster ==
    LET listed == {p \in Peers : ~ is_blocked_between(p)}
    IN  {<<p, "accepted">> : p \in {p \in listed : "accepted" \in {inRow[p], outRow[p]}}}
        \cup {<<p, "pending_outbound">> : p \in {p \in listed : outRow[p] = "pending"}}

list_pending_inbound == {p \in Peers : inRow[p] = "pending"}

(***************************************************************************)
(* A block that did not clear the requests between the two.                *)
(***************************************************************************)
Uncleared == {p \in blocks : "pending" \in {inRow[p], outRow[p]}}

(***************************************************************************)
(* A variant of Authenticate that lists the roster only.                   *)
(***************************************************************************)
AuthenticateRosterOnly(s) ==
    /\ Take(s, "auth", NoPeer)
    /\ client' = s
    /\ Deliver(s, <<Event("auth_ok", NoPeer), Event("contacts_snapshot", list_contact_roster)>>)
    /\ UNCHANGED <<phase, inRow, outRow, blocks, history>>

(***************************************************************************)
(* The token is good: auth_ok, the roster, then the requests in the order  *)
(* they were made.  A list that cannot be read is left out.                *)
(***************************************************************************)
Orders(S) ==
    {order \in [1..Cardinality(S) -> S] : \A p \in S : \E i \in DOMAIN order : order[i] = p}

OrNothing(lists) == IF MayFail THEN lists \cup {<<>>} ELSE lists

Authenticate(s) ==
    /\ Take(s, "auth", NoPeer)
    /\ client' = s
    /\ \E roster \in OrNothing({<<Event("contacts_snapshot", list_contact_roster)>>}) :
       \E order \in OrNothing(Orders(list_pending_inbound)) :
          /\ Deliver(s, (<<Event("auth_ok", NoPeer)>> \o roster)
                        \o [i \in DOMAIN order |-> Event("contact_request", order[i])])
          /\ crossed' = IF phase[s] = "open" /\ roster # <<>>
                        THEN crossed \cap (invitations \cup blockedUsers \cup Uncleared)
                        ELSE crossed
          /\ dropped' = IF phase[s] = "open" /\ order = <<>>
                        THEN dropped \cup (list_pending_inbound \ invitations) ELSE dropped
    /\ UNCHANGED <<phase, inRow, outRow, blocks>>

Reject(s) ==
    /\ MayFail
    /\ Take(s, "auth", NoPeer)
    /\ phase' = [phase EXCEPT ![s] = "rejected"]
    /\ UNCHANGED <<inbox, client, inRow, outRow, blocks, history>>

(***************************************************************************)
(* A command about an invitation that the click has already taken down.    *)
(***************************************************************************)
RefusedAnswer(p) ==
    /\ inRow[p] = "pending" => MayFail
    /\ Refused
    /\ TakenDown(p)

(***************************************************************************)
(* The requester is looked up after the UPDATE; without it nobody is told. *)
(***************************************************************************)
accept_contact(s, p) ==
    /\ Take(s, "accept_contact", p)
    /\ \/ /\ inRow[p] = "pending"
          /\ inRow' = [inRow EXCEPT ![p] = "accepted"]
          /\ \/ Reply(s, Event("contact_accepted", p))
             \/ MayFail /\ Untold(p) /\ inbox' = inbox
          /\ dropped' = dropped \ {p}
          /\ UNCHANGED <<outRow, blocks>>
       \/ RefusedAnswer(p)
    /\ UNCHANGED <<phase, client>>

reject_contact(s, p) ==
    /\ Take(s, "reject_contact", p)
    /\ \/ /\ inRow[p] = "pending"
          /\ inRow' = [inRow EXCEPT ![p] = "none"]
          /\ Reply(s, Event("contact_request_rejected", p))
          /\ dropped' = dropped \ {p}
          /\ UNCHANGED <<outRow, blocks>>
       \/ RefusedAnswer(p)
    /\ UNCHANGED <<phase, client>>

(***************************************************************************)
(* clear_pending_contact_requests_between, whose error is only logged.     *)
(***************************************************************************)
Withdrawn(row, p) == [row EXCEPT ![p] = IF @ = "pending" THEN "none" ELSE @]

Clear(p) ==
    \/ /\ inRow' = Withdrawn(inRow, p) /\ outRow' = Withdrawn(outRow, p)
       /\ dropped' = dropped \ {p}
    \/ /\ MayFail /\ "pending" \in {inRow[p], outRow[p]}
       /\ UNCHANGED <<inRow, outRow, dropped>>

(***************************************************************************)
(* block_contact names a pending request; its answer carries the request.  *)
(***************************************************************************)
block_contact(s, p) ==
    /\ Take(s, "block_contact", p)
    /\ \/ /\ inRow[p] = "pending"
          /\ blocks' = blocks \cup {p}
          /\ Clear(p)
          /\ Deliver(s, <<Event("contact_blocked", p)>>)
          /\ IF phase[s] = "open" /\ p \notin Uncleared' THEN crossed' = crossed ELSE Untold(p)
       \/ RefusedAnswer(p)
    /\ UNCHANGED <<phase, client>>

(***************************************************************************)
(* block_user names the user; its answer carries no request, also when one *)
(* was withdrawn.                                                          *)
(***************************************************************************)
block_user(s, p) ==
    /\ Take(s, "block_user", p)
    /\ \/ /\ blocks' = blocks \cup {p}
          /\ Clear(p)
          /\ Deliver(s, <<Event("user_blocked", p)>>)
          /\ IF phase[s] = "open" /\ inRow[p] # "pending" /\ p \notin Uncleared'
             THEN crossed' = crossed ELSE Untold(p)
       \/ MayFail /\ Refused /\ UNCHANGED dropped
    /\ UNCHANGED <<phase, client>>

unblock_contact(s, p) ==
    /\ Take(s, "unblock_contact", p)
    /\ \/ /\ blocks' = blocks \ {p}
          /\ Reply(s, Event("contact_unblocked", p))
          /\ UNCHANGED <<inRow, outRow>>
       \/ MayFail /\ Refused
    /\ UNCHANGED <<phase, client, dropped>>

(***************************************************************************)
(* add_contact; the cap of Contacts is one more reason to refuse.          *)
(***************************************************************************)
add_contact(s, p) ==
    /\ Take(s, "add_contact", p)
    /\ \/ /\ ~ is_blocked_between(p)
          /\ outRow' = [outRow EXCEPT ![p] = "pending"]
          /\ Reply(s, Event("contact_request_sent", p))
          /\ UNCHANGED <<inRow, blocks>>
       \/ (is_blocked_between(p) \/ MayFail) /\ Refused
    /\ UNCHANGED <<phase, client, dropped>>

list_blocked(s) ==
    /\ Take(s, "list_blocked", NoPeer)
    /\ Reply(s, Event("blocked_list", blocks)) \/ (MayFail /\ Refused)
    /\ UNCHANGED <<phase, client, inRow, outRow, blocks, dropped>>

(***************************************************************************)
(* What other users do, and what it sends to the registered connection.    *)
(***************************************************************************)
PeerRequests(p) ==
    /\ ~ is_blocked_between(p)
    /\ inRow' = [inRow EXCEPT ![p] = "pending"]
    /\ Deliver(client, <<Event("contact_request", p)>>)
    /\ UNCHANGED <<loggedIn, socketVars, outbox, stores, client, outRow, blocks, blockers, history>>

PeerAccepts(p) ==
    /\ outRow[p] = "pending"
    /\ outRow' = [outRow EXCEPT ![p] = "accepted"]
    /\ Deliver(client, <<Event("contact_accepted", p)>>) \/ (MayFail /\ inbox' = inbox)
    /\ UNCHANGED <<loggedIn, socketVars, outbox, stores, client, inRow, blocks, blockers, history>>

PeerRejects(p) ==
    /\ outRow[p] = "pending"
    /\ outRow' = [outRow EXCEPT ![p] = "none"]
    /\ UNCHANGED <<loggedIn, socketVars, channels, stores, client, inRow, blocks, blockers, history>>

(***************************************************************************)
(* block_contact or block_user by the peer: it withdraws requests of       *)
(* either side, and only the peer is told.                                 *)
(***************************************************************************)
PeerBlocks(p) ==
    /\ blockers' = blockers \cup {p}
    /\ Clear(p)
    /\ IF inRow'[p] = inRow[p] THEN crossed' = crossed ELSE Untold(p)
    /\ UNCHANGED <<loggedIn, socketVars, channels, stores, client, blocks>>

PeerUnblocks(p) ==
    /\ p \in blockers
    /\ blockers' = blockers \ {p}
    /\ UNCHANGED <<loggedIn, socketVars, channels, stores, client, inRow, outRow, blocks, history>>

-----------------------------------------------------------------------------
(* The setters of contactsStore.  A sender has one request at a time, so   *)
(* its id and the sender's name remove the same invitation.                *)

upsertPendingInvitation(p) == invitations \cup {p}
removePendingInvitation(p) == invitations \ {p}
clearPendingFromUser(p) == invitations \ {p}
upsertBlockedUser(p) == blockedUsers \cup {p}
removeBlockedUser(p) == blockedUsers \ {p}
removeContact(p) == {c \in contacts : c[1] # p}

(***************************************************************************)
(* A variant of addAcceptedContact that stores the presence status.        *)
(***************************************************************************)
addWithPresence(p, status) == removeContact(p) \cup {<<p, "online">>}

addAcceptedContact(p, status) == removeContact(p) \cup {<<p, status>>}

-----------------------------------------------------------------------------
(* ws.onmessage: one action per event.                                     *)

Handle(name, about) ==
    /\ inbox # <<>> /\ ws # NoSock /\ phase[ws] = "open"
    /\ Head(inbox) = Event(name, about)
    /\ name = "auth_ok" \/ authenticated
    /\ inbox' = Tail(inbox)
    /\ UNCHANGED <<loggedIn, ws, wsRef, phase, outbox, server, crossed>>

(***************************************************************************)
(* auth_ok: setSupporterState puts a new session object in the store.      *)
(***************************************************************************)
OnAuthOk ==
    /\ Handle("auth_ok", NoPeer)
    /\ authenticated' = TRUE
    /\ NewSessionObject
    /\ UNCHANGED <<stores, dropped>>

OnContactRequest(p) ==
    /\ Handle("contact_request", p)
    /\ invitations' = upsertPendingInvitation(p)
    /\ dropped' = dropped \ {p}
    /\ UNCHANGED <<effect, authenticated, contacts, blockedUsers>>

(***************************************************************************)
(* contact_accepted, for either direction: it also takes down the peer's   *)
(* own request, which the server may still hold.                           *)
(***************************************************************************)
OnContactAccepted(p) ==
    /\ Handle("contact_accepted", p)
    /\ invitations' = clearPendingFromUser(p)
    /\ TakenDown(p)
    /\ contacts' = addAcceptedContact(p, "accepted")
    /\ UNCHANGED <<effect, authenticated, blockedUsers>>

OnSnapshot(roster) ==
    /\ Handle("contacts_snapshot", roster)
    /\ contacts' = roster
    /\ UNCHANGED <<effect, authenticated, invitations, blockedUsers, dropped>>

(***************************************************************************)
(* A variant of OnRequestRejected that relies on the click having removed  *)
(* the invitation.                                                         *)
(***************************************************************************)
OnRequestRejectedIgnored(p) ==
    /\ Handle("contact_request_rejected", p)
    /\ UNCHANGED <<effect, authenticated, stores, dropped>>

OnRequestRejected(p) ==
    /\ Handle("contact_request_rejected", p)
    /\ invitations' = removePendingInvitation(p)
    /\ UNCHANGED <<effect, authenticated, contacts, blockedUsers, dropped>>

OnBlockedList(users) ==
    /\ Handle("blocked_list", users)
    /\ blockedUsers' = users
    /\ UNCHANGED <<effect, authenticated, contacts, invitations, dropped>>

(***************************************************************************)
(* A variant of OnBlocked that keeps the contact.                          *)
(***************************************************************************)
OnBlockedKeepsContact(p, name) ==
    /\ Handle(name, p)
    /\ IF name = "contact_blocked"
       THEN invitations' = removePendingInvitation(p) /\ TakenDown(p)
       ELSE UNCHANGED <<invitations, dropped>>
    /\ blockedUsers' = upsertBlockedUser(p)
    /\ UNCHANGED <<effect, authenticated, contacts>>

(***************************************************************************)
(* contact_blocked, with a request id (contact_blocked) or without         *)
(* (user_blocked).                                                         *)
(***************************************************************************)
OnBlocked(p, name) ==
    /\ Handle(name, p)
    /\ IF name = "contact_blocked"
       THEN invitations' = removePendingInvitation(p) /\ TakenDown(p)
       ELSE UNCHANGED <<invitations, dropped>>
    /\ blockedUsers' = upsertBlockedUser(p)
    /\ contacts' = removeContact(p)
    /\ UNCHANGED <<effect, authenticated>>

OnUnblocked(p) ==
    /\ Handle("contact_unblocked", p)
    /\ blockedUsers' = removeBlockedUser(p)
    /\ UNCHANGED <<effect, authenticated, contacts, invitations, dropped>>

OnRequestSent(p) ==
    /\ Handle("contact_request_sent", p)
    /\ contacts' = addAcceptedContact(p, "pending_outbound")
    /\ UNCHANGED <<effect, authenticated, invitations, blockedUsers, dropped>>

-----------------------------------------------------------------------------
(* Sidebar and ChatWindow.                                                 *)

(***************************************************************************)
(* send: without an open socket in wsRef the command is gone.              *)
(***************************************************************************)
CanSend == wsRef # NoSock /\ phase[wsRef] = "open"

send(name, p) ==
    IF CanSend
    THEN /\ Len(outbox[wsRef]) < MaxOutbox
         /\ outbox' = [outbox EXCEPT ![wsRef] = Append(@, Event(name, p))]
    ELSE outbox' = outbox

Click(name, p) ==
    /\ loggedIn /\ effect # "off"
    /\ send(name, p)
    /\ UNCHANGED <<loggedIn, ws, wsRef, phase, authenticated, inbox, server, crossed>>

(***************************************************************************)
(* cycleStatus: the profile is part of the session object, which matters   *)
(* unless the effect is due already.  The set_status that it sends changes *)
(* the presence only, which is in Sessions.                                *)
(***************************************************************************)
cycleStatus ==
    /\ loggedIn /\ effect = "fresh"
    /\ NewSessionObject
    /\ UNCHANGED <<loggedIn, ws, wsRef, phase, authenticated, channels, stores, server, history>>

(***************************************************************************)
(* The rows of the two dialogs, whose buttons send the commands below.     *)
(***************************************************************************)
PendingDialog == invitations
BlockedDialog == blockedUsers

(***************************************************************************)
(* handleApprove, handleReject, handleBlock: the invitation is taken down  *)
(* before the command is sent.                                             *)
(***************************************************************************)
AnswerInvitation(p, command) ==
    /\ p \in PendingDialog
    /\ Click(command, p)
    /\ invitations' = removePendingInvitation(p)
    /\ IF CanSend THEN dropped' = dropped ELSE TakenDown(p)
    /\ UNCHANGED <<effect, contacts, blockedUsers>>

openBlockedUsers ==
    /\ Click("list_blocked", NoPeer)
    /\ UNCHANGED <<effect, stores, dropped>>

handleUnblock(p) ==
    /\ p \in BlockedDialog
    /\ Click("unblock_contact", p)
    /\ UNCHANGED <<effect, stores, dropped>>

sendContactRequest(p) ==
    /\ Click("add_contact", p)
    /\ UNCHANGED <<effect, stores, dropped>>

(***************************************************************************)
(* The button of the chat window, which shows a contact.                   *)
(***************************************************************************)
BlockUser(p) ==
    /\ p \in Shown
    /\ Click("block_user", p)
    /\ UNCHANGED <<effect, stores, dropped>>

-----------------------------------------------------------------------------
User ==
    \/ login
    \/ \E e \in Edits : cycleStatus
    \/ \E p \in Peers :
          \/ \E c \in {"accept_contact", "reject_contact", "block_contact"} :
                AnswerInvitation(p, c)
          \/ handleUnblock(p) \/ sendContactRequest(p) \/ BlockUser(p)
    \/ Peers # {} /\ openBlockedUsers

Others ==
    \E p \in Peers :
        \/ PeerRequests(p) \/ PeerAccepts(p) \/ PeerRejects(p)
        \/ PeerBlocks(p) \/ PeerUnblocks(p)

Serve(s) ==
    \/ Authenticate(s) \/ list_blocked(s)
    \/ \E p \in Peers :
          \/ accept_contact(s, p) \/ reject_contact(s, p) \/ block_contact(s, p)
          \/ block_user(s, p) \/ unblock_contact(s, p) \/ add_contact(s, p)

onmessage ==
    \/ OnAuthOk
    \/ \E p \in Peers :
          \/ OnContactRequest(p) \/ OnContactAccepted(p) \/ OnRequestRejected(p)
          \/ OnBlocked(p, "contact_blocked") \/ OnBlocked(p, "user_blocked")
          \/ OnUnblocked(p) \/ OnRequestSent(p)
    \/ \E e \in Incoming : OnSnapshot(e.about) \/ OnBlockedList(e.about)

Socket(s) == onopen(s) \/ Serve(s) \/ onclose(s)
React == Unmount \/ \E s \in Socks : RunEffect(s)

Next ==
    \/ User \/ Others \/ React \/ onmessage \/ Lose
    \/ \E s \in Socks : Socket(s) \/ Reject(s)

Spec == Init /\ [][Next]_vars

(***************************************************************************)
(* React runs a due effect, the server answers, events are dispatched.     *)
(***************************************************************************)
Fairness == WF_vars(React) /\ WF_vars(onmessage) /\ WF_vars(login) /\ \A s \in Socks : WF_vars(Socket(s))
FairSpec == Spec /\ Fairness

-----------------------------------------------------------------------------
(***************************************************************************)
(* Nothing is on its way on the tab's connection, in either direction.     *)
(***************************************************************************)
Settled ==
    /\ ws # NoSock /\ client = ws /\ phase[ws] = "open" /\ authenticated
    /\ inbox = <<>> /\ \A s \in Socks : outbox[s] = <<>>

(***************************************************************************)
(* A request that waits for the user's answer is in the list of pending    *)
(* invitations once the connection has settled, through reconnections and  *)
(* answers that never arrived.  Four things lose one (dropped): an answer  *)
(* that send drops, an answer or a clean-up that fails on the server, a    *)
(* contact_accepted for the other direction, a list that auth left out.    *)
(***************************************************************************)
NoInvitationLost ==
    Settled => \A p \in Peers : inRow[p] = "pending" => p \in invitations \cup dropped

(***************************************************************************)
(* A listed invitation can still be answered, unless the tab was not told  *)
(* of the request's end (crossed): the answer went down with a connection  *)
(* or had no addressee, the user blocked the peer from the chat window, or *)
(* the peer blocked the user.  The snapshot does not replace the list.     *)
(***************************************************************************)
NoGhostInvitation ==
    Settled => \A p \in invitations : inRow[p] = "pending" \/ p \in crossed

(***************************************************************************)
(* The tab's view of blocks: whoever is listed as blocked is blocked, and  *)
(* nobody blocked is among the contacts, unless an answer about that peer  *)
(* was lost or the block left a request behind.                            *)
(***************************************************************************)
BlocksShown ==
    Settled => \A p \in Peers \ crossed :
        /\ p \in blockedUsers => p \in blocks
        /\ p \in blocks => p \notin Shown

(***************************************************************************)
(* README.md 87, "On success: server responds with auth_ok and the         *)
(* connection is live": with a good token and no fault, the tab ends up    *)
(* with a connection that stays.                                           *)
(***************************************************************************)
Live == wsRef # NoSock /\ phase[wsRef] = "open" /\ authenticated
StaysLive == <>[]Live
=============================================================================
