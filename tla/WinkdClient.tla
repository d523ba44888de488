---------------------------- MODULE WinkdClient -----------------------------
(***************************************************************************)
(* WinkdClient of packages/core/src/protocol/client.ts: one connection to  *)
(* the server, kept up by a reconnection timer with a growing delay.       *)
(*                                                                         *)
(* All sockets share the fields of the client.  A socket that was replaced *)
(* or closed still reports its close, and a timer that was set still fires,*)
(* whatever happened in between.  The server accepts an auth frame, or     *)
(* closes with 4001 when the token is bad or no frame comes in time.       *)
(***************************************************************************)
EXTENDS Naturals

CONSTANTS
    Socks,      \* bound: sockets that exist at the same time
    NoSock,
    MaxLost,    \* bound: connections that are lost
    MaxLoose    \* bound: timers set and no longer referred to

ASSUME WinkdClientAssumption ==
    NoSock \notin Socks /\ MaxLost \in Nat /\ MaxLoose \in Nat

VARIABLES
    ws,            \* this.ws
    authenticated, \* this.authenticated
    timer,         \* this.reconnectTimer is pending
    loose,         \* pending timers that reconnectTimer no longer refers to
    delay,         \* this.reconnectDelay, in seconds
    phase,         \* Socks -> readyState, "rejected" when the close code is 4001
    link,          \* Socks -> how far the authentication of the connection is
    valid,         \* server: the session token is good
    lost,          \* connections lost so far
    wanted,        \* history: the caller's last call was connect
    refused,       \* history: onAuthFailure was called since the caller's connect
    parting,       \* history: disconnect was called with a socket that was not closed
    hasty          \* history: connect ran beside an older socket or a pending timer

fields == <<ws, authenticated, timer, loose, delay>>
history == <<wanted, refused, parting, hasty>>
vars == <<fields, phase, link, valid, lost, history>>

Phases == {"free", "connecting", "open", "closing", "rejected"}
Links == {"none", "asked", "accepted", "ready"}

TypeOK ==
    /\ ws \in Socks \cup {NoSock}
    /\ authenticated \in BOOLEAN /\ timer \in BOOLEAN /\ valid \in BOOLEAN
    /\ loose \in 0..MaxLoose /\ lost \in 0..MaxLost
    /\ delay \in {1, 2, 4, 8, 16, 30}
    /\ phase \in [Socks -> Phases] /\ link \in [Socks -> Links]
    /\ wanted \in BOOLEAN /\ refused \in BOOLEAN /\ parting \in BOOLEAN
    /\ hasty \in BOOLEAN

Init ==
    /\ ws = NoSock /\ authenticated = FALSE /\ timer = FALSE /\ loose = 0 /\ delay = 1
    /\ phase = [s \in Socks |-> "free"] /\ link = [s \in Socks |-> "none"]
    /\ valid = TRUE /\ lost = 0
    /\ wanted = FALSE /\ refused = FALSE /\ parting = FALSE /\ hasty = FALSE

-----------------------------------------------------------------------------
IsOpen(s) == s # NoSock /\ phase[s] = "open"
AllClosed == \A s \in Socks : phase[s] = "free"
NoTimer == ~ timer /\ loose = 0

(***************************************************************************)
(* connect: nothing if the socket is open, else a new one, also when the   *)
(* old one is still connecting or closing.                                 *)
(***************************************************************************)
NewSocket(s) ==
    IF IsOpen(ws)
    THEN UNCHANGED <<ws, authenticated, phase>>
    ELSE /\ phase[s] = "free"
         /\ ws' = s
         /\ phase' = [phase EXCEPT ![s] = "connecting"]
         /\ authenticated' = FALSE

connect(s) ==
    /\ NewSocket(s)
    /\ wanted' = TRUE /\ refused' = FALSE /\ parting' = FALSE
    /\ hasty' = (hasty \/ ~ AllClosed \/ ~ NoTimer)
    /\ UNCHANGED <<timer, loose, delay, link, valid, lost>>

(***************************************************************************)
(* A variant of Retry without the limit on the delay.                      *)
(***************************************************************************)
RetryUncapped(s) ==
    /\ delay' = 2 * delay
    /\ NewSocket(s)
    /\ hasty' = (hasty \/ ~ AllClosed)
    /\ UNCHANGED <<link, valid, lost, wanted, refused, parting>>

(***************************************************************************)
(* The callback of a timer, which knows nothing of what came after it.     *)
(***************************************************************************)
Retry(s) ==
    /\ delay' = IF 2 * delay < 30 THEN 2 * delay ELSE 30
    /\ NewSocket(s)
    /\ hasty' = (hasty \/ ~ AllClosed)
    /\ UNCHANGED <<link, valid, lost, wanted, refused, parting>>

TimerFires(s) ==
    /\ timer
    /\ timer' = FALSE
    /\ Retry(s)
    /\ UNCHANGED loose

LooseTimerFires(s) ==
    /\ loose > 0
    /\ loose' = loose - 1
    /\ Retry(s)
    /\ UNCHANGED timer

(***************************************************************************)
(* onopen: the auth frame goes to this.ws, which need not be the socket    *)
(* that opened; on a socket that is not open, send throws.                 *)
(***************************************************************************)
onopen(s) ==
    /\ phase[s] = "connecting"
    /\ phase' = [phase EXCEPT ![s] = "open"]
    /\ delay' = 1
    /\ link' = IF ws # NoSock /\ phase'[ws] = "open" /\ link[ws] = "none"
               THEN [link EXCEPT ![ws] = "asked"] ELSE link
    /\ UNCHANGED <<ws, authenticated, timer, loose, valid, lost, history>>

(***************************************************************************)
(* The server: a good token, a bad one, no frame within five seconds.      *)
(***************************************************************************)
Accept(s) ==
    /\ phase[s] = "open" /\ link[s] = "asked" /\ valid
    /\ link' = [link EXCEPT ![s] = "accepted"]
    /\ UNCHANGED <<fields, phase, valid, lost, history>>

Reject(s) ==
    /\ phase[s] = "open" /\ link[s] = "asked" /\ ~ valid
    /\ phase' = [phase EXCEPT ![s] = "rejected"]
    /\ UNCHANGED <<fields, link, valid, lost, history>>

AuthTimeout(s) ==
    /\ phase[s] = "open" /\ link[s] = "none"
    /\ phase' = [phase EXCEPT ![s] = "rejected"]
    /\ UNCHANGED <<fields, link, valid, lost, history>>

Revoke ==
    /\ valid
    /\ valid' = FALSE
    /\ UNCHANGED <<fields, phase, link, lost, history>>

(***************************************************************************)
(* onmessage until auth_ok; later events are dispatched if authenticated.  *)
(***************************************************************************)
onmessage(s) ==
    /\ phase[s] = "open" /\ link[s] = "accepted"
    /\ link' = [link EXCEPT ![s] = "ready"]
    /\ authenticated' = TRUE
    /\ UNCHANGED <<ws, timer, loose, delay, phase, valid, lost, history>>

Lose(s) ==
    /\ phase[s] \in {"connecting", "open"} /\ lost < MaxLost
    /\ lost' = lost + 1
    /\ phase' = [phase EXCEPT ![s] = "closing"]
    /\ UNCHANGED <<fields, link, valid, history>>

(***************************************************************************)
(* scheduleReconnect: a timer that is still pending is forgotten, not      *)
(* cleared.                                                                *)
(***************************************************************************)
scheduleReconnect ==
    /\ loose' = IF timer THEN loose + 1 ELSE loose
    /\ loose' <= MaxLoose
    /\ timer' = TRUE

(***************************************************************************)
(* A variant of onclose that gives up after a lost connection.             *)
(***************************************************************************)
oncloseGivesUp(s) ==
    /\ phase[s] \in {"closing", "rejected"}
    /\ phase' = [phase EXCEPT ![s] = "free"]
    /\ link' = [link EXCEPT ![s] = "none"]
    /\ authenticated' = FALSE
    /\ refused' = (refused \/ phase[s] = "rejected")
    /\ UNCHANGED <<ws, timer, loose, delay, valid, lost, wanted, parting, hasty>>

(***************************************************************************)
(* A variant of onclose that reconnects after 4001 too.                    *)
(***************************************************************************)
oncloseAlwaysRetries(s) ==
    /\ phase[s] \in {"closing", "rejected"}
    /\ phase' = [phase EXCEPT ![s] = "free"]
    /\ link' = [link EXCEPT ![s] = "none"]
    /\ authenticated' = FALSE
    /\ refused' = (refused \/ phase[s] = "rejected")
    /\ scheduleReconnect
    /\ UNCHANGED <<ws, delay, valid, lost, wanted, parting, hasty>>

(***************************************************************************)
(* onclose, of any socket: the client is no longer authenticated; code     *)
(* 4001 calls onAuthFailure, any other schedules a reconnection.           *)
(***************************************************************************)
onclose(s) ==
    /\ phase[s] \in {"closing", "rejected"}
    /\ phase' = [phase EXCEPT ![s] = "free"]
    /\ link' = [link EXCEPT ![s] = "none"]
    /\ authenticated' = FALSE
    /\ IF phase[s] = "rejected"
       THEN refused' = TRUE /\ UNCHANGED <<timer, loose>>
       ELSE scheduleReconnect /\ UNCHANGED refused
    /\ UNCHANGED <<ws, delay, valid, lost, wanted, parting, hasty>>

(***************************************************************************)
(* A variant of disconnect that does not close the socket.                 *)
(***************************************************************************)
disconnectKeepsSocket ==
    /\ timer' = FALSE /\ authenticated' = FALSE
    /\ wanted' = FALSE /\ parting' = ~ AllClosed
    /\ UNCHANGED <<ws, phase, loose, delay, link, valid, lost, refused, hasty>>

(***************************************************************************)
(* disconnect: the timer is cleared and the socket closed; the close event *)
(* of that socket is still to come.                                        *)
(***************************************************************************)
disconnect ==
    /\ timer' = FALSE
    /\ phase' = [s \in Socks |-> IF s = ws /\ phase[s] \in {"connecting", "open"}
                                 THEN "closing" ELSE phase[s]]
    /\ ws' = NoSock /\ authenticated' = FALSE
    /\ wanted' = FALSE /\ parting' = ~ AllClosed
    /\ UNCHANGED <<loose, delay, link, valid, lost, refused, hasty>>

-----------------------------------------------------------------------------
Step(s) ==
    onopen(s) \/ Accept(s) \/ Reject(s) \/ AuthTimeout(s) \/ onmessage(s) \/ onclose(s)

Timers == \E s \in Socks : TimerFires(s) \/ LooseTimerFires(s)

Next ==
    \/ \E s \in Socks : connect(s) \/ Step(s) \/ Lose(s)
    \/ Timers \/ disconnect \/ Revoke

Spec == Init /\ [][Next]_vars

(***************************************************************************)
(* Browser and server do what is due; timers fire.                         *)
(***************************************************************************)
Fairness == WF_vars(Timers) /\ \A s \in Socks : WF_vars(Step(s))
FairSpec == Spec /\ Fairness

-----------------------------------------------------------------------------
(***************************************************************************)
(* The server has accepted the connection and the client drops what comes  *)
(* on it and what is sent.                                                 *)
(***************************************************************************)
Deaf == IsOpen(ws) /\ link[ws] = "ready" /\ ~ authenticated
Usable == IsOpen(ws) /\ link[ws] = "ready" /\ authenticated

(***************************************************************************)
(* The shared authenticated flag agrees with the connection, unless        *)
(* connect once ran beside an older socket or a pending timer, whose late  *)
(* close event then clears it.                                             *)
(***************************************************************************)
NeverDeaf == Deaf => hasty

(***************************************************************************)
(* A stopped client stays away, under the same condition: it has neither a *)
(* socket nor a timer after a 4001 close (README.md 88, "the client does   *)
(* not attempt to reconnect"), and after a disconnect when every socket    *)
(* had closed; otherwise the close event that follows sets a new timer.    *)
(***************************************************************************)
NoRetryAfterRefusal == refused => hasty \/ (AllClosed /\ NoTimer)
DisconnectSticks == ~ wanted => parting \/ hasty \/ (AllClosed /\ NoTimer)
StaysAway == NoRetryAfterRefusal /\ DisconnectSticks

(***************************************************************************)
(* Lost connections are made up for: a client that is wanted becomes       *)
(* usable, unless it is refused, disconnected or used hastily.             *)
(***************************************************************************)
Reconnects ==
    wanted /\ ~ refused /\ ~ hasty ~> Usable \/ ~ wanted \/ refused \/ hasty
=============================================================================
