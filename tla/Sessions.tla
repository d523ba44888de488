------------------------------ MODULE Sessions ------------------------------
(***************************************************************************)
(* The life of a WebSocket connection on the server: handle_socket of      *)
(* server/src/router.rs, the registry of live sessions                     *)
(* (AppState.clients), and the presence store (server/src/presence.rs).    *)
(*                                                                         *)
(* Every connection is a task of a multi-threaded runtime, so another      *)
(* connection may take a step wherever this one awaits a lock, the         *)
(* database or its socket.  An action is one stretch of the handler        *)
(* between two such points.                                                *)
(***************************************************************************)
EXTENDS Naturals, FiniteSets

CONSTANTS
    Users,      \* accounts
    Conns,      \* connections: one for every run of handle_socket
    None,       \* "no connection", "no user"
    Statuses,   \* UserStatus of presence.rs: online, away, busy, invisible
    OneTab      \* TRUE: a user opens a socket only once the last one is closed

ASSUME SessionsAssumption ==
    /\ None \notin Users
    /\ None \notin Conns
    /\ OneTab \in BOOLEAN
    /\ "online" \in Statuses
    /\ "absent" \notin Statuses

(***************************************************************************)
(* A user without an entry in the presence store.                          *)
(***************************************************************************)
Absent == "absent"

(***************************************************************************)
(* Where a connection's task is.  "idle" and "done" are before and after   *)
(* the task; a connection in a phase of Registered has put itself in       *)
(* clients and has not reached the end of its cleanup's critical section.  *)
(***************************************************************************)
Phases == {"idle", "auth", "authed", "registered", "online", "announced",
           "replaying", "running", "setting", "closing", "leaving", "left", "done"}

Registered == {"registered", "online", "announced", "replaying", "running",
               "setting", "closing"}

VARIABLES
    pc,        \* Conns -> Phases
    owner,     \* Conns -> the user the connection is for, or None
    sock,      \* Conns -> whether the browser's end of the socket is open
    clients,   \* AppState.clients: Users -> the registered connection, or None
    presence,  \* PresenceStore: Users -> status, or Absent
    held,      \* Conns -> the status a command read or was given, and will write
    newest,    \* history: Users -> the connection that registered last
    overlap    \* history: Users -> whether two tasks of the user ever overlapped

sessionVars == <<pc, owner, sock, clients, presence, held, newest, overlap>>

TypeOK ==
    /\ pc \in [Conns -> Phases]
    /\ owner \in [Conns -> Users \cup {None}]
    /\ sock \in [Conns -> BOOLEAN]
    /\ clients \in [Users -> Conns \cup {None}]
    /\ presence \in [Users -> Statuses \cup {Absent}]
    /\ held \in [Conns -> Statuses]
    /\ newest \in [Users -> Conns \cup {None}]
    /\ overlap \in [Users -> BOOLEAN]

Init ==
    /\ pc = [c \in Conns |-> "idle"]
    /\ owner = [c \in Conns |-> None]
    /\ sock = [c \in Conns |-> FALSE]
    /\ clients = [u \in Users |-> None]
    /\ presence = [u \in Users |-> Absent]
    /\ held = [c \in Conns |-> "online"]
    /\ newest = [u \in Users |-> None]
    /\ overlap = [u \in Users |-> FALSE]

-----------------------------------------------------------------------------
Active(c) == pc[c] \notin {"idle", "done"}

Goto(c, from, to) ==
    /\ pc[c] = from
    /\ pc' = [pc EXCEPT ![c] = to]

(***************************************************************************)
(* The browser side: a tab opens a socket and sends its auth frame; a tab  *)
(* closes, or its network goes away.                                       *)
(***************************************************************************)
Open(c, u) ==
    /\ pc[c] = "idle"
    /\ OneTab => \A d \in Conns : owner[d] = u => ~ sock[d]
    /\ pc' = [pc EXCEPT ![c] = "auth"]
    /\ owner' = [owner EXCEPT ![c] = u]
    /\ sock' = [sock EXCEPT ![c] = TRUE]
    /\ overlap' = [overlap EXCEPT ![u] = @ \/ \E d \in Conns : owner[d] = u /\ Active(d)]
    /\ UNCHANGED <<clients, presence, held, newest>>

Disconnect(c) ==
    /\ sock[c]
    /\ sock' = [sock EXCEPT ![c] = FALSE]
    /\ UNCHANGED <<pc, owner, clients, presence, held, newest, overlap>>

(***************************************************************************)
(* The first frame carried a token with a session: the user is loaded and  *)
(* auth_ok was written to the socket.                                      *)
(***************************************************************************)
Authenticate(c) ==
    /\ Goto(c, "auth", "authed")
    /\ UNCHANGED <<owner, sock, clients, presence, held, newest, overlap>>

(***************************************************************************)
(* The early returns: five seconds without a frame, a frame that is not an *)
(* auth message, a token without a session (each closes with 4001), or     *)
(* auth_ok could not be written.  Nothing has been registered yet.         *)
(***************************************************************************)
Reject(c) ==
    /\ Goto(c, "auth", "done")
    /\ sock' = [sock EXCEPT ![c] = FALSE]
    /\ UNCHANGED <<owner, clients, presence, held, newest, overlap>>

(***************************************************************************)
(* Under the write lock of clients: this connection's entry replaces any   *)
(* earlier one of the same user.                                           *)
(***************************************************************************)
Register(c) ==
    /\ Goto(c, "authed", "registered")
    /\ clients' = [clients EXCEPT ![owner[c]] = c]
    /\ newest' = [newest EXCEPT ![owner[c]] = c]
    /\ UNCHANGED <<owner, sock, presence, held, overlap>>

SetOnline(c) ==
    /\ Goto(c, "registered", "online")
    /\ presence' = [presence EXCEPT ![owner[c]] = "online"]
    /\ UNCHANGED <<owner, sock, clients, held, newest, overlap>>

AnnounceOnline(c) ==
    /\ Goto(c, "online", "announced")
    /\ UNCHANGED <<owner, sock, clients, presence, held, newest, overlap>>

(***************************************************************************)
(* The roster snapshot and the waiting contact requests are pushed and the *)
(* queued messages taken from the database (Relay says what becomes of     *)
(* them).                                                                  *)
(***************************************************************************)
Snapshot(c) ==
    /\ Goto(c, "announced", "replaying")
    /\ UNCHANGED <<owner, sock, clients, presence, held, newest, overlap>>

(***************************************************************************)
(* The queued messages have been pushed; the forwarding task is spawned    *)
(* and the receive loop entered.                                           *)
(***************************************************************************)
EnterLoop(c) ==
    /\ Goto(c, "replaying", "running")
    /\ UNCHANGED <<owner, sock, clients, presence, held, newest, overlap>>

-----------------------------------------------------------------------------
(***************************************************************************)
(* A variant of StatusRead: the client's string is kept as it came.        *)
(***************************************************************************)
StatusReadUnparsed(c, s) ==
    /\ Goto(c, "running", "setting")
    /\ presence[owner[c]] # Absent
    /\ held' = [held EXCEPT ![c] = "unparsed"]
    /\ UNCHANGED <<owner, sock, clients, presence, newest, overlap>>

(***************************************************************************)
(* The set_status command reads the presence entry, and writes it back     *)
(* with the new status.  Without an entry it writes nothing.               *)
(***************************************************************************)
StatusRead(c, s) ==
    /\ Goto(c, "running", "setting")
    /\ presence[owner[c]] # Absent
    /\ held' = [held EXCEPT ![c] = s]
    /\ UNCHANGED <<owner, sock, clients, presence, newest, overlap>>

(***************************************************************************)
(* set_mood does the same, with the status it read.                        *)
(***************************************************************************)
MoodRead(c) ==
    /\ pc[c] = "running"
    /\ StatusRead(c, presence[owner[c]])

StatusWrite(c) ==
    /\ Goto(c, "setting", "running")
    /\ presence' = [presence EXCEPT ![owner[c]] = held[c]]
    /\ held' = [held EXCEPT ![c] = "online"]
    /\ UNCHANGED <<owner, sock, clients, newest, overlap>>

-----------------------------------------------------------------------------
(***************************************************************************)
(* The receive loop sees a close frame or a broken socket.                 *)
(***************************************************************************)
HangUp(c) ==
    /\ ~ sock[c]
    /\ Goto(c, "running", "closing")
    /\ UNCHANGED <<owner, sock, clients, presence, held, newest, overlap>>

(***************************************************************************)
(* Variants of Unregister: without the comparison of session ids, and      *)
(* without the removal.                                                    *)
(***************************************************************************)
UnregisterAlways(c) ==
    /\ Goto(c, "closing", "leaving")
    /\ clients' = [clients EXCEPT ![owner[c]] = None]
    /\ UNCHANGED <<owner, sock, presence, held, newest, overlap>>

UnregisterNever(c) ==
    /\ Goto(c, "closing", IF clients[owner[c]] = c THEN "leaving" ELSE "done")
    /\ UNCHANGED <<owner, sock, clients, presence, held, newest, overlap>>

(***************************************************************************)
(* Under the write lock of clients: remove the entry only if it is still   *)
(* this connection's; otherwise the task ends here.                        *)
(***************************************************************************)
Unregister(c) ==
    LET active == clients[owner[c]] = c
    IN  /\ Goto(c, "closing", IF active THEN "leaving" ELSE "done")
        /\ clients' = IF active THEN [clients EXCEPT ![owner[c]] = None] ELSE clients
        /\ UNCHANGED <<owner, sock, presence, held, newest, overlap>>

(***************************************************************************)
(* A variant of ClearPresence that leaves the entry behind.                *)
(***************************************************************************)
ClearPresenceForgotten(c) ==
    /\ Goto(c, "leaving", "left")
    /\ UNCHANGED <<owner, sock, clients, presence, held, newest, overlap>>

ClearPresence(c) ==
    /\ Goto(c, "leaving", "left")
    /\ presence' = [presence EXCEPT ![owner[c]] = Absent]
    /\ UNCHANGED <<owner, sock, clients, held, newest, overlap>>

AnnounceOffline(c) ==
    /\ Goto(c, "left", "done")
    /\ UNCHANGED <<owner, sock, clients, presence, held, newest, overlap>>

(***************************************************************************)
(* The server process dies and starts again: clients and presence are in   *)
(* memory only, and every socket breaks.                                   *)
(***************************************************************************)
Crash ==
    /\ pc' = [c \in Conns |-> IF pc[c] = "idle" THEN "idle" ELSE "done"]
    /\ sock' = [c \in Conns |-> FALSE]
    /\ clients' = [u \in Users |-> None]
    /\ presence' = [u \in Users |-> Absent]
    /\ held' = [c \in Conns |-> "online"]
    /\ newest' = [u \in Users |-> None]
    /\ overlap' = [u \in Users |-> FALSE]
    /\ UNCHANGED owner

-----------------------------------------------------------------------------
(***************************************************************************)
(* The steps of a connection's task that need nothing from the browser.    *)
(***************************************************************************)
ServerStep(c) ==
    \/ Authenticate(c) \/ Reject(c)
    \/ Register(c) \/ SetOnline(c) \/ AnnounceOnline(c)
    \/ Snapshot(c) \/ EnterLoop(c)
    \/ StatusWrite(c)
    \/ HangUp(c) \/ Unregister(c) \/ ClearPresence(c) \/ AnnounceOffline(c)

Next ==
    \/ \E c \in Conns : \E u \in Users : Open(c, u)
    \/ \E c \in Conns : Disconnect(c)
    \/ \E c \in Conns : ServerStep(c)
    \/ \E c \in Conns : MoodRead(c) \/ \E s \in Statuses : StatusRead(c, s)
    \/ Crash

Spec == Init /\ [][Next]_sessionVars

-----------------------------------------------------------------------------
(***************************************************************************)
(* What the registry promises (the comment at router.rs 389-392): however  *)
(* the cleanups of a user's older connections interleave with it, the      *)
(* connection that registered last stays the one messages are sent to      *)
(* until its own cleanup.                                                  *)
(***************************************************************************)
NewestRegistered ==
    \A u \in Users :
        newest[u] # None /\ owner[newest[u]] = u /\ pc[newest[u]] \in Registered
            => clients[u] = newest[u]

(***************************************************************************)
(* The registry never holds a connection of somebody else, or one whose    *)
(* task has left its receive loop for good: a relayed message is never     *)
(* handed to a connection that can no longer forward it by design.         *)
(***************************************************************************)
RegistryLive ==
    \A u \in Users :
        clients[u] # None => owner[clients[u]] = u /\ pc[clients[u]] \in Registered

(***************************************************************************)
(* The presence store is exact for a user whose connections never          *)
(* overlapped on the server: there is an entry exactly from set(Online) to *)
(* remove() of that user's one connection, whatever set_status and         *)
(* set_mood write back.                                                    *)
(***************************************************************************)
Visible == {"online", "announced", "replaying", "running", "setting",
            "closing", "leaving"}

PresenceExactUnlessOverlap ==
    \A u \in Users :
        ~ overlap[u] => (presence[u] # Absent
                           <=> \E c \in Conns : owner[c] = u /\ pc[c] \in Visible)
=============================================================================
