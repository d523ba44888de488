-------------------------------- MODULE Chat --------------------------------
(***************************************************************************)
(* The chat window of a tab (ChatWindow.tsx), the conversation that is     *)
(* open (chatStore.ts), the unread badges (contactsStore.ts, Sidebar.tsx), *)
(* and the handlers of useSocket.ts that touch them.                       *)
(*                                                                         *)
(* Two things are read at one time and used at another: the handlers keep  *)
(* the conversation that was open when the socket effect ran, and the      *)
(* picking of an attachment keeps the conversation and the text while the  *)
(* file is read.  There is one input for all conversations, and a message  *)
(* is shown before send looks at the socket.  How sockets come and go and  *)
(* the contact list is filled is WebClient, the fate of a message Relay.   *)
(***************************************************************************)
EXTENDS Naturals

CONSTANTS
    Peers, NoPeer,  \* NoPeer is not one of the peers
    Texts, NoText,  \* NoText is not one of the texts
    MaxUnread       \* bound: unread messages per peer

NotReading == [to |-> NoPeer, body |-> NoText, mounted |-> FALSE]

VARIABLES
    signedIn,  \* authStore.session: the buddy list and the chat window are mounted
    open,      \* wsRef.current is a socket whose readyState is OPEN
    listed,    \* contacts of the sidebar
    active,    \* chatStore.activeConversationId
    seen,      \* activeConversationId as the socket handlers captured it
    unread,    \* Peers -> contactsStore.unreadCounts
    shaking,   \* conversations with isShaking
    input,     \* ChatWindow's inputValue
    reading,   \* the attachment being read: conversation, caption, window still mounted
    shown,     \* the own messages in chatStore.conversations
    sent,      \* the own messages that send gave to the socket
    unseen     \* history: Peers -> messages that came while another chat was open

session == <<signedIn, open>>
chats == <<listed, active, seen>>
badges == <<unread, unseen>>
composer == <<input, reading>>
messages == <<shown, sent>>
vars == <<session, chats, badges, shaking, composer, messages>>

Init ==
    /\ signedIn = FALSE /\ open = FALSE
    /\ listed = {} /\ active = NoPeer /\ seen = NoPeer
    /\ unread = [p \in Peers |-> 0] /\ unseen = [p \in Peers |-> 0]
    /\ shaking = {}
    /\ input = NoText /\ reading = NotReading
    /\ shown = {} /\ sent = {}

-----------------------------------------------------------------------------
(* The setters of contactsStore and chatStore.                             *)

incrementUnread(p) == unread' = [unread EXCEPT ![p] = @ + 1]
clearUnread(p) == unread' = [unread EXCEPT ![p] = 0]
openConversation(p) == active' = p
closeConversation == active' = NoPeer

-----------------------------------------------------------------------------
(* Session, connection and contact list.                                   *)

(***************************************************************************)
(* The socket effect runs, for a new session or a new session object: its  *)
(* handlers capture the open chat, its socket is not open yet.             *)
(***************************************************************************)
RunEffect ==
    /\ signedIn' = TRUE /\ open' = FALSE
    /\ seen' = active
    /\ UNCHANGED <<listed, active, badges, shaking, composer, messages>>

(***************************************************************************)
(* wsRef gets its open socket, or loses it.                                *)
(***************************************************************************)
SocketChanges ==
    /\ signedIn
    /\ open' = ~ open
    /\ UNCHANGED <<signedIn, chats, badges, shaking, composer, messages>>

(***************************************************************************)
(* The pages are unmounted: the input is gone, a file goes on being read,  *)
(* the stores stay.                                                        *)
(***************************************************************************)
logout ==
    /\ signedIn
    /\ signedIn' = FALSE /\ open' = FALSE
    /\ input' = NoText
    /\ reading' = [reading EXCEPT !.mounted = FALSE]
    /\ UNCHANGED <<chats, badges, shaking, messages>>

ListChanges(contacts) ==
    /\ signedIn
    /\ listed' = contacts
    /\ UNCHANGED <<session, active, seen, badges, shaking, composer, messages>>

-----------------------------------------------------------------------------
(* Messages that come.                                                     *)

(***************************************************************************)
(* A conversation shakes for a winkd and stops for anything else.          *)
(***************************************************************************)
receiveMessage(p, kind) ==
    shaking' = IF kind = "winkd" THEN shaking \cup {p} ELSE shaking \ {p}

(***************************************************************************)
(* A message is counted unless the captured conversation is the sender's.  *)
(***************************************************************************)
OnMessage(p, kind) ==
    /\ signedIn /\ unread[p] < MaxUnread /\ unseen[p] < MaxUnread
    /\ receiveMessage(p, kind)
    /\ IF seen = p THEN unread' = unread ELSE incrementUnread(p)
    /\ unseen' = [unseen EXCEPT ![p] = IF active = p THEN @ ELSE @ + 1]
    /\ UNCHANGED <<session, chats, composer, messages>>

(***************************************************************************)
(* The server's echo of an own message goes through receiveMessage too.    *)
(***************************************************************************)
OnEcho(p, kind) ==
    /\ signedIn
    /\ receiveMessage(p, kind)
    /\ UNCHANGED <<session, chats, badges, composer, messages>>

(***************************************************************************)
(* contact_blocked: the contact goes, and the chat if the captured         *)
(* conversation is that peer's.                                            *)
(***************************************************************************)
OnBlocked(p) ==
    /\ signedIn
    /\ listed' = listed \ {p}
    /\ IF seen = p THEN closeConversation ELSE active' = active
    /\ UNCHANGED <<session, seen, badges, shaking, composer, messages>>

-----------------------------------------------------------------------------
(* The sidebar and the chat window.                                        *)

handleContactClick(p) ==
    /\ signedIn /\ p \in listed
    /\ openConversation(p)
    /\ clearUnread(p)
    /\ unseen' = [unseen EXCEPT ![p] = 0]
    /\ UNCHANGED <<session, listed, seen, shaking, composer, messages>>

(***************************************************************************)
(* The window shows a conversation with a listed contact, and the input is *)
(* the same for all of them.                                               *)
(***************************************************************************)
Shown == signedIn /\ active \in listed

(***************************************************************************)
(* The timer of the open conversation.                                     *)
(***************************************************************************)
clearShaking ==
    /\ Shown /\ active \in shaking
    /\ shaking' = shaking \ {active}
    /\ UNCHANGED <<session, chats, badges, composer, messages>>

Type(t) ==
    /\ Shown
    /\ input' = t
    /\ UNCHANGED <<session, chats, badges, shaking, reading, messages>>

(***************************************************************************)
(* sendText, sendAttachment: the message joins the conversation, then send *)
(* gives it to the socket if that is open.                                 *)
(***************************************************************************)
Emit(p, t) ==
    /\ shown' = shown \cup {<<p, t>>}
    /\ sent' = IF open THEN sent \cup {<<p, t>>} ELSE sent

handleSend ==
    /\ Shown /\ input # NoText
    /\ Emit(active, input)
    /\ input' = NoText
    /\ UNCHANGED <<session, chats, badges, shaking, reading>>

(***************************************************************************)
(* A file that is allowed and not too large is read; conversation and text *)
(* are those of the moment it was picked.                                  *)
(***************************************************************************)
handleAttachmentSelect ==
    /\ Shown /\ reading = NotReading
    /\ reading' = [to |-> active, body |-> input, mounted |-> TRUE]
    /\ UNCHANGED <<session, chats, badges, shaking, input, messages>>

(***************************************************************************)
(* The file is read: it goes out with the text of then (its name if there  *)
(* is none), and a window that is still there loses the text of now.  The  *)
(* socket of a window that is gone was closed with it.                     *)
(***************************************************************************)
sendAttachment ==
    /\ reading # NotReading
    /\ IF reading.mounted
       THEN Emit(reading.to, reading.body) /\ input' = NoText
       ELSE /\ shown' = shown \cup {<<reading.to, reading.body>>}
            /\ UNCHANGED <<sent, input>>
    /\ reading' = NotReading
    /\ UNCHANGED <<session, chats, badges, shaking>>

ReadFails ==
    /\ reading # NotReading
    /\ reading' = NotReading
    /\ UNCHANGED <<session, chats, badges, shaking, input, messages>>

-----------------------------------------------------------------------------
Next ==
    \/ RunEffect \/ SocketChanges \/ logout \/ clearShaking
    \/ \E contacts \in SUBSET Peers : ListChanges(contacts)
    \/ \E p \in Peers :
          \/ handleContactClick(p) \/ OnBlocked(p)
          \/ \E kind \in {"winkd", "text"} : OnMessage(p, kind) \/ OnEcho(p, kind)
    \/ \E t \in Texts \cup {NoText} : Type(t)
    \/ handleSend \/ handleAttachmentSelect \/ sendAttachment \/ ReadFails

Spec == Init /\ [][Next]_vars

-----------------------------------------------------------------------------
(***************************************************************************)
(* useSocket.ts 293-294, "we want the current value at message receipt     *)
(* time": a badge counts the messages that came while another conversation *)
(* was open, over all changes of chat and reconnections.                   *)
(***************************************************************************)
BadgesExact == \A p \in Peers : unread[p] = unseen[p]
=============================================================================
