--------------------------- MODULE WebClientProofs ---------------------------
(***************************************************************************)
(* Proofs about WebClient, for any number of sockets and peers and any     *)
(* bounds: that the lists of the tab follow the server's rows through the  *)
(* events still on their way.                                              *)
(***************************************************************************)
EXTENDS WebClient, FiniteSetTheorems, TLAPS

(***************************************************************************)
(* send writes to the socket of the running effect or to none.             *)
(***************************************************************************)
SendsOnCurrentSocket == wsRef # NoSock => wsRef = ws /\ effect # "off"

(***************************************************************************)
(* No handler, click or step of the server separates wsRef from the socket *)
(* of the running effect.                                                  *)
(***************************************************************************)
LEMMA RefStep == SendsOnCurrentSocket /\ [Next]_vars => SendsOnCurrentSocket'
<1> SUFFICES ASSUME SendsOnCurrentSocket, [Next]_vars PROVE SendsOnCurrentSocket'
  OBVIOUS
<1> USE DEF SendsOnCurrentSocket, socketVars, channels, stores, server, history,
            NewSessionObject
<1>1. CASE User
  <2>1. UNCHANGED <<ws, wsRef>> /\ (effect # "off" => effect' # "off")
    BY <1>1
    DEF User, login, cycleStatus, AnswerInvitation, handleUnblock, sendContactRequest,
        BlockUser, openBlockedUsers, Click
  <2> QED BY <2>1
<1>2. CASE Others
  BY <1>2 DEF Others, PeerRequests, PeerAccepts, PeerRejects, PeerBlocks, PeerUnblocks
<1>3. CASE React
  BY <1>3 DEF React, Unmount, RunEffect
<1>4. CASE onmessage
  <2>1. UNCHANGED <<ws, wsRef>> /\ (effect # "off" => effect' # "off")
    BY <1>4
    DEF onmessage, OnAuthOk, OnContactRequest, OnContactAccepted, OnRequestRejected,
        OnBlocked, OnUnblocked, OnRequestSent, OnSnapshot, OnBlockedList, Handle
  <2> QED BY <2>1
<1>5. CASE Lose BY <1>5 DEF Lose
<1>6. ASSUME NEW s \in Socks, Socket(s) \/ Reject(s) PROVE SendsOnCurrentSocket'
  <2>1. CASE onopen(s) BY <2>1 DEF onopen
  <2>2. CASE onclose(s) BY <2>2 DEF onclose
  <2>3. CASE Serve(s) \/ Reject(s)
    BY <2>3
    DEF Serve, Reject, Authenticate, list_blocked, accept_contact,
        reject_contact, block_contact, block_user, unblock_contact, add_contact, Take
  <2> QED BY <1>6, <2>1, <2>2, <2>3 DEF Socket
<1>7. CASE UNCHANGED vars BY <1>7 DEF vars
<1> QED BY <1>1, <1>2, <1>3, <1>4, <1>5, <1>6, <1>7 DEF Next

-----------------------------------------------------------------------------
(* What a queue of events will do to a list.                               *)

AnyOf(q, S) == \E i \in 1..Len(q) : q[i] \in S

(***************************************************************************)
(* Once the events of q are handled, p is in the list that is L now: an    *)
(* event of A puts it in, one of B takes it out, and the last one counts.  *)
(***************************************************************************)
Stays(q, p, L, A, B) ==
    \/ p \in L /\ ~ AnyOf(q, B)
    \/ \E i \in 1..Len(q) : q[i] \in A /\ \A j \in (i + 1)..Len(q) : q[j] \notin B

LEMMA StaysEmpty ==
    ASSUME NEW p, NEW L, NEW A, NEW B
    PROVE  Stays(<<>>, p, L, A, B) <=> p \in L
  BY DEF Stays, AnyOf

LEMMA StaysMore ==
    ASSUME NEW q, NEW p, NEW L, NEW M, NEW A, NEW B, p \in L => p \in M, Stays(q, p, L, A, B)
    PROVE  Stays(q, p, M, A, B)
  BY DEF Stays

LEMMA StaysUnlessOut ==
    ASSUME NEW q, NEW p, NEW L, NEW A, NEW B, p \in L, ~ AnyOf(q, B)
    PROVE  Stays(q, p, L, A, B)
  BY DEF Stays

(***************************************************************************)
(* An event that arrives behind q.                                         *)
(***************************************************************************)
LEMMA StaysAppend ==
    ASSUME NEW S, NEW q \in Seq(S), NEW e \in S, NEW p, NEW L, NEW A, NEW B
    PROVE  Stays(Append(q, e), p, L, A, B) <=> (e \in A \/ (e \notin B /\ Stays(q, p, L, A, B)))
<1> DEFINE r == Append(q, e)
           n == Len(q)
<1>1. /\ n \in Nat /\ Len(r) = n + 1 /\ r[n + 1] = e
      /\ \A i \in 1..n : r[i] = q[i]
  OBVIOUS
<1> HIDE DEF r
<1>2. ASSUME e \in A PROVE Stays(r, p, L, A, B)
  <2>1. n + 1 \in 1..Len(r) /\ r[n + 1] \in A /\ \A j \in (n + 1 + 1)..Len(r) : r[j] \notin B
    BY <1>1, <1>2
  <2> QED  BY <2>1 DEF Stays
<1>3. ASSUME e \notin A, e \in B PROVE ~ Stays(r, p, L, A, B)
  <2>1. AnyOf(r, B)  BY <1>1, <1>3 DEF AnyOf
  <2>2. ASSUME NEW i \in 1..Len(r), r[i] \in A, \A j \in (i + 1)..Len(r) : r[j] \notin B
        PROVE  FALSE
    <3>1. i # n + 1  BY <1>1, <1>3, <2>2
    <3>2. n + 1 \in (i + 1)..Len(r)  BY <1>1, <3>1
    <3> QED  BY <1>1, <1>3, <2>2, <3>2
  <2> QED  BY <2>1, <2>2 DEF Stays
<1>4. ASSUME e \notin A, e \notin B PROVE Stays(r, p, L, A, B) <=> Stays(q, p, L, A, B)
  <2>1. AnyOf(r, B) <=> AnyOf(q, B)
    <3>1. \A i \in 1..Len(r) : i \in 1..n \/ i = n + 1  BY <1>1
    <3>2. \A i \in 1..n : i \in 1..Len(r)  BY <1>1
    <3> QED  BY <1>1, <1>4, <3>1, <3>2 DEF AnyOf
  <2>2. ASSUME NEW i \in 1..n, r[i] \in A, \A j \in (i + 1)..Len(r) : r[j] \notin B
        PROVE  q[i] \in A /\ \A j \in (i + 1)..n : q[j] \notin B
    <3>1. \A j \in (i + 1)..n : j \in 1..n /\ j \in (i + 1)..Len(r)  BY <1>1
    <3> QED  BY <1>1, <2>2, <3>1
  <2>3. ASSUME NEW i \in 1..n, q[i] \in A, \A j \in (i + 1)..n : q[j] \notin B
        PROVE  r[i] \in A /\ \A j \in (i + 1)..Len(r) : r[j] \notin B
    <3>1. \A j \in (i + 1)..Len(r) : (j \in 1..n /\ j \in (i + 1)..n) \/ j = n + 1  BY <1>1
    <3> QED  BY <1>1, <1>4, <2>3, <3>1
  <2>4. \A i \in 1..Len(r) : r[i] \in A => i \in 1..n  BY <1>1, <1>4
  <2>5. \A i \in 1..n : i \in 1..Len(r)  BY <1>1
  <2> QED  BY <2>1, <2>2, <2>3, <2>4, <2>5 DEF Stays
<1> QED  BY <1>2, <1>3, <1>4 DEF r

LEMMA AnyAppend ==
    ASSUME NEW S, NEW q \in Seq(S), NEW e \in S, NEW B, AnyOf(q, B) \/ e \in B
    PROVE  AnyOf(Append(q, e), B)
<1> DEFINE r == Append(q, e)
           n == Len(q)
<1>1. n \in Nat /\ Len(r) = n + 1 /\ r[n + 1] = e /\ \A i \in 1..n : r[i] = q[i]
  OBVIOUS
<1>2. n + 1 \in 1..Len(r) /\ \A i \in 1..n : i \in 1..Len(r)  BY <1>1
<1> HIDE DEF r
<1> QED  BY <1>1, <1>2 DEF AnyOf, r

LEMMA AnyTail ==
    ASSUME NEW S, NEW q \in Seq(S), q # <<>>, NEW B
    PROVE  AnyOf(q, B) <=> Head(q) \in B \/ AnyOf(Tail(q), B)
<1> DEFINE r == Tail(q)
           n == Len(r)
<1>0. /\ n \in Nat /\ Len(q) = n + 1 /\ q[1] = Head(q)
      /\ \A i \in 1..n : r[i] = q[i + 1]
  OBVIOUS
<1> HIDE DEF r
<1>1. ASSUME AnyOf(r, B) PROVE AnyOf(q, B)
  <2>1. PICK i \in 1..n : r[i] \in B  BY <1>1 DEF AnyOf
  <2>2. i + 1 \in 1..Len(q) /\ q[i + 1] \in B  BY <1>0, <2>1
  <2> QED  BY <2>2 DEF AnyOf
<1>2. ASSUME AnyOf(q, B) PROVE Head(q) \in B \/ AnyOf(r, B)
  <2>1. PICK i \in 1..Len(q) : q[i] \in B  BY <1>2 DEF AnyOf
  <2>2. CASE i = 1  BY <1>0, <2>1, <2>2
  <2>3. CASE i # 1
    <3>1. i - 1 \in 1..n /\ (i - 1) + 1 = i  BY <1>0, <2>3
    <3>2. r[i - 1] \in B  BY <1>0, <2>1, <3>1
    <3> QED  BY <3>1, <3>2 DEF AnyOf
  <2> QED  BY <2>2, <2>3
<1>3. ASSUME Head(q) \in B PROVE AnyOf(q, B)  BY <1>0, <1>3 DEF AnyOf
<1> QED  BY <1>1, <1>2, <1>3 DEF r

(***************************************************************************)
(* The first event of q is handled, and the list becomes M.                *)
(***************************************************************************)
LEMMA StaysTail ==
    ASSUME NEW S, NEW q \in Seq(S), q # <<>>, NEW p, NEW L, NEW M, NEW A, NEW B,
           p \in M <=> (Head(q) \in A \/ (p \in L /\ Head(q) \notin B))
    PROVE  Stays(Tail(q), p, M, A, B) <=> Stays(q, p, L, A, B)
<1> DEFINE r == Tail(q)
           n == Len(r)
<1>1. /\ n \in Nat /\ Len(q) = n + 1 /\ q[1] = Head(q)
      /\ \A i \in 1..n : r[i] = q[i + 1]
  OBVIOUS
<1> HIDE DEF r
<1>2. AnyOf(q, B) <=> Head(q) \in B \/ AnyOf(r, B)  BY AnyTail DEF r
<1> DEFINE Last(s, i) == s[i] \in A /\ \A j \in (i + 1)..Len(s) : s[j] \notin B
<1>3. ASSUME NEW i \in 1..n PROVE i + 1 \in 1..Len(q) /\ (Last(r, i) <=> Last(q, i + 1))
  <2>1. i + 1 \in 1..Len(q) /\ r[i] = q[i + 1]  BY <1>1
  <2>2. ASSUME \A j \in (i + 1)..n : r[j] \notin B, NEW j \in (i + 1 + 1)..Len(q) PROVE q[j] \notin B
    <3>1. j - 1 \in (i + 1)..n /\ j - 1 \in 1..n /\ (j - 1) + 1 = j  BY <1>1
    <3> QED  BY <1>1, <2>2, <3>1
  <2>3. ASSUME \A j \in (i + 1 + 1)..Len(q) : q[j] \notin B, NEW j \in (i + 1)..n PROVE r[j] \notin B
    <3>1. j + 1 \in (i + 1 + 1)..Len(q) /\ j \in 1..n  BY <1>1
    <3> QED  BY <1>1, <2>3, <3>1
  <2> QED  BY <2>1, <2>2, <2>3
<1>4. Last(q, 1) <=> Head(q) \in A /\ ~ AnyOf(r, B)
  <2>1. ASSUME ~ AnyOf(r, B), NEW j \in (1 + 1)..Len(q) PROVE q[j] \notin B
    <3>1. j - 1 \in 1..n /\ (j - 1) + 1 = j  BY <1>1
    <3> QED  BY <1>1, <2>1, <3>1 DEF AnyOf
  <2>2. ASSUME \A j \in (1 + 1)..Len(q) : q[j] \notin B, NEW i \in 1..n PROVE r[i] \notin B
    <3>1. i + 1 \in (1 + 1)..Len(q)  BY <1>1
    <3> QED  BY <1>1, <2>2, <3>1
  <2> QED  BY <1>1, <2>1, <2>2 DEF AnyOf
<1>5. \A i \in 1..Len(q) : i = 1 \/ (i - 1 \in 1..n /\ (i - 1) + 1 = i)  BY <1>1
<1>6. 1 \in 1..Len(q)  BY <1>1
<1>7. Stays(q, p, L, A, B) <=> (p \in L /\ ~ AnyOf(q, B)) \/ \E i \in 1..Len(q) : Last(q, i)
  BY DEF Stays
<1>8. Stays(r, p, M, A, B) <=> (p \in M /\ ~ AnyOf(r, B)) \/ \E i \in 1..n : Last(r, i)
  BY DEF Stays
<1> HIDE DEF Last
<1>9. (\E i \in 1..Len(q) : Last(q, i)) <=> Last(q, 1) \/ \E i \in 1..n : Last(r, i)
  BY <1>3, <1>5, <1>6
<1> QED  BY <1>2, <1>4, <1>7, <1>8, <1>9 DEF r

-----------------------------------------------------------------------------
(* Types.                                                                  *)

Rosters == SUBSET (Peers \X {"accepted", "pending_outbound"})
Events ==
    {Event(n, p) : n \in Answers \cup {"contact_request"}, p \in Peers}
    \cup {Event("auth_ok", NoPeer)}
    \cup {Event("contacts_snapshot", r) : r \in Rosters}
    \cup {Event("blocked_list", u) : u \in SUBSET Peers}
CommandNames ==
    {"auth", "accept_contact", "reject_contact", "block_contact", "block_user",
     "unblock_contact", "add_contact", "list_blocked"}
Commands == {Event(n, p) : n \in CommandNames, p \in Peers \cup {NoPeer}}

TypeInv == TypeOK /\ inbox \in Seq(Events) /\ outbox \in [Socks -> Seq(Commands)]

LEMMA EventFields ==
    ASSUME NEW n, NEW a
    PROVE  Event(n, a).event = n /\ Event(n, a).about = a
  BY DEF Event

LEMMA PeerCount == Cardinality(Peers) \in Nat
  BY WebClientAssumption, FS_CardinalityType

(***************************************************************************)
(* An event reaches an open socket, or nobody.                             *)
(***************************************************************************)
LEMMA Delivered ==
    ASSUME TypeInv, NEW s \in Socks \cup {NoSock}, NEW e \in Events, Deliver(s, <<e>>)
    PROVE  /\ IF s # NoSock /\ phase[s] = "open" THEN inbox' = Append(inbox, e) ELSE inbox' = inbox
           /\ inbox' \in Seq(Events) /\ Len(inbox') <= MaxInbox + 1 + Cardinality(Peers)
<1>0. inbox \in Seq(Events) /\ Len(inbox) <= MaxInbox + 1 + Cardinality(Peers)
  BY DEF TypeInv, TypeOK
<1>1. MaxInbox \in Nat /\ Cardinality(Peers) \in Nat  BY WebClientAssumption, PeerCount
<1>2. CASE s # NoSock /\ phase[s] = "open"
  <2>1. Len(inbox) < MaxInbox /\ inbox' = inbox \o <<e>>  BY <1>2 DEF Deliver
  <2>2. inbox \o <<e>> = Append(inbox, e)  BY <1>0
  <2>3. inbox' \in Seq(Events) /\ Len(inbox') = Len(inbox) + 1  BY <1>0, <2>1, <2>2
  <2> QED  BY <1>0, <1>1, <1>2, <2>1, <2>2, <2>3
<1>3. CASE ~ (s # NoSock /\ phase[s] = "open")
  BY <1>0, <1>3 DEF Deliver
<1> QED  BY <1>2, <1>3

(***************************************************************************)
(* What authentication sends: auth_ok, then the roster and the requests,   *)
(* or nothing in the place of a list that could not be read.  Everything   *)
(* but the roster is about no contact and no block.                        *)
(***************************************************************************)
Snapshot == Event("contacts_snapshot", list_contact_roster)
Requests == {Event("contact_request", p) : p \in list_pending_inbound}

Greets(q, complete, listed) ==
    /\ q \in Seq(Events)
    /\ \A i \in 1..Len(q) : q[i] \in {Event("auth_ok", NoPeer), Snapshot} \cup Requests
    /\ complete => 2 \in 1..Len(q) /\ q[2] = Snapshot
    /\ ~ complete => \A i \in 1..Len(q) : q[i] # Snapshot
    /\ listed => \A p \in list_pending_inbound :
                    \E i \in 1..Len(q) : q[i] = Event("contact_request", p)

LEMMA OrderFacts ==
    ASSUME TypeInv, NEW order \in OrNothing(Orders(list_pending_inbound))
    PROVE  \E n \in Nat :
              /\ n <= Cardinality(Peers)
              /\ order \in [1..n -> list_pending_inbound]
              /\ order # <<>> => \A p \in list_pending_inbound : \E i \in 1..n : order[i] = p
              /\ order = <<>> => n = 0
<1>1. Cardinality(list_pending_inbound) \in Nat
      /\ Cardinality(list_pending_inbound) <= Cardinality(Peers)
  <2>1. list_pending_inbound \subseteq Peers  BY DEF list_pending_inbound
  <2>2. IsFiniteSet(Peers)  BY WebClientAssumption
  <2> QED  BY <2>1, <2>2, FS_Subset, FS_CardinalityType
<1>2. CASE order = <<>>
  <2>1. order \in [1..0 -> list_pending_inbound] /\ 0 <= Cardinality(Peers)
    BY <1>2, PeerCount
  <2> QED  BY <1>2, <2>1
<1>3. CASE order # <<>>
  <2> DEFINE n == Cardinality(list_pending_inbound)
  <2>1. order \in [1..n -> list_pending_inbound]
        /\ \A p \in list_pending_inbound : \E i \in 1..n : order[i] = p
    BY <1>3 DEF OrNothing, Orders
  <2> QED  BY <1>1, <1>3, <2>1
<1> QED  BY <1>2, <1>3

LEMMA Joined ==
    ASSUME NEW S, NEW u \in Seq(S), NEW v \in Seq(S)
    PROVE  /\ u \o v \in Seq(S) /\ Len(u \o v) = Len(u) + Len(v)
           /\ \A i \in 1..Len(u) : (u \o v)[i] = u[i]
           /\ \A i \in 1..Len(v) : (u \o v)[Len(u) + i] = v[i]
  OBVIOUS

LEMMA Greeting ==
    ASSUME TypeInv, NEW s \in Socks, phase[s] = "open", Authenticate(s)
    PROVE  /\ inbox' \in Seq(Events) /\ Len(inbox') <= MaxInbox + 1 + Cardinality(Peers)
           /\ inbox = <<>> =>
                \E complete, listed \in BOOLEAN :
                    /\ Greets(inbox', complete, listed)
                    /\ crossed' = IF complete
                                  THEN crossed \cap (invitations \cup blockedUsers \cup Uncleared)
                                  ELSE crossed
                    /\ dropped' = IF listed THEN dropped
                                  ELSE dropped \cup (list_pending_inbound \ invitations)
<1> DEFINE a == Event("auth_ok", NoPeer)
           b == Snapshot
<1>0. inbox \in Seq(Events)  BY DEF TypeInv
<1>1. MaxInbox \in Nat /\ Cardinality(Peers) \in Nat  BY WebClientAssumption, PeerCount
<1>3. s # NoSock  BY WebClientAssumption
<1>4. PICK roster \in OrNothing({<<b>>}), order \in OrNothing(Orders(list_pending_inbound)) :
         /\ Deliver(s, (<<a>> \o roster)
                       \o [i \in DOMAIN order |-> Event("contact_request", order[i])])
         /\ crossed' = IF phase[s] = "open" /\ roster # <<>>
                       THEN crossed \cap (invitations \cup blockedUsers \cup Uncleared)
                       ELSE crossed
         /\ dropped' = IF phase[s] = "open" /\ order = <<>>
                       THEN dropped \cup (list_pending_inbound \ invitations) ELSE dropped
  BY DEF Authenticate, Snapshot
<1>5. PICK n \in Nat :
         /\ n <= Cardinality(Peers)
         /\ order \in [1..n -> list_pending_inbound]
         /\ order # <<>> => \A p \in list_pending_inbound : \E i \in 1..n : order[i] = p
         /\ order = <<>> => n = 0
  BY OrderFacts
<1> DEFINE rs == [i \in 1..n |-> Event("contact_request", order[i])]
<1>6. a \in Events /\ b \in Events
  <2>1. list_contact_roster \in Rosters
    BY DEF list_contact_roster, Rosters
  <2> QED  BY <2>1 DEF Events, Snapshot
<1>7. \A i \in 1..n : rs[i] \in Requests /\ rs[i] \in Events
  <2>1. \A i \in 1..n : order[i] \in list_pending_inbound /\ order[i] \in Peers
    BY <1>5 DEF list_pending_inbound
  <2> QED  BY <2>1 DEF Events, Requests
<1>8. rs \in Seq(Events) /\ Len(rs) = n  BY <1>5, <1>7
<1>9. Len(inbox) < MaxInbox /\ inbox' = inbox \o ((<<a>> \o roster) \o rs)
  <2>1. DOMAIN order = 1..n  BY <1>5
  <2> QED  BY <1>3, <1>4, <2>1 DEF Deliver
<1> DEFINE complete == roster # <<>>
           listed == order # <<>>
           h == <<a>> \o roster
<1>10. roster = <<>> \/ roster = <<b>>  BY <1>4 DEF OrNothing
<1> HIDE DEF a, b, rs
<1>11. /\ h \in Seq(Events) /\ Len(h) \in Nat /\ Len(h) <= 2 /\ h[1] = a
       /\ 1 \in 1..Len(h)
       /\ complete => Len(h) = 2 /\ h[2] = b
       /\ ~ complete => Len(h) = 1
  <2>0. <<a>> \in Seq(Events) /\ <<b>> \in Seq(Events) /\ Len(<<a>>) = 1 /\ Len(<<b>>) = 1
        /\ <<a>>[1] = a /\ <<b>>[1] = b
    BY <1>6
  <2>1. CASE roster = <<>>
    <3>1. h = <<a>>  BY <2>0, <2>1
    <3> QED  BY <2>0, <2>1, <3>1
  <2>2. CASE roster = <<b>>
    <3>1. h = <<a>> \o <<b>> /\ complete  BY <2>2
    <3>2. /\ <<a>> \o <<b>> \in Seq(Events) /\ Len(<<a>> \o <<b>>) = 2
          /\ (<<a>> \o <<b>>)[1] = a /\ (<<a>> \o <<b>>)[1 + 1] = b
      <4>1. 1 \in 1..Len(<<a>>) /\ 1 \in 1..Len(<<b>>)  BY <2>0
      <4> QED  BY <2>0, <4>1, Joined
    <3> HIDE DEF h, complete
    <3> QED  BY <3>1, <3>2
  <2> QED  BY <1>10, <2>1, <2>2
<1> DEFINE g == h \o rs
<1> HIDE DEF h, complete, listed
<1>12. /\ g \in Seq(Events) /\ Len(g) = Len(h) + n
       /\ \A i \in 1..Len(h) : g[i] = h[i]
       /\ \A i \in 1..n : g[Len(h) + i] = rs[i]
  BY <1>8, <1>11, Joined
<1>13. inbox' = inbox \o g  BY <1>9 DEF h
<1> HIDE DEF g
<1>14. inbox' \in Seq(Events) /\ Len(inbox') = Len(inbox) + Len(g) /\ Len(inbox) \in Nat
  <2>1. g \in Seq(Events)  BY <1>12
  <2>2. inbox \o g \in Seq(Events) /\ Len(inbox \o g) = Len(inbox) + Len(g)
    BY <1>0, <2>1, Joined
  <2>3. Len(inbox) \in Nat  BY <1>0
  <2> QED  BY <1>13, <2>2, <2>3
<1>15. Len(inbox') <= MaxInbox + 1 + Cardinality(Peers)
  <2>2. Len(g) = Len(h) + n  BY <1>12
  <2>3. Len(inbox) < MaxInbox  BY <1>9
  <2>4. n \in Nat /\ n <= Cardinality(Peers)  BY <1>5
  <2>5. Len(inbox') = Len(inbox) + Len(g) /\ Len(inbox) \in Nat  BY <1>14
  <2>6. Len(inbox') = Len(inbox) + (Len(h) + n)  BY <2>2, <2>5
  <2>7. ASSUME NEW i \in Nat, NEW k \in Nat, NEW l \in Nat, NEW m \in Nat, NEW c \in Nat,
               i < m, k <= 2, l <= c
        PROVE  i + (k + l) <= m + 1 + c
    BY <2>7
  <2>8. Len(h) \in Nat /\ Len(h) <= 2  BY <1>11
  <2> QED  BY <1>1, <2>3, <2>4, <2>5, <2>6, <2>7, <2>8
<1>16. ASSUME inbox = <<>> PROVE Greets(inbox', complete, listed)
  <2>1. inbox' = g  BY <1>12, <1>13, <1>16
  <2>2. ASSUME NEW i \in 1..Len(g)
        PROVE  \/ i = 1 /\ g[i] = a
               \/ complete /\ i = 2 /\ g[i] = b
               \/ g[i] \in Requests
    <3>1. CASE i \in 1..Len(h)  BY <1>11, <1>12, <3>1
    <3>2. CASE i \notin 1..Len(h)
      <4>1. i - Len(h) \in 1..n /\ Len(h) + (i - Len(h)) = i
        BY <1>5, <1>11, <1>12, <3>2
      <4>2. g[i] = rs[i - Len(h)]  BY <1>12, <4>1
      <4> QED  BY <1>7, <4>1, <4>2
    <3> QED  BY <3>1, <3>2
  <2>3. ASSUME listed, NEW p \in list_pending_inbound
        PROVE  \E i \in 1..Len(g) : g[i] = Event("contact_request", p)
    <3>1. PICK k \in 1..n : order[k] = p  BY <1>5, <2>3 DEF listed
    <3>2. Len(h) + k \in 1..Len(g)  BY <1>5, <1>11, <1>12
    <3>3. g[Len(h) + k] = Event("contact_request", p)  BY <1>12, <3>1 DEF rs
    <3> QED  BY <3>2, <3>3
  <2>4. ASSUME complete PROVE 2 \in 1..Len(g) /\ g[2] = b
    <3>1. Len(h) = 2 /\ h[2] = b /\ Len(g) = 2 + n  BY <1>11, <1>12, <2>4
    <3>2. 2 \in 1..Len(h) /\ 2 \in 1..Len(g)  BY <3>1
    <3> QED  BY <1>12, <3>1, <3>2
  <2>5. a # b /\ b \notin Requests  BY DEF a, b, Snapshot, Requests, Event
  <2> QED  BY <1>12, <2>1, <2>2, <2>3, <2>4, <2>5 DEF Greets, a, b
<1>17. /\ complete \in BOOLEAN /\ listed \in BOOLEAN
       /\ crossed' = IF complete THEN crossed \cap (invitations \cup blockedUsers \cup Uncleared)
                     ELSE crossed
       /\ dropped' = IF listed THEN dropped ELSE dropped \cup (list_pending_inbound \ invitations)
  BY <1>4 DEF complete, listed
<1> QED  BY <1>14, <1>15, <1>16, <1>17

(***************************************************************************)
(* The clicks of the user keep the types.                                  *)
(***************************************************************************)
LEMMA ClickTypes ==
    ASSUME TypeInv, NEW name \in CommandNames, NEW p \in Peers \cup {NoPeer}, Click(name, p),
           effect' \in {"off", "fresh", "stale"}, UNCHANGED <<contacts, blockedUsers>>,
           invitations' \subseteq Peers, dropped' \subseteq Peers
    PROVE  TypeInv'
<1>0. outbox \in [Socks -> Seq(Commands)] /\ \A s \in Socks : Len(outbox[s]) <= MaxOutbox
  BY DEF TypeInv, TypeOK
<1>1. outbox' \in [Socks -> Seq(Commands)] /\ \A s \in Socks : Len(outbox'[s]) <= MaxOutbox
  <2>0. MaxOutbox \in Nat  BY WebClientAssumption
  <2>1. CASE ~ CanSend  BY <1>0, <2>1 DEF Click, send
  <2>2. CASE CanSend
    <3>1. wsRef \in Socks  BY <2>2 DEF CanSend, TypeInv, TypeOK
    <3>2. /\ Len(outbox[wsRef]) < MaxOutbox
          /\ outbox' = [outbox EXCEPT ![wsRef] = Append(@, Event(name, p))]
      BY <2>2 DEF Click, send
    <3>3. Event(name, p) \in Commands  BY DEF Commands
    <3>4. /\ Append(outbox[wsRef], Event(name, p)) \in Seq(Commands)
          /\ Len(Append(outbox[wsRef], Event(name, p))) <= MaxOutbox
      BY <1>0, <2>0, <3>1, <3>2, <3>3
    <3> QED  BY <1>0, <3>1, <3>2, <3>4
  <2> QED  BY <2>1, <2>2
<1>2. /\ UNCHANGED <<loggedIn, ws, wsRef, phase, authenticated, inbox, crossed>>
      /\ UNCHANGED <<client, inRow, outRow, blocks, blockers>>
  BY DEF Click, server
<1> QED  BY <1>1, <1>2 DEF TypeInv, TypeOK

LEMMA UserTypes ==
    ASSUME TypeInv, User
    PROVE  TypeInv'
<1>0. /\ effect \in {"off", "fresh", "stale"} /\ dropped \subseteq Peers /\ invitations \subseteq Peers
  BY DEF TypeInv, TypeOK
<1>1. CASE login
  BY <1>1 DEF login, socketVars, channels, stores, server, history, TypeInv, TypeOK
<1>2. CASE cycleStatus
  BY <1>0, <1>2 DEF cycleStatus, NewSessionObject, channels, stores, server, history, TypeInv, TypeOK
<1>3. CASE openBlockedUsers
  BY <1>0, <1>3, ClickTypes DEF openBlockedUsers, stores, CommandNames
<1>4. ASSUME NEW p \in Peers, handleUnblock(p) \/ sendContactRequest(p) \/ BlockUser(p)
      PROVE  TypeInv'
  BY <1>0, <1>4, ClickTypes DEF handleUnblock, sendContactRequest, BlockUser, stores, CommandNames
<1>5. ASSUME NEW p \in Peers, NEW c \in {"accept_contact", "reject_contact", "block_contact"},
             AnswerInvitation(p, c)
      PROVE  TypeInv'
  <2>1. /\ invitations' \subseteq Peers /\ dropped' \subseteq Peers /\ c \in CommandNames
    BY <1>0, <1>5 DEF AnswerInvitation, removePendingInvitation, TakenDown, CommandNames
  <2> QED  BY <1>0, <1>5, <2>1, ClickTypes DEF AnswerInvitation
<1> QED  BY <1>1, <1>2, <1>3, <1>4, <1>5 DEF User

(***************************************************************************)
(* The socket effect and the sockets' own events keep the types.           *)
(***************************************************************************)
LEMMA SocketTypes ==
    ASSUME TypeInv, React \/ Lose \/ UNCHANGED vars
           \/ \E s \in Socks : onopen(s) \/ onclose(s) \/ Reject(s)
    PROVE  TypeInv'
<1>0. /\ phase \in [Socks -> Phases] /\ outbox \in [Socks -> Seq(Commands)]
      /\ \A s \in Socks : Len(outbox[s]) <= MaxOutbox
      /\ dropped \cup crossed \subseteq Peers
  BY DEF TypeInv, TypeOK
<1>1. MaxOutbox \in Nat \ {0} /\ MaxInbox \in Nat /\ Cardinality(Peers) \in Nat
  BY WebClientAssumption, PeerCount
<1>2. Closed \in [Socks -> Phases]  BY <1>0 DEF Closed, Phases
<1>3. ASSUME Cleanup
      PROVE  /\ inbox' \in Seq(Events) /\ Len(inbox') <= MaxInbox + 1 + Cardinality(Peers)
             /\ authenticated' \in BOOLEAN /\ crossed' \subseteq Peers
  <2>1. inbox' = <<>>  BY <1>3 DEF Cleanup
  <2>2. inbox' \in Seq(Events) /\ Len(inbox') = 0  BY <2>1
  <2>3. authenticated' \in BOOLEAN /\ crossed' \subseteq Peers  BY <1>0, <1>3 DEF Cleanup
  <2> QED  BY <1>1, <2>2, <2>3
<1>4. CASE Unmount
  <2>1. /\ phase' \in [Socks -> Phases] /\ effect' = "off" /\ ws' = NoSock /\ wsRef' = NoSock
        /\ UNCHANGED <<loggedIn, outbox, contacts, invitations, blockedUsers>>
        /\ UNCHANGED <<client, inRow, outRow, blocks, blockers, dropped>>
    BY <1>2, <1>4 DEF Unmount, stores, server
  <2> QED  BY <1>3, <1>4, <2>1 DEF Unmount, TypeInv, TypeOK
<1>5. ASSUME NEW s \in Socks, RunEffect(s) PROVE TypeInv'
  <2>1. /\ phase' \in [Socks -> Phases] /\ effect' = "fresh" /\ ws' = s /\ wsRef' = s
        /\ UNCHANGED <<loggedIn, outbox, contacts, invitations, blockedUsers>>
        /\ UNCHANGED <<client, inRow, outRow, blocks, blockers, dropped>>
    BY <1>2, <1>5 DEF RunEffect, stores, server, Phases
  <2> QED  BY <1>3, <1>5, <2>1 DEF RunEffect, TypeInv, TypeOK
<1>6. CASE Lose
  <2>1. /\ phase' \in [Socks -> Phases]
        /\ UNCHANGED <<loggedIn, effect, ws, wsRef, outbox, contacts, invitations, blockedUsers>>
        /\ UNCHANGED <<client, inRow, outRow, blocks, blockers, dropped>>
    BY <1>2, <1>6 DEF Lose, stores, server
  <2> QED  BY <1>3, <1>6, <2>1 DEF Lose, TypeInv, TypeOK
<1>7. ASSUME NEW s \in Socks, onopen(s) PROVE TypeInv'
  <2>1. /\ phase' \in [Socks -> Phases]
        /\ UNCHANGED <<loggedIn, effect, ws, wsRef, authenticated, inbox>>
        /\ UNCHANGED <<contacts, invitations, blockedUsers>>
        /\ UNCHANGED <<client, inRow, outRow, blocks, blockers, dropped, crossed>>
    BY <1>0, <1>7 DEF onopen, stores, server, history, Phases
  <2>2. outbox' = [outbox EXCEPT ![s] = <<Event("auth", NoPeer)>>]  BY <1>7 DEF onopen
  <2>3. Event("auth", NoPeer) \in Commands  BY DEF Commands, CommandNames
  <2>4. <<Event("auth", NoPeer)>> \in Seq(Commands) /\ Len(<<Event("auth", NoPeer)>>) = 1
    BY <2>3
  <2>5. outbox' \in [Socks -> Seq(Commands)] /\ \A t \in Socks : Len(outbox'[t]) <= MaxOutbox
    BY <1>0, <1>1, <2>2, <2>4
  <2> QED  BY <2>1, <2>5 DEF TypeInv, TypeOK
<1>8. ASSUME NEW s \in Socks, onclose(s) PROVE TypeInv'
  <2>1. /\ phase' \in [Socks -> Phases] /\ wsRef' = NoSock
        /\ UNCHANGED <<ws, authenticated, inbox, contacts, invitations, blockedUsers>>
        /\ UNCHANGED <<inRow, outRow, blocks, blockers, dropped, crossed>>
    BY <1>0, <1>8 DEF onclose, stores, history, Phases
  <2>2. client' \in Socks \cup {NoSock} /\ loggedIn' \in BOOLEAN /\ effect' \in {"off", "fresh", "stale"}
    BY <1>8 DEF onclose, TypeInv, TypeOK
  <2>3. outbox' \in [Socks -> Seq(Commands)] /\ \A t \in Socks : Len(outbox'[t]) <= MaxOutbox
    <3>1. outbox' = [outbox EXCEPT ![s] = <<>>]  BY <1>8 DEF onclose
    <3>2. <<>> \in Seq(Commands) /\ Len(<<>>) = 0  OBVIOUS
    <3> QED  BY <1>0, <1>1, <3>1, <3>2
  <2> QED  BY <2>1, <2>2, <2>3 DEF TypeInv, TypeOK
<1>9. ASSUME NEW s \in Socks, Reject(s) PROVE TypeInv'
  <2>1. /\ phase' \in [Socks -> Phases]
        /\ UNCHANGED <<loggedIn, effect, ws, wsRef, authenticated, inbox>>
        /\ UNCHANGED <<contacts, invitations, blockedUsers>>
        /\ UNCHANGED <<client, inRow, outRow, blocks, blockers, dropped, crossed>>
    BY <1>0, <1>9 DEF Reject, Take, stores, server, history, Phases
  <2>2. outbox[s] # <<>> /\ outbox' = [outbox EXCEPT ![s] = Tail(@)]  BY <1>9 DEF Reject, Take
  <2>3. Tail(outbox[s]) \in Seq(Commands) /\ Len(Tail(outbox[s])) <= MaxOutbox
    BY <1>0, <1>1, <2>2
  <2>4. outbox' \in [Socks -> Seq(Commands)] /\ \A t \in Socks : Len(outbox'[t]) <= MaxOutbox
    BY <1>0, <2>2, <2>3
  <2> QED  BY <2>1, <2>4 DEF TypeInv, TypeOK
<1>10. CASE UNCHANGED vars
  BY <1>10 DEF vars, socketVars, channels, stores, server, history, TypeInv, TypeOK
<1> QED  BY <1>4, <1>5, <1>6, <1>7, <1>8, <1>9, <1>10 DEF React

(***************************************************************************)
(* The server takes a command: what it may answer, and what it changes.    *)
(***************************************************************************)
LEMMA TakeTypes ==
    ASSUME TypeInv, NEW s \in Socks, NEW name, NEW p, Take(s, name, p), phase' = phase,
           inbox' \in Seq(Events), Len(inbox') <= MaxInbox + 1 + Cardinality(Peers),
           client' \in Socks \cup {NoSock}, inRow' \in [Peers -> Rows], outRow' \in [Peers -> Rows],
           blocks' \subseteq Peers, crossed' \subseteq Peers, dropped' \subseteq Peers
    PROVE  TypeInv'
<1>0. /\ outbox \in [Socks -> Seq(Commands)] /\ \A t \in Socks : Len(outbox[t]) <= MaxOutbox
  BY DEF TypeInv, TypeOK
<1>1. MaxOutbox \in Nat  BY WebClientAssumption
<1>2. outbox[s] # <<>> /\ outbox' = [outbox EXCEPT ![s] = Tail(@)]  BY DEF Take
<1>3. Tail(outbox[s]) \in Seq(Commands) /\ Len(Tail(outbox[s])) <= MaxOutbox
  BY <1>0, <1>1, <1>2
<1>4. outbox' \in [Socks -> Seq(Commands)] /\ \A t \in Socks : Len(outbox'[t]) <= MaxOutbox
  BY <1>0, <1>2, <1>3
<1>5. UNCHANGED <<loggedIn, effect, ws, wsRef, authenticated, contacts, invitations, blockedUsers, blockers>>
  BY DEF Take, stores
<1>6. /\ invitations' \cup blockedUsers' \cup blocks' \cup blockers' \subseteq Peers
      /\ dropped' \cup crossed' \subseteq Peers
  BY <1>5 DEF TypeInv, TypeOK
<1> QED  BY <1>4, <1>5, <1>6 DEF TypeInv, TypeOK

(***************************************************************************)
(* What every command of the server changes: its rows, its blocks, an      *)
(* answer to its own connection.                                           *)
(***************************************************************************)
LEMMA ServeFacts ==
    ASSUME TypeInv, NEW s \in Socks, Serve(s)
    PROVE  TypeInv' /\ phase' = phase /\ \E name, p : Take(s, name, p)
<1>0. /\ inbox \in Seq(Events) /\ Len(inbox) <= MaxInbox + 1 + Cardinality(Peers)
      /\ client \in Socks \cup {NoSock} /\ inRow \in [Peers -> Rows] /\ outRow \in [Peers -> Rows]
      /\ blocks \subseteq Peers /\ crossed \subseteq Peers /\ dropped \subseteq Peers /\ s # NoSock
  BY WebClientAssumption DEF TypeInv, TypeOK
<1> DEFINE InboxOK == inbox' \in Seq(Events) /\ Len(inbox') <= MaxInbox + 1 + Cardinality(Peers)
<1>1. ASSUME NEW p \in Peers, Clear(p)
      PROVE  inRow' \in [Peers -> Rows] /\ outRow' \in [Peers -> Rows] /\ dropped' \subseteq Peers
  BY <1>0, <1>1 DEF Clear, Withdrawn, Rows
<1>2. ASSUME NEW p \in Peers, NEW n \in Answers, Deliver(s, <<Event(n, p)>>)
      PROVE  InboxOK
  <2>1. Event(n, p) \in Events  BY DEF Events
  <2> QED  BY <1>0, <1>2, <2>1, Delivered
<1>3. ASSUME NEW p \in Peers, NEW n \in Answers, Reply(s, Event(n, p))
      PROVE  InboxOK /\ crossed' \subseteq Peers
  <2>1. Event(n, p).about = p  BY EventFields
  <2> QED  BY <1>0, <1>2, <1>3, <2>1 DEF Reply
<1>c. ASSUME NEW p \in Peers, crossed' = crossed \/ Untold(p) PROVE crossed' \subseteq Peers
  BY <1>0, <1>c DEF Untold
<1>r. ASSUME Refused
      PROVE  /\ InboxOK /\ crossed' \subseteq Peers
             /\ inRow' \in [Peers -> Rows] /\ outRow' \in [Peers -> Rows] /\ blocks' \subseteq Peers
  BY <1>0, <1>r DEF Refused
<1>d. ASSUME NEW p \in Peers, RefusedAnswer(p)
      PROVE  Refused /\ dropped' \subseteq Peers
  BY <1>0, <1>d DEF RefusedAnswer, TakenDown
<1>4. CASE Authenticate(s)
  <2>1. /\ Take(s, "auth", NoPeer) /\ phase' = phase /\ client' = s
        /\ UNCHANGED <<inRow, outRow, blocks>> /\ crossed' \subseteq crossed
        /\ dropped' \subseteq dropped \cup list_pending_inbound
    BY <1>4 DEF Authenticate
  <2>2. InboxOK
    <3>1. CASE phase[s] = "open"  BY <1>4, <3>1, Greeting
    <3>2. CASE phase[s] # "open"  BY <1>0, <1>4, <3>2 DEF Authenticate, Deliver
    <3> QED  BY <3>1, <3>2
  <2>3. dropped' \subseteq Peers  BY <1>0, <2>1 DEF list_pending_inbound
  <2> QED  BY <1>0, <2>1, <2>2, <2>3, TakeTypes
<1>5. CASE list_blocked(s)
  <2>1. /\ Take(s, "list_blocked", NoPeer) /\ phase' = phase
        /\ UNCHANGED <<client, inRow, outRow, blocks, dropped>>
    BY <1>5 DEF list_blocked
  <2>2. Event("blocked_list", blocks) \in Events  BY <1>0 DEF Events
  <2>3. Event("blocked_list", blocks).event \notin Answers  BY EventFields DEF Answers
  <2>4. ASSUME Reply(s, Event("blocked_list", blocks)) PROVE InboxOK /\ crossed' = crossed
    BY <2>2, <2>3, <2>4, Delivered DEF Reply
  <2>5. InboxOK /\ crossed' = crossed  BY <1>5, <1>r, <2>4 DEF list_blocked, Refused
  <2> QED  BY <1>0, <2>1, <2>5, TakeTypes
<1>7. ASSUME NEW p \in Peers, accept_contact(s, p) PROVE TypeInv' /\ phase' = phase /\ \E n, a : Take(s, n, a)
  <2>1. Take(s, "accept_contact", p) /\ UNCHANGED <<phase, client>>  BY <1>7 DEF accept_contact
  <2>2. CASE RefusedAnswer(p)  BY <1>0, <1>d, <1>r, <2>1, <2>2, TakeTypes
  <2>3. CASE ~ RefusedAnswer(p)
    <3>1. /\ inRow' \in [Peers -> Rows] /\ UNCHANGED <<outRow, blocks>> /\ dropped' = dropped \ {p}
          /\ \/ Reply(s, Event("contact_accepted", p))
             \/ Untold(p) /\ inbox' = inbox
      BY <1>0, <1>7, <2>3 DEF accept_contact, Rows
    <3>2. InboxOK /\ crossed' \subseteq Peers  BY <1>0, <1>3, <1>c, <3>1 DEF Answers
    <3> QED  BY <1>0, <2>1, <3>1, <3>2, TakeTypes
  <2> QED  BY <2>2, <2>3
<1>8. ASSUME NEW p \in Peers, reject_contact(s, p) PROVE TypeInv' /\ phase' = phase /\ \E n, a : Take(s, n, a)
  <2>1. Take(s, "reject_contact", p) /\ UNCHANGED <<phase, client>>  BY <1>8 DEF reject_contact
  <2>2. CASE RefusedAnswer(p)  BY <1>0, <1>d, <1>r, <2>1, <2>2, TakeTypes
  <2>3. CASE ~ RefusedAnswer(p)
    <3>1. /\ inRow' \in [Peers -> Rows] /\ UNCHANGED <<outRow, blocks>> /\ dropped' = dropped \ {p}
          /\ Reply(s, Event("contact_request_rejected", p))
      BY <1>0, <1>8, <2>3 DEF reject_contact, Rows
    <3>2. InboxOK /\ crossed' \subseteq Peers  BY <1>3, <3>1 DEF Answers
    <3> QED  BY <1>0, <2>1, <3>1, <3>2, TakeTypes
  <2> QED  BY <2>2, <2>3
<1>9. ASSUME NEW p \in Peers, block_contact(s, p) PROVE TypeInv' /\ phase' = phase /\ \E n, a : Take(s, n, a)
  <2>1. Take(s, "block_contact", p) /\ UNCHANGED <<phase, client>>  BY <1>9 DEF block_contact
  <2>2. CASE RefusedAnswer(p)  BY <1>0, <1>d, <1>r, <2>1, <2>2, TakeTypes
  <2>3. CASE ~ RefusedAnswer(p)
    <3>1. /\ Clear(p) /\ blocks' = blocks \cup {p}
          /\ Deliver(s, <<Event("contact_blocked", p)>>) /\ (crossed' = crossed \/ Untold(p))
      BY <1>9, <2>3 DEF block_contact
    <3>2. InboxOK  BY <1>2, <3>1 DEF Answers
    <3>3. blocks' \subseteq Peers  BY <1>0, <3>1
    <3> QED  BY <1>0, <1>1, <1>c, <2>1, <3>1, <3>2, <3>3, TakeTypes
  <2> QED  BY <2>2, <2>3
<1>10. ASSUME NEW p \in Peers, block_user(s, p) PROVE TypeInv' /\ phase' = phase /\ \E n, a : Take(s, n, a)
  <2>1. Take(s, "block_user", p) /\ UNCHANGED <<phase, client>>  BY <1>10 DEF block_user
  <2>2. CASE Refused /\ UNCHANGED dropped  BY <1>0, <1>r, <2>1, <2>2, TakeTypes
  <2>3. CASE ~ (Refused /\ UNCHANGED dropped)
    <3>1. /\ Clear(p) /\ blocks' = blocks \cup {p}
          /\ Deliver(s, <<Event("user_blocked", p)>>) /\ (crossed' = crossed \/ Untold(p))
      BY <1>10, <2>3 DEF block_user
    <3>2. InboxOK  BY <1>2, <3>1 DEF Answers
    <3>3. blocks' \subseteq Peers  BY <1>0, <3>1
    <3> QED  BY <1>0, <1>1, <1>c, <2>1, <3>1, <3>2, <3>3, TakeTypes
  <2> QED  BY <2>2, <2>3
<1>11. ASSUME NEW p \in Peers, unblock_contact(s, p) PROVE TypeInv' /\ phase' = phase /\ \E n, a : Take(s, n, a)
  <2>1. Take(s, "unblock_contact", p) /\ UNCHANGED <<phase, client, dropped>>  BY <1>11 DEF unblock_contact
  <2>2. CASE Refused  BY <1>0, <1>r, <2>1, <2>2, TakeTypes
  <2>3. CASE ~ Refused
    <3>1. /\ UNCHANGED <<inRow, outRow>> /\ blocks' \subseteq Peers
          /\ Reply(s, Event("contact_unblocked", p))
      BY <1>0, <1>11, <2>3 DEF unblock_contact
    <3> QED  BY <1>0, <1>3, <2>1, <3>1, TakeTypes DEF Answers
  <2> QED  BY <2>2, <2>3
<1>12. ASSUME NEW p \in Peers, add_contact(s, p) PROVE TypeInv' /\ phase' = phase /\ \E n, a : Take(s, n, a)
  <2>1. Take(s, "add_contact", p) /\ UNCHANGED <<phase, client, dropped>>  BY <1>12 DEF add_contact
  <2>2. CASE Refused  BY <1>0, <1>r, <2>1, <2>2, TakeTypes
  <2>3. CASE ~ Refused
    <3>1. /\ UNCHANGED <<inRow, blocks>> /\ outRow' \in [Peers -> Rows]
          /\ Reply(s, Event("contact_request_sent", p))
      BY <1>0, <1>12, <2>3 DEF add_contact, Rows
    <3> QED  BY <1>0, <1>3, <2>1, <3>1, TakeTypes DEF Answers
  <2> QED  BY <2>2, <2>3
<1> QED
  BY <1>4, <1>5, <1>7, <1>8, <1>9, <1>10, <1>11, <1>12
  DEF Serve, Authenticate, list_blocked

(***************************************************************************)
(* What other users do keeps the types.                                    *)
(***************************************************************************)
LEMMA OthersTypes ==
    ASSUME TypeInv, Others
    PROVE  TypeInv'
<1>0. /\ client \in Socks \cup {NoSock} /\ inRow \in [Peers -> Rows] /\ outRow \in [Peers -> Rows]
      /\ inbox \in Seq(Events) /\ Len(inbox) <= MaxInbox + 1 + Cardinality(Peers)
      /\ crossed \subseteq Peers /\ blockers \subseteq Peers /\ dropped \subseteq Peers
  BY DEF TypeInv, TypeOK
<1>1. PICK p \in Peers : \/ PeerRequests(p) \/ PeerAccepts(p) \/ PeerRejects(p)
                         \/ PeerBlocks(p) \/ PeerUnblocks(p)
  BY DEF Others
<1>2. Event("contact_request", p) \in Events /\ Event("contact_accepted", p) \in Events
  BY DEF Events, Answers
<1>3. inbox' \in Seq(Events) /\ Len(inbox') <= MaxInbox + 1 + Cardinality(Peers)
  BY <1>0, <1>1, <1>2, Delivered
  DEF PeerRequests, PeerAccepts, PeerRejects, PeerBlocks, PeerUnblocks, channels
<1>4. inRow' \in [Peers -> Rows] /\ outRow' \in [Peers -> Rows]
  BY <1>0, <1>1
  DEF PeerRequests, PeerAccepts, PeerRejects, PeerBlocks, PeerUnblocks, Clear, Withdrawn, Rows
<1>5. crossed' \subseteq Peers /\ blockers' \subseteq Peers
  BY <1>0, <1>1
  DEF PeerRequests, PeerAccepts, PeerRejects, PeerBlocks, PeerUnblocks, Untold, history
<1>6. /\ UNCHANGED <<loggedIn, effect, ws, wsRef, phase, authenticated, outbox>>
      /\ UNCHANGED <<contacts, invitations, blockedUsers, client, blocks>>
  BY <1>1 DEF PeerRequests, PeerAccepts, PeerRejects, PeerBlocks, PeerUnblocks, socketVars,
              stores, history, channels
<1>7. dropped' \subseteq Peers
  BY <1>0, <1>1
  DEF PeerRequests, PeerAccepts, PeerRejects, PeerBlocks, PeerUnblocks, Clear, history
<1> QED  BY <1>3, <1>4, <1>5, <1>6, <1>7 DEF TypeInv, TypeOK

(***************************************************************************)
(* The handlers of ws.onmessage keep the types.                            *)
(***************************************************************************)
LEMMA HandleTypes ==
    ASSUME TypeInv, NEW name, NEW about, Handle(name, about),
           effect' \in {"off", "fresh", "stale"}, authenticated' \in BOOLEAN,
           contacts' \in Rosters, invitations' \cup blockedUsers' \subseteq Peers,
           dropped' \subseteq Peers
    PROVE  TypeInv'
<1>0. /\ inbox \in Seq(Events) /\ Len(inbox) <= MaxInbox + 1 + Cardinality(Peers)
      /\ MaxInbox \in Nat /\ Cardinality(Peers) \in Nat
  BY WebClientAssumption, PeerCount DEF TypeInv, TypeOK
<1>1. inbox # <<>> /\ inbox' = Tail(inbox)  BY DEF Handle
<1>2. inbox' \in Seq(Events) /\ Len(inbox') <= MaxInbox + 1 + Cardinality(Peers)
  BY <1>0, <1>1
<1>3. UNCHANGED <<loggedIn, ws, wsRef, phase, outbox, client, inRow, outRow, blocks, blockers, crossed>>
  BY DEF Handle, server
<1>4. /\ invitations' \cup blockedUsers' \cup blocks' \cup blockers' \subseteq Peers
      /\ dropped' \cup crossed' \subseteq Peers
      /\ contacts' \subseteq Peers \X {"accepted", "pending_outbound"}
  BY <1>3 DEF TypeInv, TypeOK, Rosters
<1> QED  BY <1>2, <1>3, <1>4 DEF TypeInv, TypeOK

(***************************************************************************)
(* The event at the head of the inbox is what the server put there.        *)
(***************************************************************************)
LEMMA HandledEvent ==
    ASSUME TypeInv, NEW name, NEW about, Handle(name, about)
    PROVE  /\ inbox # <<>> /\ inbox \in Seq(Events) /\ Head(inbox) = Event(name, about)
           /\ inbox' = Tail(inbox)
           /\ name = "contacts_snapshot" => about \in Rosters
           /\ name = "blocked_list" => about \subseteq Peers
<1>1. inbox # <<>> /\ inbox \in Seq(Events) /\ Head(inbox) = Event(name, about) /\ inbox' = Tail(inbox)
  BY DEF Handle, TypeInv
<1>2. Event(name, about) \in Events  BY <1>1
<1>3. PICK e \in Events : e.event = name /\ e.about = about  BY <1>2, EventFields
<1>4. /\ name = "contacts_snapshot" => about \in Rosters
      /\ name = "blocked_list" => about \subseteq Peers
  BY <1>3, EventFields DEF Events, Answers
<1> QED  BY <1>1, <1>4

LEMMA MessageTypes ==
    ASSUME TypeInv, onmessage
    PROVE  TypeInv'
<1>0. /\ effect \in {"off", "fresh", "stale"} /\ authenticated \in BOOLEAN /\ contacts \in Rosters
      /\ invitations \subseteq Peers /\ blockedUsers \subseteq Peers /\ dropped \subseteq Peers
  BY DEF TypeInv, TypeOK, Rosters
<1>1. \A p : removeContact(p) \in Rosters  BY <1>0 DEF removeContact, Rosters
<1>2. CASE OnAuthOk
  BY <1>0, <1>2, HandleTypes DEF OnAuthOk, NewSessionObject, stores
<1>3. ASSUME NEW p \in Peers, OnContactRequest(p) \/ OnRequestRejected(p) \/ OnUnblocked(p)
      PROVE  TypeInv'
  <2>1. /\ UNCHANGED <<effect, authenticated, contacts>>
        /\ invitations' \subseteq Peers /\ blockedUsers' \subseteq Peers /\ dropped' \subseteq Peers
    BY <1>0, <1>3
    DEF OnContactRequest, OnRequestRejected, OnUnblocked, upsertPendingInvitation,
        removePendingInvitation, removeBlockedUser
  <2> QED  BY <1>0, <1>3, <2>1, HandleTypes DEF OnContactRequest, OnRequestRejected, OnUnblocked
<1>4. ASSUME NEW p \in Peers, OnContactAccepted(p) \/ OnRequestSent(p) PROVE TypeInv'
  <2>1. \A t \in {"accepted", "pending_outbound"} : addAcceptedContact(p, t) \in Rosters
    BY <1>1 DEF addAcceptedContact, Rosters
  <2>2. /\ UNCHANGED <<effect, authenticated>> /\ contacts' \in Rosters
        /\ invitations' \subseteq Peers /\ blockedUsers' \subseteq Peers /\ dropped' \subseteq Peers
    BY <1>0, <1>4, <2>1 DEF OnContactAccepted, OnRequestSent, clearPendingFromUser, TakenDown
  <2> QED  BY <1>0, <1>4, <2>2, HandleTypes DEF OnContactAccepted, OnRequestSent
<1>5. ASSUME NEW p \in Peers, NEW n, OnBlocked(p, n) PROVE TypeInv'
  <2>1. /\ UNCHANGED <<effect, authenticated>> /\ contacts' \in Rosters /\ dropped' \subseteq Peers
        /\ invitations' \subseteq Peers /\ blockedUsers' \subseteq Peers
    BY <1>0, <1>1, <1>5 DEF OnBlocked, removePendingInvitation, upsertBlockedUser, TakenDown
  <2> QED  BY <1>0, <1>5, <2>1, HandleTypes DEF OnBlocked
<1>6. ASSUME NEW r, OnSnapshot(r) PROVE TypeInv'
  <2>1. r \in Rosters  BY <1>6, HandledEvent DEF OnSnapshot
  <2> QED  BY <1>0, <1>6, <2>1, HandleTypes DEF OnSnapshot
<1>7. ASSUME NEW u, OnBlockedList(u) PROVE TypeInv'
  <2>1. u \subseteq Peers  BY <1>7, HandledEvent DEF OnBlockedList
  <2> QED  BY <1>0, <1>7, <2>1, HandleTypes DEF OnBlockedList
<1> QED  BY <1>2, <1>3, <1>4, <1>5, <1>6, <1>7 DEF onmessage

LEMMA TypeStep ==
    ASSUME TypeInv, [Next]_vars
    PROVE  TypeInv'
  BY UserTypes, SocketTypes, ServeFacts, OthersTypes, MessageTypes DEF Next, Socket

LEMMA TypeInit == Init => TypeInv
<1> SUFFICES ASSUME Init PROVE TypeInv  OBVIOUS
<1>1. MaxInbox \in Nat /\ MaxOutbox \in Nat /\ Cardinality(Peers) \in Nat
  BY WebClientAssumption, PeerCount
<1>2. inbox \in Seq(Events) /\ Len(inbox) = 0  BY DEF Init
<1>3. outbox \in [Socks -> Seq(Commands)] /\ \A s \in Socks : Len(outbox[s]) = 0  BY DEF Init
<1>4. /\ Len(inbox) <= MaxInbox + 1 + Cardinality(Peers)
      /\ \A s \in Socks : Len(outbox[s]) <= MaxOutbox
  BY <1>1, <1>2, <1>3
<1>5. /\ phase \in [Socks -> Phases] /\ inRow \in [Peers -> Rows] /\ outRow \in [Peers -> Rows]
  BY DEF Init, Phases, Rows
<1>6. TypeOK  BY <1>4, <1>5 DEF Init, TypeOK
<1> QED  BY <1>2, <1>3, <1>6 DEF TypeInv

(***************************************************************************)
(* The stores of the tab and the rows of the server keep their types, and  *)
(* the queues their bounds: a reconnection adds at most one event for each *)
(* peer to what the tab has not read.                                      *)
(***************************************************************************)
THEOREM TabTypeCorrect == Spec => []TypeOK
<1>1. TypeInv => TypeOK  BY DEF TypeInv
<1> QED  BY <1>1, TypeInit, TypeStep, PTL DEF Spec

-----------------------------------------------------------------------------
(* Connections.                                                            *)

(***************************************************************************)
(* The server has the tab's own, open socket.                              *)
(***************************************************************************)
Connected == ws # NoSock /\ client = ws /\ phase[ws] = "open"

(***************************************************************************)
(* Only the socket of the running effect is connecting or open.            *)
(***************************************************************************)
OneOpen == \A s \in Socks : phase[s] \in {"connecting", "open"} => s = ws

(***************************************************************************)
(* A socket that is not open yet is unknown to the server.                 *)
(***************************************************************************)
NotYetKnown ==
    \A s \in Socks :
        /\ phase[s] = "connecting" => inbox = <<>>
        /\ phase[s] \in {"free", "connecting"} => client # s

(***************************************************************************)
(* The token is the first command of a connection, and nothing has come    *)
(* in on it before the token is taken.                                     *)
(***************************************************************************)
AuthFirst ==
    \A s \in Socks : phase[s] = "open" =>
        \A i \in 1..Len(outbox[s]) :
            outbox[s][i].event = "auth" => i = 1 /\ inbox = <<>> /\ client # s

(***************************************************************************)
(* A request that is pending between the user and somebody blocked is one  *)
(* that the block could not clear.                                         *)
(***************************************************************************)
UnclearedKnown == Uncleared \subseteq crossed

WireInv == SendsOnCurrentSocket /\ OneOpen /\ NotYetKnown /\ AuthFirst /\ UnclearedKnown

(***************************************************************************)
(* An open socket other than the one whose command is served does not      *)
(* exist; a token that is still to be taken keeps the inbox empty.         *)
(***************************************************************************)
LEMMA WireServe ==
    ASSUME TypeInv, WireInv, NEW s \in Socks, Serve(s)
    PROVE  WireInv'
<1>0. phase' = phase /\ UNCHANGED <<ws, wsRef, effect>> /\ outbox[s] # <<>>
      /\ outbox' = [outbox EXCEPT ![s] = Tail(@)] /\ phase[s] \in {"open", "closing"}
  BY ServeFacts DEF Take
<1>1. SendsOnCurrentSocket' /\ OneOpen'  BY <1>0 DEF WireInv, SendsOnCurrentSocket, OneOpen
<1>2. client' = client \/ (client' = s /\ Head(outbox[s]) = Event("auth", NoPeer))
  BY DEF Serve, Authenticate, list_blocked, accept_contact, reject_contact,
         block_contact, block_user, unblock_contact, add_contact, Take
<1>3. phase[s] = "open" \/ inbox' = inbox
  BY WebClientAssumption
  DEF Serve, Authenticate, list_blocked, accept_contact, reject_contact,
      block_contact, block_user, unblock_contact, add_contact, Reply, Refused, RefusedAnswer,
      Deliver
<1>4. NotYetKnown'
  <2>1. ASSUME NEW t \in Socks, phase[t] = "connecting" PROVE inbox' = <<>>
    BY <1>3, <2>1 DEF WireInv, OneOpen, NotYetKnown
  <2>2. ASSUME NEW t \in Socks, phase[t] \in {"free", "connecting"} PROVE client' # t
    BY <1>0, <1>2, <2>2 DEF WireInv, NotYetKnown
  <2> QED  BY <1>0, <2>1, <2>2 DEF NotYetKnown
<1>5. AuthFirst'
  <2> SUFFICES ASSUME NEW t \in Socks, phase[t] = "open", NEW i \in 1..Len(outbox'[t]),
                      outbox'[t][i].event = "auth"
               PROVE  i = 1 /\ inbox' = <<>> /\ client' # t
    BY <1>0 DEF AuthFirst
  <2>0. outbox \in [Socks -> Seq(Commands)]  BY DEF TypeInv
  <2>1. CASE t = s
    <3>1. outbox'[t] = Tail(outbox[t]) /\ outbox[t] \in Seq(Commands) /\ outbox[t] # <<>>
      BY <1>0, <2>0, <2>1
    <3>2. i + 1 \in 1..Len(outbox[t]) /\ i + 1 # 1 /\ outbox'[t][i] = outbox[t][i + 1]
      BY <3>1
    <3> QED  BY <3>2 DEF WireInv, AuthFirst
  <2>2. CASE t # s
    <3>1. outbox'[t] = outbox[t]  BY <1>0, <2>0, <2>2
    <3>2. i = 1 /\ inbox = <<>> /\ client # t  BY <3>1 DEF WireInv, AuthFirst
    <3>3. phase[s] # "open"  BY <2>2 DEF WireInv, OneOpen
    <3> QED  BY <1>2, <1>3, <2>2, <3>2, <3>3
  <2> QED  BY <2>1, <2>2
<1>6. UnclearedKnown'
  <2>0. /\ inRow \in [Peers -> Rows] /\ outRow \in [Peers -> Rows] /\ blocks \subseteq Peers
        /\ Uncleared \subseteq crossed
    BY DEF TypeInv, TypeOK, WireInv, UnclearedKnown
  <2>1. ASSUME UNCHANGED <<inRow, outRow, blocks>>, Uncleared \subseteq crossed'
        PROVE  UnclearedKnown'
    BY <2>1 DEF UnclearedKnown, Uncleared
  <2>r. ASSUME Refused PROVE UnclearedKnown'  BY <2>0, <2>1, <2>r DEF Refused
  <2>2. CASE Authenticate(s)
    <3>1. UNCHANGED <<inRow, outRow, blocks>>  BY <2>2 DEF Authenticate
    <3>2. crossed' = crossed \/ crossed' = crossed \cap (invitations \cup blockedUsers \cup Uncleared)
      BY <2>2 DEF Authenticate
    <3> QED  BY <2>0, <2>1, <3>1, <3>2
  <2>3. CASE list_blocked(s)
    <3>1. UNCHANGED <<inRow, outRow, blocks>> /\ crossed \subseteq crossed'
      BY <2>3 DEF list_blocked, Reply, Refused
    <3> QED  BY <2>0, <2>1, <3>1
  <2>4. ASSUME NEW p \in Peers, crossed \subseteq crossed', blocks' \subseteq blocks,
               \A q \in Peers : /\ inRow'[q] = "pending" => inRow[q] = "pending"
                                /\ outRow'[q] = "pending" => outRow[q] = "pending" \/ q \notin blocks
        PROVE  UnclearedKnown'
    <3> SUFFICES ASSUME NEW q \in Uncleared' PROVE q \in crossed'
      BY DEF UnclearedKnown
    <3>1. q \in blocks' /\ (inRow'[q] = "pending" \/ outRow'[q] = "pending")  BY DEF Uncleared
    <3>2. q \in Peers /\ q \in blocks  BY <2>0, <2>4, <3>1
    <3>3. q \in Uncleared  BY <2>4, <3>1, <3>2 DEF Uncleared
    <3> QED  BY <2>0, <2>4, <3>3
  <2>5. ASSUME NEW p \in Peers, Reply(s, Event("contact_accepted", p))
               \/ Reply(s, Event("contact_request_rejected", p)) \/ Untold(p)
               \/ Reply(s, Event("contact_unblocked", p)) \/ Reply(s, Event("contact_request_sent", p))
        PROVE  crossed \subseteq crossed'
    BY <2>5 DEF Reply, Untold
  <2>6. ASSUME NEW p \in Peers, accept_contact(s, p) \/ reject_contact(s, p) PROVE UnclearedKnown'
    <3>1. CASE Refused  BY <2>r, <3>1
    <3>2. CASE ~ Refused
      <4>1. /\ crossed \subseteq crossed' /\ UNCHANGED <<outRow, blocks>>
            /\ \E v \in {"accepted", "none"} : inRow' = [inRow EXCEPT ![p] = v]
        BY <2>5, <2>6, <3>2 DEF accept_contact, reject_contact, RefusedAnswer
      <4>2. \A q \in Peers : inRow'[q] = "pending" => inRow[q] = "pending"  BY <2>0, <4>1
      <4> QED  BY <2>4, <4>1, <4>2
    <3> QED  BY <3>1, <3>2
  <2>7. ASSUME NEW p \in Peers, block_contact(s, p) \/ block_user(s, p) PROVE UnclearedKnown'
    <3>1. CASE Refused  BY <2>r, <3>1
    <3>2. CASE ~ Refused
      <4>1. /\ blocks' = blocks \cup {p} /\ Clear(p)
            /\ crossed \subseteq crossed' /\ (p \in Uncleared' => p \in crossed')
        BY <2>7, <3>2 DEF block_contact, block_user, RefusedAnswer, Untold
      <4>2. ASSUME NEW q \in Peers, q # p PROVE inRow'[q] = inRow[q] /\ outRow'[q] = outRow[q]
        BY <2>0, <4>1, <4>2 DEF Clear, Withdrawn
      <4>3. ASSUME NEW q \in Uncleared', q # p PROVE q \in Uncleared
        <5>1. q \in blocks /\ q \in Peers  BY <2>0, <4>1, <4>3 DEF Uncleared
        <5> QED  BY <4>2, <4>3, <5>1 DEF Uncleared
      <4> QED  BY <2>0, <4>1, <4>3 DEF UnclearedKnown
    <3> QED  BY <3>1, <3>2
  <2>8. ASSUME NEW p \in Peers, unblock_contact(s, p) PROVE UnclearedKnown'
    <3>1. CASE Refused  BY <2>r, <3>1
    <3>2. CASE ~ Refused
      <4>1. crossed \subseteq crossed' /\ blocks' \subseteq blocks /\ UNCHANGED <<inRow, outRow>>
        BY <2>5, <2>8, <3>2 DEF unblock_contact
      <4> QED  BY <2>4, <4>1
    <3> QED  BY <3>1, <3>2
  <2>9. ASSUME NEW p \in Peers, add_contact(s, p) PROVE UnclearedKnown'
    <3>1. CASE Refused  BY <2>r, <3>1
    <3>2. CASE ~ Refused
      <4>1. /\ crossed \subseteq crossed' /\ UNCHANGED <<inRow, blocks>> /\ p \notin blocks
            /\ outRow' = [outRow EXCEPT ![p] = "pending"]
        BY <2>5, <2>9, <3>2 DEF add_contact, is_blocked_between
      <4>2. \A q \in Peers : outRow'[q] = "pending" => outRow[q] = "pending" \/ q \notin blocks
        BY <2>0, <4>1
      <4> QED  BY <2>4, <4>1, <4>2
    <3> QED  BY <3>1, <3>2
  <2> QED  BY <2>2, <2>3, <2>6, <2>7, <2>8, <2>9 DEF Serve
<1> QED  BY <1>1, <1>4, <1>5, <1>6 DEF WireInv

(***************************************************************************)
(* What comes in from other users goes to the registered connection, whose *)
(* token was taken.                                                        *)
(***************************************************************************)
LEMMA WireOthers ==
    ASSUME TypeInv, WireInv, Others
    PROVE  WireInv'
<1>1. PICK p \in Peers : \/ PeerRequests(p) \/ PeerAccepts(p) \/ PeerRejects(p)
                         \/ PeerBlocks(p) \/ PeerUnblocks(p)
  BY DEF Others
<1>2. UNCHANGED <<effect, ws, wsRef, phase, outbox, client, blocks>>
  BY <1>1 DEF PeerRequests, PeerAccepts, PeerRejects, PeerBlocks, PeerUnblocks, socketVars, channels
<1>3. inbox' = inbox \/ (client # NoSock /\ phase[client] = "open")
  BY <1>1 DEF PeerRequests, PeerAccepts, PeerRejects, PeerBlocks, PeerUnblocks, Deliver, channels
<1>4. client \in Socks \cup {NoSock}  BY DEF TypeInv, TypeOK
<1>5. SendsOnCurrentSocket' /\ OneOpen'  BY <1>2 DEF WireInv, SendsOnCurrentSocket, OneOpen
<1>6. NotYetKnown'
  BY <1>2, <1>3, <1>4 DEF WireInv, OneOpen, NotYetKnown
<1>7. AuthFirst'
  BY <1>2, <1>3, <1>4 DEF WireInv, OneOpen, AuthFirst
<1>8. UnclearedKnown'
  <2>1. inRow \in [Peers -> Rows] /\ outRow \in [Peers -> Rows] /\ blocks \subseteq Peers
    BY DEF TypeInv, TypeOK
  <2>2. \A q \in blocks : /\ inRow'[q] = "pending" => inRow[q] = "pending"
                          /\ outRow'[q] = "pending" => outRow[q] = "pending"
    <3>1. CASE PeerRequests(p)  BY <2>1, <3>1 DEF PeerRequests, is_blocked_between
    <3>2. CASE PeerAccepts(p) \/ PeerRejects(p)  BY <2>1, <3>2 DEF PeerAccepts, PeerRejects
    <3>3. CASE PeerBlocks(p)  BY <2>1, <3>3 DEF PeerBlocks, Clear, Withdrawn
    <3>4. CASE PeerUnblocks(p)  BY <3>4 DEF PeerUnblocks
    <3> QED  BY <1>1, <3>1, <3>2, <3>3, <3>4
  <2>3. crossed \subseteq crossed'
    BY <1>1 DEF PeerRequests, PeerAccepts, PeerRejects, PeerBlocks, PeerUnblocks, Untold, history
  <2>4. Uncleared' \subseteq Uncleared  BY <1>2, <2>2 DEF Uncleared
  <2> QED  BY <2>3, <2>4 DEF WireInv, UnclearedKnown
<1> QED  BY <1>5, <1>6, <1>7, <1>8 DEF WireInv

LEMMA WireUser ==
    ASSUME TypeInv, WireInv, User
    PROVE  WireInv'
<1>0. SendsOnCurrentSocket'  BY RefStep DEF WireInv, Next
<1>1. UNCHANGED <<ws, wsRef, phase, inbox, client, inRow, outRow, blocks, crossed>>
  BY DEF User, login, cycleStatus, AnswerInvitation, handleUnblock, sendContactRequest,
         BlockUser, openBlockedUsers, Click, socketVars, channels, server, history
<1>2. OneOpen' /\ NotYetKnown' /\ UnclearedKnown'
  BY <1>1 DEF WireInv, OneOpen, NotYetKnown, UnclearedKnown, Uncleared
<1>3. \/ outbox' = outbox
      \/ \E n \in CommandNames \ {"auth"}, p \in Peers \cup {NoPeer} :
            /\ CanSend /\ outbox' = [outbox EXCEPT ![wsRef] = Append(@, Event(n, p))]
  BY DEF User, login, cycleStatus, AnswerInvitation, handleUnblock, sendContactRequest,
         BlockUser, openBlockedUsers, Click, send, channels, CommandNames
<1>4. AuthFirst'
  <2>0. outbox \in [Socks -> Seq(Commands)] /\ wsRef \in Socks \cup {NoSock}
    BY DEF TypeInv, TypeOK
  <2>1. CASE outbox' = outbox  BY <1>1, <2>1 DEF WireInv, AuthFirst
  <2>2. ASSUME NEW n \in CommandNames \ {"auth"}, NEW p \in Peers \cup {NoPeer}, CanSend,
               outbox' = [outbox EXCEPT ![wsRef] = Append(@, Event(n, p))]
        PROVE  AuthFirst'
    <3> SUFFICES ASSUME NEW t \in Socks, phase[t] = "open", NEW i \in 1..Len(outbox'[t]),
                        outbox'[t][i].event = "auth"
                 PROVE  i = 1 /\ inbox = <<>> /\ client # t
      BY <1>1 DEF AuthFirst
    <3>1. CASE t # wsRef
      BY <2>0, <2>2, <3>1 DEF WireInv, AuthFirst
    <3>2. CASE t = wsRef
      <4>1. outbox'[t] = Append(outbox[t], Event(n, p)) /\ outbox[t] \in Seq(Commands)
        BY <2>0, <2>2, <3>2
      <4>2. Event(n, p) \in Commands  BY DEF Commands
      <4>3. \/ i \in 1..Len(outbox[t]) /\ outbox'[t][i] = outbox[t][i]
            \/ outbox'[t][i] = Event(n, p)
        BY <4>1, <4>2
      <4>4. Event(n, p).event # "auth"  BY EventFields
      <4> QED  BY <4>3, <4>4 DEF WireInv, AuthFirst
    <3> QED  BY <3>1, <3>2
  <2> QED  BY <1>3, <2>1, <2>2
<1> QED  BY <1>0, <1>2, <1>4 DEF WireInv

LEMMA WireMessage ==
    ASSUME TypeInv, WireInv, onmessage
    PROVE  WireInv'
<1>0. SendsOnCurrentSocket'  BY RefStep DEF WireInv, Next
<1>1. PICK name, about : Handle(name, about)
  BY DEF onmessage, OnAuthOk, OnContactRequest, OnContactAccepted, OnRequestRejected,
         OnBlocked, OnUnblocked, OnRequestSent, OnSnapshot, OnBlockedList
<1>2. UNCHANGED <<ws, wsRef, phase, outbox, client, inRow, outRow, blocks, crossed>> /\ inbox # <<>>
  BY <1>1 DEF Handle, server
<1> QED  BY <1>0, <1>2 DEF WireInv, OneOpen, NotYetKnown, AuthFirst, UnclearedKnown, Uncleared

LEMMA WireSocket ==
    ASSUME TypeInv, WireInv, React \/ Lose \/ UNCHANGED vars
           \/ \E s \in Socks : onopen(s) \/ onclose(s) \/ Reject(s)
    PROVE  WireInv'
<1>0. SendsOnCurrentSocket'  BY RefStep DEF WireInv, Next, Socket
<1>1. UNCHANGED <<inRow, outRow, blocks>>
  BY DEF React, Unmount, RunEffect, Lose, onopen, onclose, Reject, Take, vars, server
<1>b. crossed \subseteq crossed'
  BY DEF React, Unmount, RunEffect, Lose, Cleanup, onopen, onclose, Reject, vars, history
<1>2. UnclearedKnown'  BY <1>1, <1>b DEF WireInv, UnclearedKnown, Uncleared
<1>3. /\ phase \in [Socks -> Phases] /\ ws \in Socks \cup {NoSock} /\ client \in Socks \cup {NoSock}
      /\ outbox \in [Socks -> Seq(Commands)] /\ NoSock \notin Socks
  BY WebClientAssumption DEF TypeInv, TypeOK
<1>4. /\ \A s \in Socks : Closed[s] \notin {"connecting", "open"}
      /\ \A s \in Socks : Closed[s] = "free" <=> phase[s] = "free"
  BY <1>3 DEF WireInv, OneOpen, Closed, Phases
<1>5. CASE Unmount \/ Lose
  <2>1. phase' = Closed /\ UNCHANGED <<outbox, client>>
    BY <1>5 DEF Unmount, Lose, server
  <2> QED  BY <1>0, <1>2, <1>4, <2>1 DEF WireInv, OneOpen, NotYetKnown, AuthFirst
<1>6. ASSUME NEW s \in Socks, RunEffect(s) PROVE WireInv'
  <2>1. /\ phase' = [Closed EXCEPT ![s] = "connecting"] /\ ws' = s /\ phase[s] = "free"
        /\ inbox' = <<>> /\ UNCHANGED <<outbox, client>>
    BY <1>6 DEF RunEffect, Cleanup, server
  <2>2. /\ phase'[s] = "connecting" /\ \A t \in Socks \ {s} : phase'[t] = Closed[t]
    BY <2>1 DEF Closed
  <2> QED  BY <1>0, <1>2, <1>4, <2>1, <2>2 DEF WireInv, OneOpen, NotYetKnown, AuthFirst
<1>7. ASSUME NEW s \in Socks, onopen(s) PROVE WireInv'
  <2>1. /\ phase[s] = "connecting" /\ phase' = [phase EXCEPT ![s] = "open"]
        /\ outbox' = [outbox EXCEPT ![s] = <<Event("auth", NoPeer)>>]
        /\ UNCHANGED <<ws, inbox, client>>
    BY <1>7 DEF onopen, server
  <2>2. inbox = <<>> /\ client # s /\ s = ws  BY <2>1 DEF WireInv, NotYetKnown, OneOpen
  <2>3. OneOpen' /\ NotYetKnown'  BY <1>3, <2>1, <2>2 DEF WireInv, OneOpen, NotYetKnown
  <2>4. AuthFirst'
    <3>1. outbox'[s] = <<Event("auth", NoPeer)>>  BY <1>3, <2>1
    <3>2. \A i \in 1..Len(outbox'[s]) : i = 1  BY <3>1
    <3>3. \A t \in Socks : phase'[t] = "open" => t = s  BY <2>1, <2>2, <2>3 DEF OneOpen
    <3> QED  BY <2>1, <2>2, <3>2, <3>3 DEF AuthFirst
  <2> QED  BY <1>0, <1>2, <2>3, <2>4 DEF WireInv
<1>8. ASSUME NEW s \in Socks, onclose(s) PROVE WireInv'
  <2>1. /\ phase[s] \notin {"connecting", "open"} /\ phase' = [phase EXCEPT ![s] = "free"]
        /\ outbox' = [outbox EXCEPT ![s] = <<>>]
        /\ client' = IF client = s THEN NoSock ELSE client
        /\ UNCHANGED <<ws, inbox>>
    BY <1>8 DEF onclose
  <2>2. OneOpen' /\ NotYetKnown'  BY <1>3, <2>1 DEF WireInv, OneOpen, NotYetKnown
  <2>3. AuthFirst'  BY <1>3, <2>1 DEF WireInv, AuthFirst
  <2> QED  BY <1>0, <1>2, <2>2, <2>3 DEF WireInv
<1>9. ASSUME NEW s \in Socks, Reject(s) PROVE WireInv'
  <2>1. /\ phase[s] \in {"open", "closing"} /\ phase' = [phase EXCEPT ![s] = "rejected"]
        /\ \A t \in Socks \ {s} : outbox'[t] = outbox[t]
        /\ UNCHANGED <<ws, inbox, client>>
    BY <1>3, <1>9 DEF Reject, Take, server
  <2>2. OneOpen' /\ NotYetKnown'  BY <1>3, <2>1 DEF WireInv, OneOpen, NotYetKnown
  <2>3. AuthFirst'  BY <1>3, <2>1 DEF WireInv, AuthFirst
  <2> QED  BY <1>0, <1>2, <2>2, <2>3 DEF WireInv
<1>10. CASE UNCHANGED vars
  BY <1>0, <1>2, <1>10 DEF vars, socketVars, channels, server, WireInv, OneOpen, NotYetKnown, AuthFirst
<1> QED  BY <1>5, <1>6, <1>7, <1>8, <1>9, <1>10 DEF React

LEMMA WireStep ==
    ASSUME TypeInv, WireInv, [Next]_vars
    PROVE  WireInv'
  BY WireServe, WireOthers, WireUser, WireMessage, WireSocket DEF Next, Socket

-----------------------------------------------------------------------------
(* The lists of the tab and the events that change them.                   *)

(***************************************************************************)
(* The invitations: what puts p on the list, what takes p off it and into  *)
(* dropped while the request is pending, and everything that takes p off.  *)
(***************************************************************************)
Asks(p) == {Event("contact_request", p)}
Removes(p) == {Event("contact_request_rejected", p)}
Drops(p) == {Event("contact_blocked", p), Event("contact_accepted", p)}
Brings(p) == Asks(p) \cup Drops(p)
TakesDown(p) == Removes(p) \cup Drops(p)
Answering(p) == {Event(c, p) : c \in {"accept_contact", "reject_contact", "block_contact"}}

(***************************************************************************)
(* The blocked users.                                                      *)
(***************************************************************************)
SaysBlocked(p) == {Event("contact_blocked", p), Event("user_blocked", p)}
ListsBlocked(p) == {Event("blocked_list", u) : u \in {u \in SUBSET Peers : p \in u}}
BlocksIn(p) == SaysBlocked(p) \cup ListsBlocked(p)
Unblocks(p) == {Event("contact_unblocked", p)}

(***************************************************************************)
(* The contacts.                                                           *)
(***************************************************************************)
Named(r) == {c[1] : c \in r}
With(p) == {Event("contacts_snapshot", r) : r \in {r \in Rosters : p \in Named(r)}}
Without(p) == {Event("contacts_snapshot", r) : r \in {r \in Rosters : p \notin Named(r)}}
Adds(p) == {Event("contact_accepted", p), Event("contact_request_sent", p)}
ShowsContact(p) == With(p) \cup Adds(p)
HidesContact(p) == Without(p) \cup SaysBlocked(p)

(***************************************************************************)
(* Whoever will be on the list of invitations has a pending request.       *)
(***************************************************************************)
InvitedRight ==
    \A p \in Peers : Stays(inbox, p, invitations, Asks(p), TakesDown(p)) =>
        inRow[p] = "pending" \/ p \in crossed

(***************************************************************************)
(* On a live connection whoever has a pending request will be on the list  *)
(* or in dropped, or has been answered.                                    *)
(***************************************************************************)
Answered == {p \in Peers : AnyOf(outbox[ws], Answering(p))}
Seen == invitations \cup dropped \cup Answered
InvitedAll ==
    Connected => \A p \in Peers : inRow[p] = "pending" =>
        Stays(inbox, p, Seen, Brings(p), Removes(p))

(***************************************************************************)
(* Whoever will be listed as blocked is blocked, also when the list that   *)
(* openBlockedUsers asked for does not arrive.                             *)
(***************************************************************************)
BlockedRight ==
    \A p \in Peers : Stays(inbox, p, blockedUsers, BlocksIn(p), Unblocks(p)) =>
        p \in blocks \/ p \in crossed

(***************************************************************************)
(* Nobody who will be among the contacts is blocked, also when the roster  *)
(* that authentication sends does not arrive.                              *)
(***************************************************************************)
ContactsRight ==
    \A p \in Peers : Stays(inbox, p, Named(contacts), ShowsContact(p), HidesContact(p)) =>
        p \notin blocks \/ p \in crossed

ListsInv == InvitedRight /\ InvitedAll /\ BlockedRight /\ ContactsRight

LEMMA StaysTailBack ==
    ASSUME NEW S, NEW q \in Seq(S), q # <<>>, NEW p, NEW L, NEW M, NEW A, NEW B,
           p \in M => Head(q) \in A \/ (p \in L /\ Head(q) \notin B),
           Stays(Tail(q), p, M, A, B)
    PROVE  Stays(q, p, L, A, B)
<1> DEFINE N == {x \in {p} : Head(q) \in A \/ (p \in L /\ Head(q) \notin B)}
<1>1. p \in N <=> Head(q) \in A \/ (p \in L /\ Head(q) \notin B)  OBVIOUS
<1>2. p \in M => p \in N  OBVIOUS
<1> HIDE DEF N
<1>3. Stays(Tail(q), p, N, A, B)  BY <1>2, StaysMore
<1> QED  BY <1>1, <1>3, StaysTail

LEMMA StaysTailOn ==
    ASSUME NEW S, NEW q \in Seq(S), q # <<>>, NEW p, NEW L, NEW M, NEW A, NEW B,
           Head(q) \in A \/ (p \in L /\ Head(q) \notin B) => p \in M,
           Stays(q, p, L, A, B)
    PROVE  Stays(Tail(q), p, M, A, B)
<1> DEFINE N == {x \in {p} : Head(q) \in A \/ (p \in L /\ Head(q) \notin B)}
<1>1. p \in N <=> Head(q) \in A \/ (p \in L /\ Head(q) \notin B)  OBVIOUS
<1>2. p \in N => p \in M  OBVIOUS
<1> HIDE DEF N
<1>3. Stays(Tail(q), p, N, A, B)  BY <1>1, StaysTail
<1> QED  BY <1>2, <1>3, StaysMore

(***************************************************************************)
(* What a command does to the rows, and what the tab is told of it.        *)
(***************************************************************************)
AnswerFits(e) ==
    \A q \in Peers :
        /\ e \notin Asks(q)
        /\ inRow[q] = "pending" /\ inRow'[q] # "pending" => e \in TakesDown(q) \/ q \in crossed'
        /\ e \in Removes(q) => inRow'[q] # "pending"
        /\ e \in BlocksIn(q) => q \in blocks'
        /\ q \in blocks /\ q \notin blocks' => e \in Unblocks(q)
        /\ e \in ShowsContact(q) => q \notin blocks' \/ q \in crossed'
        /\ q \in blocks' /\ q \notin blocks => e \in SaysBlocked(q)

LEMMA ServeSummary ==
    ASSUME TypeInv, WireInv, NEW s \in Socks, Serve(s), ~ Authenticate(s)
    PROVE  /\ UNCHANGED <<contacts, invitations, blockedUsers, client, ws, phase>>
           /\ crossed \subseteq crossed'
           /\ \A q \in dropped : inRow'[q] = "pending" => q \in dropped'
           /\ \A q \in Peers : inRow'[q] = "pending" => inRow[q] = "pending"
           /\ \A q \in Peers : Head(outbox[s]) \in Answering(q) =>
                 \/ inRow'[q] # "pending" \/ q \in dropped'
                 \/ phase[s] = "open" => inbox' = Append(inbox, Event("contact_blocked", q))
           /\ outbox[s] # <<>> /\ outbox' = [outbox EXCEPT ![s] = Tail(@)]
           /\ \/ /\ inbox' = inbox
                 /\ \A q \in Peers : \/ q \in crossed'
                                     \/ inRow'[q] = inRow[q] /\ (q \in blocks' <=> q \in blocks)
              \/ /\ phase[s] = "open"
                 /\ \E e \in Events : inbox' = Append(inbox, e) /\ AnswerFits(e)
<1>0. /\ inRow \in [Peers -> Rows] /\ outRow \in [Peers -> Rows] /\ blocks \subseteq Peers
      /\ s # NoSock /\ s \in Socks \cup {NoSock}
      /\ \A q \in blocks : inRow[q] = "pending" => q \in crossed
  BY WebClientAssumption DEF TypeInv, TypeOK, WireInv, UnclearedKnown, Uncleared
<1>1. PICK name, p : Take(s, name, p) /\ phase' = phase  BY ServeFacts
<1>2. /\ UNCHANGED <<contacts, invitations, blockedUsers, ws, phase>>
      /\ outbox[s] # <<>> /\ outbox' = [outbox EXCEPT ![s] = Tail(@)]
  BY <1>1 DEF Take, stores
<1>3. client' = client /\ crossed \subseteq crossed'
  BY DEF Serve, list_blocked, accept_contact, reject_contact, block_contact,
         block_user, unblock_contact, add_contact, Reply, Refused, RefusedAnswer, Untold
<1>k. \A q \in dropped : inRow'[q] = "pending" => q \in dropped'
  <2>1. ASSUME NEW r \in Peers, Clear(r) PROVE \A q \in dropped : inRow'[q] = "pending" => q \in dropped'
    BY <1>0, <2>1 DEF Clear, Withdrawn
  <2>2. ASSUME NEW r \in Peers, accept_contact(s, r) \/ reject_contact(s, r)
        PROVE  \A q \in dropped : inRow'[q] = "pending" => q \in dropped'
    BY <1>0, <2>2 DEF accept_contact, reject_contact, RefusedAnswer, TakenDown
  <2>3. ASSUME NEW r \in Peers, block_contact(s, r) \/ block_user(s, r)
        PROVE  \A q \in dropped : inRow'[q] = "pending" => q \in dropped'
    BY <2>1, <2>3 DEF block_contact, block_user, RefusedAnswer, TakenDown
  <2> QED  BY <2>2, <2>3 DEF Serve, list_blocked, unblock_contact, add_contact
<1> DEFINE Lost == /\ inbox' = inbox
                   /\ \A q \in Peers : \/ q \in crossed'
                                       \/ inRow'[q] = inRow[q] /\ (q \in blocks' <=> q \in blocks)
           Told == /\ phase[s] = "open"
                   /\ \E e \in Events : inbox' = Append(inbox, e) /\ AnswerFits(e)
           Falls == \A q \in Peers : inRow'[q] = "pending" => inRow[q] = "pending"
           UsedFor(q) == \/ inRow'[q] # "pending" \/ q \in dropped'
                         \/ phase[s] = "open" => inbox' = Append(inbox, Event("contact_blocked", q))
           Used == \A q \in Peers : Head(outbox[s]) \in Answering(q) => UsedFor(q)
<1>4. ASSUME NEW r \in Peers, NEW n \in Answers, Deliver(s, <<Event(n, r)>>),
             phase[s] # "open" => r \in crossed',
             \A q \in Peers \ {r} : inRow'[q] = inRow[q] /\ (q \in blocks' <=> q \in blocks),
             AnswerFits(Event(n, r))
      PROVE  Lost \/ Told
  <2>1. Event(n, r) \in Events  BY DEF Events
  <2>3. CASE phase[s] = "open"
    <3>1. inbox' = Append(inbox, Event(n, r))  BY <1>0, <1>4, <2>1, <2>3, Delivered
    <3> QED  BY <1>4, <2>1, <2>3, <3>1
  <2>4. CASE phase[s] # "open"
    <3>1. inbox' = inbox /\ r \in crossed'
      BY <1>0, <1>4, <2>1, <2>4, Delivered
    <3> QED  BY <1>4, <3>1
  <2> QED  BY <2>3, <2>4
<1>5. ASSUME NEW r \in Peers, NEW n \in Answers, Reply(s, Event(n, r))
      PROVE  Deliver(s, <<Event(n, r)>>) /\ (phase[s] # "open" => r \in crossed')
  <2>1. Event(n, r).event \in Answers /\ Event(n, r).about = r  BY EventFields
  <2> QED  BY <1>5, <2>1 DEF Reply
<1>6. ASSUME NEW n, NEW r \in Peers \cup {NoPeer}, Take(s, n, r),
             n \notin {"accept_contact", "reject_contact", "block_contact"}
      PROVE  Used
  <2>1. Head(outbox[s]) = Event(n, r)  BY <1>6 DEF Take
  <2>2. \A q \in Peers : Head(outbox[s]) \notin Answering(q)
    BY <1>6, <2>1, EventFields DEF Answering, Event
  <2> QED  BY <2>2
<1> HIDE DEF UsedFor
<1>7. ASSUME NEW n, NEW r \in Peers, Take(s, n, r), UsedFor(r)
      PROVE  Used
  <2>1. Head(outbox[s]) = Event(n, r)  BY <1>7 DEF Take
  <2>2. \A q \in Peers : Head(outbox[s]) \in Answering(q) => q = r
    BY <2>1, EventFields DEF Answering, Event
  <2> QED  BY <1>7, <2>2
<1> HIDE DEF Used
<1>8. ASSUME NEW r \in Peers, Clear(r)
      PROVE  /\ inRow'[r] = "pending" => inRow[r] = "pending"
             /\ \A q \in Peers \ {r} : inRow'[q] = inRow[q]
  BY <1>0, <1>8 DEF Clear, Withdrawn
<1>r. ASSUME Refused PROVE Lost /\ Falls  BY <1>r DEF Refused
<1> HIDE DEF Lost, Told
<1>d. ASSUME NEW n, NEW r \in Peers, Take(s, n, r), RefusedAnswer(r) PROVE Lost /\ Falls /\ Used
  <2>1. Refused /\ (inRow[r] = "pending" => r \in dropped')
    BY <1>d DEF RefusedAnswer, TakenDown
  <2>2. UsedFor(r)  BY <2>1 DEF UsedFor, Refused
  <2> QED  BY <1>7, <1>d, <1>r, <2>1, <2>2
<1>9. ASSUME NEW r \in Peers, accept_contact(s, r) PROVE (Lost \/ Told) /\ Falls /\ Used
  <2>0. Take(s, "accept_contact", r)  BY <1>9 DEF accept_contact
  <2>1. CASE RefusedAnswer(r)  BY <1>d, <2>0, <2>1
  <2>2. CASE ~ RefusedAnswer(r)
    <3>1. /\ inRow[r] = "pending" /\ inRow' = [inRow EXCEPT ![r] = "accepted"] /\ blocks' = blocks
          /\ \/ Reply(s, Event("contact_accepted", r))
             \/ Untold(r) /\ inbox' = inbox
      BY <1>9, <2>2 DEF accept_contact
    <3>2. inRow'[r] = "accepted" /\ \A q \in Peers \ {r} : inRow'[q] = inRow[q]  BY <1>0, <3>1
    <3>3. r \notin blocks \/ r \in crossed'  BY <1>0, <1>3, <3>1
    <3>4. AnswerFits(Event("contact_accepted", r))
      BY <3>1, <3>2, <3>3
      DEF AnswerFits, Asks, Removes, Drops, TakesDown, BlocksIn, SaysBlocked, ListsBlocked, Unblocks,
          ShowsContact, With, Adds, Event
    <3>5. Falls  BY <3>1, <3>2
    <3>6. Used  BY <1>7, <2>0, <3>2 DEF UsedFor
    <3>7. CASE Reply(s, Event("contact_accepted", r))
      <4>1. Lost \/ Told  BY <1>4, <1>5, <3>1, <3>2, <3>4, <3>7 DEF Answers
      <4> QED  BY <3>5, <3>6, <4>1
    <3>8. CASE Untold(r) /\ inbox' = inbox
      <4>1. Lost  BY <3>1, <3>2, <3>8 DEF Lost, Untold
      <4> QED  BY <3>5, <3>6, <4>1
    <3> QED  BY <3>1, <3>7, <3>8
  <2> QED  BY <2>1, <2>2
<1>10. ASSUME NEW r \in Peers, reject_contact(s, r) PROVE (Lost \/ Told) /\ Falls /\ Used
  <2>0. Take(s, "reject_contact", r)  BY <1>10 DEF reject_contact
  <2>1. CASE RefusedAnswer(r)  BY <1>d, <2>0, <2>1
  <2>2. CASE ~ RefusedAnswer(r)
    <3>1. /\ inRow[r] = "pending" /\ inRow' = [inRow EXCEPT ![r] = "none"] /\ blocks' = blocks
          /\ Reply(s, Event("contact_request_rejected", r))
      BY <1>10, <2>2 DEF reject_contact
    <3>2. inRow'[r] = "none" /\ \A q \in Peers \ {r} : inRow'[q] = inRow[q]  BY <1>0, <3>1
    <3>4. AnswerFits(Event("contact_request_rejected", r))
      BY <3>1, <3>2
      DEF AnswerFits, Asks, Removes, Drops, TakesDown, BlocksIn, SaysBlocked, ListsBlocked, Unblocks,
          ShowsContact, With, Adds, Event
    <3>5. Falls  BY <3>1, <3>2
    <3>6. Used  BY <1>7, <2>0, <3>2 DEF UsedFor
    <3>7. Lost \/ Told  BY <1>4, <1>5, <3>1, <3>2, <3>4 DEF Answers
    <3> QED  BY <3>5, <3>6, <3>7
  <2> QED  BY <2>1, <2>2
<1>11. ASSUME NEW r \in Peers, block_contact(s, r) PROVE (Lost \/ Told) /\ Falls /\ Used
  <2>0. Take(s, "block_contact", r)  BY <1>11 DEF block_contact
  <2>1. CASE RefusedAnswer(r)  BY <1>d, <2>0, <2>1
  <2>2. CASE ~ RefusedAnswer(r)
    <3>1. /\ inRow[r] = "pending" /\ Clear(r) /\ blocks' = blocks \cup {r}
          /\ Deliver(s, <<Event("contact_blocked", r)>>)
          /\ phase[s] # "open" => r \in crossed'
      BY <1>11, <2>2 DEF block_contact, Untold
    <3>2. \A q \in Peers \ {r} : inRow'[q] = inRow[q]  BY <1>8, <3>1
    <3>4. AnswerFits(Event("contact_blocked", r))
      BY <3>1, <3>2
      DEF AnswerFits, Asks, Removes, Drops, TakesDown, BlocksIn, SaysBlocked, ListsBlocked, Unblocks,
          ShowsContact, With, Adds, Event
    <3>5. Falls  BY <3>1, <3>2
    <3>6. Event("contact_blocked", r) \in Events  BY DEF Events, Answers
    <3>7. phase[s] = "open" => inbox' = Append(inbox, Event("contact_blocked", r))
      BY <1>0, <3>1, <3>6, Delivered
    <3>8. Used  BY <1>7, <2>0, <3>7 DEF UsedFor
    <3>9. \A q \in Peers \ {r} : q \in blocks' <=> q \in blocks  BY <3>1
    <3>10. Lost \/ Told  BY <1>4, <3>1, <3>2, <3>4, <3>9 DEF Answers
    <3> QED  BY <3>5, <3>8, <3>10
  <2> QED  BY <2>1, <2>2
<1>12. ASSUME NEW r \in Peers, block_user(s, r) PROVE (Lost \/ Told) /\ Falls /\ Used
  <2>0. Take(s, "block_user", r)  BY <1>12 DEF block_user
  <2>u. Used  BY <1>6, <2>0
  <2>1. CASE Refused  BY <1>r, <2>1, <2>u
  <2>2. CASE ~ Refused
    <3>1. /\ Clear(r) /\ blocks' = blocks \cup {r}
          /\ Deliver(s, <<Event("user_blocked", r)>>)
          /\ phase[s] # "open" => r \in crossed'
          /\ inRow[r] = "pending" => r \in crossed'
      BY <1>12, <2>2 DEF block_user, Untold
    <3>2. /\ inRow'[r] = "pending" => inRow[r] = "pending"
          /\ \A q \in Peers \ {r} : inRow'[q] = inRow[q]
      BY <1>8, <3>1
    <3>4. AnswerFits(Event("user_blocked", r))
      BY <3>1, <3>2
      DEF AnswerFits, Asks, Removes, Drops, TakesDown, BlocksIn, SaysBlocked, ListsBlocked, Unblocks,
          ShowsContact, With, Adds, Event
    <3>5. Falls  BY <3>2
    <3>9. \A q \in Peers \ {r} : q \in blocks' <=> q \in blocks  BY <3>1
    <3>10. Lost \/ Told  BY <1>4, <3>1, <3>2, <3>4, <3>9 DEF Answers
    <3> QED  BY <2>u, <3>5, <3>10
  <2> QED  BY <2>1, <2>2
<1>13. ASSUME NEW r \in Peers, unblock_contact(s, r) PROVE (Lost \/ Told) /\ Falls /\ Used
  <2>0. Take(s, "unblock_contact", r)  BY <1>13 DEF unblock_contact
  <2>u. Used  BY <1>6, <2>0
  <2>1. CASE Refused  BY <1>r, <2>1, <2>u
  <2>2. CASE ~ Refused
    <3>1. inRow' = inRow /\ blocks' = blocks \ {r} /\ Reply(s, Event("contact_unblocked", r))
      BY <1>13, <2>2 DEF unblock_contact
    <3>2. AnswerFits(Event("contact_unblocked", r))
      BY <3>1
      DEF AnswerFits, Asks, Removes, Drops, TakesDown, BlocksIn, SaysBlocked, ListsBlocked, Unblocks,
          ShowsContact, With, Adds, Event
    <3>3. Lost \/ Told  BY <1>4, <1>5, <3>1, <3>2 DEF Answers
    <3> QED  BY <2>u, <3>1, <3>3
  <2> QED  BY <2>1, <2>2
<1>14. ASSUME NEW r \in Peers, add_contact(s, r) PROVE (Lost \/ Told) /\ Falls /\ Used
  <2>0. Take(s, "add_contact", r)  BY <1>14 DEF add_contact
  <2>u. Used  BY <1>6, <2>0
  <2>1. CASE Refused  BY <1>r, <2>1, <2>u
  <2>2. CASE ~ Refused
    <3>1. /\ UNCHANGED <<inRow, blocks>> /\ r \notin blocks
          /\ Reply(s, Event("contact_request_sent", r))
      BY <1>14, <2>2 DEF add_contact, is_blocked_between
    <3>2. AnswerFits(Event("contact_request_sent", r))
      BY <3>1
      DEF AnswerFits, Asks, Removes, Drops, TakesDown, BlocksIn, SaysBlocked, ListsBlocked, Unblocks,
          ShowsContact, With, Adds, Event
    <3>3. Lost \/ Told  BY <1>4, <1>5, <3>1, <3>2 DEF Answers
    <3> QED  BY <2>u, <3>1, <3>3
  <2> QED  BY <2>1, <2>2
<1>15. ASSUME list_blocked(s) PROVE (Lost \/ Told) /\ Falls /\ Used
  <2>0. Take(s, "list_blocked", NoPeer) /\ UNCHANGED <<inRow, blocks>>  BY <1>15 DEF list_blocked
  <2>u. Used  BY <1>6, <2>0
  <2>1. CASE Refused  BY <1>r, <2>1, <2>u
  <2>r. CASE ~ Refused
    <3>0. Reply(s, Event("blocked_list", blocks))  BY <1>15, <2>r DEF list_blocked
    <3>2. Event("blocked_list", blocks) \in Events  BY <1>0 DEF Events
    <3>3. AnswerFits(Event("blocked_list", blocks))
      BY <2>0
      DEF AnswerFits, Asks, Removes, Drops, TakesDown, BlocksIn, SaysBlocked, ListsBlocked, Unblocks,
          ShowsContact, With, Adds, Event
    <3>4. CASE phase[s] = "open"
      <4>1. inbox' = Append(inbox, Event("blocked_list", blocks))
        BY <1>0, <3>0, <3>2, <3>4, Delivered DEF Reply
      <4> QED  BY <2>0, <2>u, <3>2, <3>3, <3>4, <4>1 DEF Told
    <3>5. CASE phase[s] # "open"
      <4>1. inbox' = inbox  BY <1>0, <3>0, <3>2, <3>5, Delivered DEF Reply
      <4> QED  BY <2>0, <2>u, <4>1 DEF Lost
    <3> QED  BY <3>4, <3>5
  <2> QED  BY <2>1, <2>r
<1>17. (Lost \/ Told) /\ Falls /\ Used
  BY <1>9, <1>10, <1>11, <1>12, <1>13, <1>14, <1>15 DEF Serve
<1> QED  BY <1>2, <1>3, <1>k, <1>17 DEF Lost, Told, Used, UsedFor

-----------------------------------------------------------------------------
(* A step that leaves the lists and the events alone.                      *)

LEMMA ListsFrame ==
    ASSUME ListsInv, inbox' = inbox,
           UNCHANGED <<contacts, invitations, blockedUsers, blocks>>,
           crossed \subseteq crossed',
           \A p \in dropped : inRow'[p] = "pending" => p \in dropped',
           \A p \in Peers : inRow'[p] = "pending" => inRow[p] = "pending",
           \A p \in Peers : inRow'[p] = inRow[p] \/ p \in crossed',
           Connected' => Connected /\ ws' = ws /\ outbox'[ws] = outbox[ws]
    PROVE  ListsInv'
<1>1. InvitedRight'  BY DEF ListsInv, InvitedRight
<1>2. BlockedRight' /\ ContactsRight'  BY DEF ListsInv, BlockedRight, ContactsRight
<1>3. InvitedAll'
  <2> SUFFICES ASSUME Connected', NEW p \in Peers, inRow'[p] = "pending"
               PROVE  Stays(inbox', p, Seen', Brings(p), Removes(p))
    BY DEF InvitedAll
  <2>1. Stays(inbox, p, Seen, Brings(p), Removes(p))  BY DEF ListsInv, InvitedAll
  <2>2. p \in Seen => p \in Seen'  BY DEF Seen, Answered
  <2> QED  BY <2>1, <2>2, StaysMore
<1> QED  BY <1>1, <1>2, <1>3 DEF ListsInv

-----------------------------------------------------------------------------
(* The server's commands.                                                  *)

LEMMA ListsServe ==
    ASSUME TypeInv, WireInv, ListsInv, NEW s \in Socks, Serve(s), ~ Authenticate(s)
    PROVE  ListsInv'
<1>0. /\ UNCHANGED <<contacts, invitations, blockedUsers, client, ws, phase>>
      /\ crossed \subseteq crossed'
      /\ \A q \in dropped : inRow'[q] = "pending" => q \in dropped'
      /\ \A q \in Peers : inRow'[q] = "pending" => inRow[q] = "pending"
      /\ outbox[s] # <<>> /\ outbox' = [outbox EXCEPT ![s] = Tail(@)]
  BY ServeSummary
<1>u. \A q \in Peers : Head(outbox[s]) \in Answering(q) =>
         \/ inRow'[q] # "pending" \/ q \in dropped'
         \/ phase[s] = "open" => inbox' = Append(inbox, Event("contact_blocked", q))
  BY ServeSummary
<1>1. inbox \in Seq(Events) /\ outbox \in [Socks -> Seq(Commands)] /\ ws \in Socks \cup {NoSock}
  BY DEF TypeInv, TypeOK
<1>2. ASSUME Connected', NEW p \in Peers, inRow'[p] = "pending"
      PROVE  \/ Stays(inbox, p, Seen', Brings(p), Removes(p))
             \/ inbox' = Append(inbox, Event("contact_blocked", p))
  <2>0. Connected /\ inRow[p] = "pending" /\ ws \in Socks /\ phase[ws] = "open"
    BY <1>0, <1>1, <1>2 DEF Connected
  <2>1. Stays(inbox, p, Seen, Brings(p), Removes(p))  BY <2>0 DEF ListsInv, InvitedAll
  <2> SUFFICES ASSUME ~ (inbox' = Append(inbox, Event("contact_blocked", p)))
               PROVE  Stays(inbox, p, Seen', Brings(p), Removes(p))
    OBVIOUS
  <2>2. AnyOf(outbox[ws], Answering(p)) => AnyOf(outbox'[ws], Answering(p)) \/ p \in dropped'
    <3>1. CASE s # ws  BY <1>0, <1>1, <2>0, <3>1
    <3>2. CASE s = ws
      <4>1. outbox'[ws] = Tail(outbox[ws]) /\ outbox[ws] \in Seq(Commands) /\ outbox[ws] # <<>>
        BY <1>0, <1>1, <2>0, <3>2
      <4>2. Head(outbox[ws]) \notin Answering(p) \/ p \in dropped'
        BY <1>u, <1>2, <2>0, <3>2
      <4> QED  BY <4>1, <4>2, AnyTail
    <3> QED  BY <3>1, <3>2
  <2>3. p \in Seen => p \in Seen'  BY <1>0, <1>2, <2>2 DEF Seen, Answered
  <2> QED  BY <2>1, <2>3, StaysMore
<1>3. CASE /\ inbox' = inbox
           /\ \A q \in Peers : \/ q \in crossed'
                               \/ inRow'[q] = inRow[q] /\ (q \in blocks' <=> q \in blocks)
  <2>1. InvitedRight'  BY <1>0, <1>3 DEF ListsInv, InvitedRight
  <2>2. BlockedRight'  BY <1>0, <1>3 DEF ListsInv, BlockedRight
  <2>3. ContactsRight'  BY <1>0, <1>3 DEF ListsInv, ContactsRight
  <2>4. InvitedAll'
    <3>1. ASSUME NEW e \in Events PROVE Append(inbox, e) # inbox
      <4>1. Len(Append(inbox, e)) = Len(inbox) + 1 /\ Len(inbox) \in Nat  BY <1>1
      <4> QED  BY <4>1
    <3>2. \A p \in Peers : Event("contact_blocked", p) \in Events  BY DEF Events, Answers
    <3>3. \A p \in Peers : inbox' # Append(inbox, Event("contact_blocked", p))
      BY <1>3, <3>1, <3>2
    <3> QED  BY <1>2, <1>3, <3>3 DEF InvitedAll
  <2> QED  BY <2>1, <2>2, <2>3, <2>4 DEF ListsInv
<1>4. ASSUME NEW e \in Events, inbox' = Append(inbox, e), AnswerFits(e) PROVE ListsInv'
  <2>1. InvitedRight'
    <3> SUFFICES ASSUME NEW p \in Peers, Stays(inbox', p, invitations', Asks(p), TakesDown(p))
                 PROVE  inRow'[p] = "pending" \/ p \in crossed'
      BY DEF InvitedRight
    <3>1. e \in Asks(p) \/ (e \notin TakesDown(p) /\ Stays(inbox, p, invitations, Asks(p), TakesDown(p)))
      BY <1>0, <1>1, <1>4, StaysAppend
    <3> QED  BY <1>0, <1>4, <3>1 DEF AnswerFits, ListsInv, InvitedRight
  <2>2. BlockedRight'
    <3> SUFFICES ASSUME NEW p \in Peers, Stays(inbox', p, blockedUsers', BlocksIn(p), Unblocks(p))
                 PROVE  p \in blocks' \/ p \in crossed'
      BY DEF BlockedRight
    <3>1. e \in BlocksIn(p) \/ (e \notin Unblocks(p) /\ Stays(inbox, p, blockedUsers, BlocksIn(p), Unblocks(p)))
      BY <1>0, <1>1, <1>4, StaysAppend
    <3> QED  BY <1>0, <1>4, <3>1 DEF AnswerFits, ListsInv, BlockedRight
  <2>3. ContactsRight'
    <3> SUFFICES ASSUME NEW p \in Peers,
                        Stays(inbox', p, Named(contacts'), ShowsContact(p), HidesContact(p))
                 PROVE  p \notin blocks' \/ p \in crossed'
      BY DEF ContactsRight
    <3>1. \/ e \in ShowsContact(p)
          \/ e \notin HidesContact(p) /\ Stays(inbox, p, Named(contacts), ShowsContact(p), HidesContact(p))
      BY <1>0, <1>1, <1>4, StaysAppend
    <3> QED  BY <1>0, <1>4, <3>1 DEF AnswerFits, ListsInv, ContactsRight, HidesContact
  <2>4. InvitedAll'
    <3> SUFFICES ASSUME Connected', NEW p \in Peers, inRow'[p] = "pending"
                 PROVE  Stays(inbox', p, Seen', Brings(p), Removes(p))
      BY DEF InvitedAll
    <3>1. CASE Stays(inbox, p, Seen', Brings(p), Removes(p))
      <4>1. e \notin Removes(p)  BY <1>4 DEF AnswerFits
      <4> QED  BY <1>1, <1>4, <3>1, <4>1, StaysAppend
    <3>2. CASE inbox' = Append(inbox, Event("contact_blocked", p))
      <4>1. Event("contact_blocked", p) \in Brings(p) /\ Event("contact_blocked", p) \in Events
        BY DEF Brings, Drops, Events, Answers
      <4> QED  BY <1>1, <3>2, <4>1, StaysAppend
    <3> QED  BY <1>2, <3>1, <3>2
  <2> QED  BY <2>1, <2>2, <2>3, <2>4 DEF ListsInv
<1> QED  BY <1>3, <1>4, ServeSummary

(***************************************************************************)
(* A connection that authenticates is told everything: the contacts as     *)
(* they are, and every pending request.  A list that could not be read     *)
(* leaves the contacts of before, or the requests in dropped.              *)
(***************************************************************************)
LEMMA ListsGreeting ==
    ASSUME TypeInv, WireInv, ListsInv, NEW s \in Socks, Authenticate(s)
    PROVE  ListsInv'
<1>0. /\ Take(s, "auth", NoPeer) /\ client' = s
      /\ UNCHANGED <<contacts, invitations, blockedUsers, ws, phase, inRow, blocks>>
  BY DEF Authenticate, Take, stores
<1>1. CASE phase[s] # "open"
  <2>1. inbox' = inbox /\ UNCHANGED <<crossed, dropped>>
    BY <1>1 DEF Authenticate, Deliver
  <2>2. ~ Connected'  BY <1>0, <1>1 DEF Connected
  <2> QED  BY <1>0, <1>1, <2>1, <2>2, ListsFrame
<1>2. CASE phase[s] = "open"
  <2>1. inbox = <<>>
    <3>1. outbox[s] \in Seq(Commands) /\ outbox[s] # <<>> /\ Head(outbox[s]) = Event("auth", NoPeer)
      BY <1>0 DEF Take, TypeInv
    <3>2. 1 \in 1..Len(outbox[s]) /\ outbox[s][1].event = "auth"  BY <3>1, EventFields
    <3> QED  BY <1>2, <3>2 DEF WireInv, AuthFirst
  <2> DEFINE q == inbox'
  <2>2. PICK complete, listed \in BOOLEAN :
           /\ Greets(q, complete, listed)
           /\ crossed' = IF complete THEN crossed \cap (invitations \cup blockedUsers \cup Uncleared)
                         ELSE crossed
           /\ dropped' = IF listed THEN dropped
                         ELSE dropped \cup (list_pending_inbound \ invitations)
    BY <1>2, <2>1, Greeting
  <2>3. /\ q \in Seq(Events)
        /\ \A i \in 1..Len(q) : q[i] \in {Event("auth_ok", NoPeer), Snapshot} \cup Requests
    BY <2>2 DEF Greets
  <2>4. list_contact_roster \in Rosters  BY DEF list_contact_roster, Rosters
  <2> HIDE DEF q
  <2>n. ASSUME NEW i \in 1..Len(q)
        PROVE  \/ q[i] = Event("auth_ok", NoPeer) \/ q[i] = Snapshot
               \/ \E r \in list_pending_inbound : q[i] = Event("contact_request", r)
    BY <2>3 DEF Requests
  <2>5. InvitedRight'
    <3> SUFFICES ASSUME NEW p \in Peers, Stays(q, p, invitations, Asks(p), TakesDown(p))
                 PROVE  inRow[p] = "pending" \/ p \in crossed'
      BY <1>0 DEF InvitedRight, q
    <3>1. CASE p \in invitations
      <4>1. Stays(inbox, p, invitations, Asks(p), TakesDown(p))  BY <2>1, <3>1, StaysEmpty
      <4> QED  BY <2>2, <3>1, <4>1 DEF ListsInv, InvitedRight
    <3>2. CASE p \notin invitations
      <4>1. PICK i \in 1..Len(q) : q[i] = Event("contact_request", p)  BY <3>2 DEF Stays, Asks
      <4>2. q[i] # Event("auth_ok", NoPeer) /\ q[i] # Snapshot
        BY <4>1 DEF Event, Snapshot
      <4>3. PICK r \in list_pending_inbound : q[i] = Event("contact_request", r)
        BY <2>n, <4>2
      <4>4. r = p  BY <4>1, <4>3, EventFields
      <4> QED  BY <4>4 DEF list_pending_inbound
    <3> QED  BY <3>1, <3>2
  <2>6. BlockedRight'
    <3> SUFFICES ASSUME NEW p \in Peers, Stays(q, p, blockedUsers, BlocksIn(p), Unblocks(p))
                 PROVE  p \in blocks \/ p \in crossed'
      BY <1>0 DEF BlockedRight, q
    <3>1. \A i \in 1..Len(q) : q[i] \notin BlocksIn(p)
      <4>1. ASSUME NEW n \in {"auth_ok", "contacts_snapshot", "contact_request"}, NEW a
            PROVE  Event(n, a) \notin BlocksIn(p)
        BY DEF BlocksIn, SaysBlocked, ListsBlocked, Event
      <4> QED  BY <2>n, <4>1 DEF Snapshot
    <3>2. p \in blockedUsers  BY <3>1 DEF Stays
    <3>3. Stays(inbox, p, blockedUsers, BlocksIn(p), Unblocks(p))  BY <2>1, <3>2, StaysEmpty
    <3> QED  BY <2>2, <3>2, <3>3 DEF ListsInv, BlockedRight
  <2>7. ContactsRight'
    <3> SUFFICES ASSUME NEW p \in Peers, p \in blocks,
                        Stays(q, p, Named(contacts), ShowsContact(p), HidesContact(p))
                 PROVE  p \in crossed'
      BY <1>0 DEF ContactsRight, q
    <3>1. p \notin Named(list_contact_roster)
      BY DEF Named, list_contact_roster, is_blocked_between
    <3>2. Snapshot \in HidesContact(p) /\ Snapshot \notin ShowsContact(p)
      BY <2>4, <3>1 DEF Snapshot, HidesContact, Without, ShowsContact, With, Adds, Event
    <3>3. \A i \in 1..Len(q) : q[i] \notin ShowsContact(p)
      <4>1. ASSUME NEW n \in {"auth_ok", "contact_request"}, NEW a
            PROVE  Event(n, a) \notin ShowsContact(p)
        BY DEF ShowsContact, With, Adds, Event
      <4> QED  BY <2>n, <3>2, <4>1
    <3>4. p \in Named(contacts) /\ ~ AnyOf(q, HidesContact(p))  BY <3>3 DEF Stays
    <3>5. CASE complete
      <4>1. 2 \in 1..Len(q) /\ q[2] = Snapshot  BY <2>2, <3>5 DEF Greets, q
      <4> QED  BY <3>2, <3>4, <4>1 DEF AnyOf
    <3>6. CASE ~ complete
      <4>1. Stays(inbox, p, Named(contacts), ShowsContact(p), HidesContact(p))
        BY <2>1, <3>4, StaysEmpty
      <4> QED  BY <2>2, <3>6, <4>1 DEF ListsInv, ContactsRight
    <3> QED  BY <3>5, <3>6
  <2>8. InvitedAll'
    <3> SUFFICES ASSUME NEW p \in Peers, inRow[p] = "pending"
                 PROVE  Stays(q, p, Seen', Brings(p), Removes(p))
      BY <1>0 DEF InvitedAll, q
    <3>1. \A i \in 1..Len(q) : q[i] \notin Removes(p)
      <4>1. ASSUME NEW n \in {"auth_ok", "contacts_snapshot", "contact_request"}, NEW a
            PROVE  Event(n, a) \notin Removes(p)
        BY DEF Removes, Event
      <4> QED  BY <2>n, <4>1 DEF Snapshot
    <3>2. p \in list_pending_inbound  BY DEF list_pending_inbound
    <3>3. CASE listed
      <4>1. PICK i \in 1..Len(q) : q[i] = Event("contact_request", p)
        BY <2>2, <3>2, <3>3 DEF Greets, q
      <4>2. q[i] \in Brings(p)  BY <4>1 DEF Brings, Asks
      <4>3. \A j \in (i + 1)..Len(q) : j \in 1..Len(q)  BY <2>3
      <4> QED  BY <3>1, <4>2, <4>3 DEF Stays
    <3>4. CASE ~ listed
      <4>1. p \in Seen'  BY <1>0, <2>2, <3>2, <3>4 DEF Seen
      <4>2. ~ AnyOf(q, Removes(p))  BY <3>1 DEF AnyOf
      <4> QED  BY <4>1, <4>2, StaysUnlessOut
    <3> QED  BY <3>3, <3>4
  <2> QED  BY <2>5, <2>6, <2>7, <2>8 DEF ListsInv
<1> QED  BY <1>1, <1>2

(***************************************************************************)
(* What other users do reaches the tab if it is connected.  Somebody       *)
(* blocked cannot ask, and holds no request of the user to accept unless   *)
(* the block left it behind.                                               *)
(***************************************************************************)
LEMMA ListsOthers ==
    ASSUME TypeInv, WireInv, ListsInv, Others
    PROVE  ListsInv'
<1>0. /\ inbox \in Seq(Events) /\ client \in Socks \cup {NoSock} /\ inRow \in [Peers -> Rows]
      /\ NoSock \notin Socks /\ ws \in Socks \cup {NoSock}
  BY WebClientAssumption DEF TypeInv, TypeOK
<1>1. PICK p \in Peers : \/ PeerRequests(p) \/ PeerAccepts(p) \/ PeerRejects(p)
                         \/ PeerBlocks(p) \/ PeerUnblocks(p)
  BY DEF Others
<1>2. /\ UNCHANGED <<contacts, invitations, blockedUsers, client, ws, phase, outbox, blocks>>
      /\ PeerBlocks(p) \/ dropped' = dropped
  BY <1>1
  DEF PeerRequests, PeerAccepts, PeerRejects, PeerBlocks, PeerUnblocks, socketVars, channels,
      stores, history
<1>3. Connected' => Connected  BY <1>2 DEF Connected
<1>q. ASSUME inbox' = inbox, inRow' = inRow, crossed' = crossed, dropped' = dropped PROVE ListsInv'
  BY <1>2, <1>3, <1>q, ListsFrame
<1>4. CASE PeerRejects(p) \/ PeerUnblocks(p)
  BY <1>4, <1>q DEF PeerRejects, PeerUnblocks, channels, history
<1>b. CASE PeerBlocks(p)
  <2>1. inbox' = inbox /\ Clear(p) /\ (inRow'[p] = inRow[p] \/ p \in crossed') /\ crossed \subseteq crossed'
    BY <1>b DEF PeerBlocks, channels, Untold
  <2>2. /\ inRow'[p] = "pending" => inRow[p] = "pending"
        /\ \A r \in Peers \ {p} : inRow'[r] = inRow[r]
        /\ \A r \in dropped : inRow'[r] = "pending" => r \in dropped'
    BY <1>0, <2>1 DEF Clear, Withdrawn
  <2> QED  BY <1>2, <1>3, <2>1, <2>2, ListsFrame
<1>5. CASE PeerAccepts(p)
  <2> DEFINE e == Event("contact_accepted", p)
  <2>0. e \in Events  BY DEF Events, Answers
  <2>1. /\ inRow' = inRow /\ outRow[p] = "pending" /\ UNCHANGED <<crossed, dropped>>
        /\ Deliver(client, <<e>>) \/ inbox' = inbox
    BY <1>5 DEF PeerAccepts, history
  <2>2. p \notin blocks \/ p \in crossed
    BY <2>1 DEF WireInv, UnclearedKnown, Uncleared
  <2>3. inbox' = inbox \/ inbox' = Append(inbox, e)  BY <1>0, <2>0, <2>1, Delivered
  <2>4. CASE inbox' = inbox  BY <1>q, <2>1, <2>4
  <2>5. CASE inbox' = Append(inbox, e)
    <3>1. /\ \A q \in Peers : e \notin Asks(q) /\ e \notin Removes(q) /\ e \notin BlocksIn(q)
          /\ \A q \in Peers : e \in ShowsContact(q) => q = p
      BY DEF Asks, Removes, BlocksIn, SaysBlocked, ListsBlocked, ShowsContact, With, Adds, Event
    <3> HIDE DEF e
    <3>2. InvitedRight'
      <4> SUFFICES ASSUME NEW q \in Peers, Stays(inbox', q, invitations, Asks(q), TakesDown(q))
                   PROVE  inRow[q] = "pending" \/ q \in crossed
        BY <1>2, <2>1 DEF InvitedRight
      <4>1. Stays(inbox, q, invitations, Asks(q), TakesDown(q))
        BY <1>0, <2>0, <2>5, <3>1, StaysAppend
      <4> QED  BY <4>1 DEF ListsInv, InvitedRight
    <3>3. BlockedRight'
      <4> SUFFICES ASSUME NEW q \in Peers, Stays(inbox', q, blockedUsers, BlocksIn(q), Unblocks(q))
                   PROVE  q \in blocks \/ q \in crossed
        BY <1>2, <2>1 DEF BlockedRight
      <4>1. Stays(inbox, q, blockedUsers, BlocksIn(q), Unblocks(q))
        BY <1>0, <2>0, <2>5, <3>1, StaysAppend
      <4> QED  BY <4>1 DEF ListsInv, BlockedRight
    <3>4. ContactsRight'
      <4> SUFFICES ASSUME NEW q \in Peers,
                          Stays(inbox', q, Named(contacts), ShowsContact(q), HidesContact(q))
                   PROVE  q \notin blocks \/ q \in crossed
        BY <1>2, <2>1 DEF ContactsRight
      <4>1. q = p \/ Stays(inbox, q, Named(contacts), ShowsContact(q), HidesContact(q))
        BY <1>0, <2>0, <2>5, <3>1, StaysAppend
      <4> QED  BY <2>2, <4>1 DEF ListsInv, ContactsRight
    <3>5. InvitedAll'
      <4> SUFFICES ASSUME Connected', NEW q \in Peers, inRow[q] = "pending"
                   PROVE  Stays(inbox', q, Seen', Brings(q), Removes(q))
        BY <2>1 DEF InvitedAll
      <4>1. Stays(inbox, q, Seen, Brings(q), Removes(q))  BY <1>3 DEF ListsInv, InvitedAll
      <4>2. Seen' = Seen  BY <1>2, <2>1 DEF Seen, Answered
      <4> QED  BY <1>0, <2>0, <2>5, <3>1, <4>1, <4>2, StaysAppend
    <3> QED  BY <3>2, <3>3, <3>4, <3>5 DEF ListsInv
  <2> QED  BY <2>3, <2>4, <2>5
<1>6. CASE PeerRequests(p)
  <2> DEFINE e == Event("contact_request", p)
  <2>0. e \in Events  BY DEF Events
  <2>1. /\ inRow' = [inRow EXCEPT ![p] = "pending"] /\ Deliver(client, <<e>>)
        /\ UNCHANGED <<crossed, dropped>>
    BY <1>6 DEF PeerRequests, history
  <2>2. /\ inRow'[p] = "pending" /\ \A q \in Peers \ {p} : inRow'[q] = inRow[q]  BY <1>0, <2>1
  <2>3. /\ inbox' = inbox \/ inbox' = Append(inbox, e)
        /\ Connected => inbox' = Append(inbox, e)
    BY <1>0, <2>0, <2>1, Delivered DEF Connected
  <2>4. /\ e \in Asks(p) /\ e \in Brings(p)
        /\ \A q \in Peers : e \in Asks(q) => q = p
        /\ \A q \in Peers : e \notin Removes(q) /\ e \notin BlocksIn(q) /\ e \notin ShowsContact(q)
    BY DEF Asks, Brings, Removes, BlocksIn, SaysBlocked, ListsBlocked, ShowsContact, With, Adds, Event
  <2> HIDE DEF e
  <2>5. InvitedRight'
    <3> SUFFICES ASSUME NEW q \in Peers, q # p, Stays(inbox', q, invitations, Asks(q), TakesDown(q))
                 PROVE  inRow[q] = "pending" \/ q \in crossed
      BY <1>2, <2>1, <2>2 DEF InvitedRight
    <3>1. Stays(inbox, q, invitations, Asks(q), TakesDown(q))
      <4>1. CASE inbox' = inbox  BY <4>1
      <4>2. CASE inbox' = Append(inbox, e)  BY <1>0, <2>0, <2>4, <4>2, StaysAppend
      <4> QED  BY <2>3, <4>1, <4>2
    <3> QED  BY <3>1 DEF ListsInv, InvitedRight
  <2>6. BlockedRight'
    <3> SUFFICES ASSUME NEW q \in Peers, Stays(inbox', q, blockedUsers, BlocksIn(q), Unblocks(q))
                 PROVE  q \in blocks \/ q \in crossed
      BY <1>2, <2>1 DEF BlockedRight
    <3>1. Stays(inbox, q, blockedUsers, BlocksIn(q), Unblocks(q))
      <4>1. CASE inbox' = inbox  BY <4>1
      <4>2. CASE inbox' = Append(inbox, e)  BY <1>0, <2>0, <2>4, <4>2, StaysAppend
      <4> QED  BY <2>3, <4>1, <4>2
    <3> QED  BY <3>1 DEF ListsInv, BlockedRight
  <2>7. ContactsRight'
    <3> SUFFICES ASSUME NEW q \in Peers,
                        Stays(inbox', q, Named(contacts), ShowsContact(q), HidesContact(q))
                 PROVE  q \notin blocks \/ q \in crossed
      BY <1>2, <2>1 DEF ContactsRight
    <3>1. Stays(inbox, q, Named(contacts), ShowsContact(q), HidesContact(q))
      <4>1. CASE inbox' = inbox  BY <4>1
      <4>2. CASE inbox' = Append(inbox, e)  BY <1>0, <2>0, <2>4, <4>2, StaysAppend
      <4> QED  BY <2>3, <4>1, <4>2
    <3> QED  BY <3>1 DEF ListsInv, ContactsRight
  <2>8. InvitedAll'
    <3> SUFFICES ASSUME Connected', NEW q \in Peers, inRow'[q] = "pending"
                 PROVE  Stays(inbox', q, Seen', Brings(q), Removes(q))
      BY DEF InvitedAll
    <3>1. inbox' = Append(inbox, e)  BY <1>3, <2>3
    <3>2. CASE q = p  BY <1>0, <2>0, <2>4, <3>1, <3>2, StaysAppend
    <3>3. CASE q # p
      <4>1. Stays(inbox, q, Seen, Brings(q), Removes(q))  BY <1>3, <2>2, <3>3 DEF ListsInv, InvitedAll
      <4>2. Seen' = Seen  BY <1>2, <2>1 DEF Seen, Answered
      <4> QED  BY <1>0, <2>0, <2>4, <3>1, <4>1, <4>2, StaysAppend
    <3> QED  BY <3>2, <3>3
  <2> QED  BY <2>5, <2>6, <2>7, <2>8 DEF ListsInv
<1> QED  BY <1>1, <1>4, <1>b, <1>5, <1>6

(***************************************************************************)
(* A click takes an invitation off the list only with its answer on the    *)
(* way, or dropped.                                                        *)
(***************************************************************************)
LEMMA ListsUser ==
    ASSUME TypeInv, WireInv, ListsInv, User
    PROVE  ListsInv'
<1>0. /\ outbox \in [Socks -> Seq(Commands)] /\ wsRef \in Socks \cup {NoSock}
      /\ wsRef # NoSock => wsRef = ws
  BY DEF TypeInv, TypeOK, WireInv, SendsOnCurrentSocket
<1>1. UNCHANGED <<ws, phase, inbox, client, inRow, blocks, contacts, blockedUsers, crossed>>
  BY DEF User, login, cycleStatus, AnswerInvitation, handleUnblock, sendContactRequest,
         BlockUser, openBlockedUsers, Click, socketVars, channels, server, stores, history
<1>2. \/ outbox' = outbox
      \/ \E n \in CommandNames, p \in Peers \cup {NoPeer} :
            /\ CanSend /\ outbox' = [outbox EXCEPT ![wsRef] = Append(@, Event(n, p))]
  BY DEF User, login, cycleStatus, AnswerInvitation, handleUnblock, sendContactRequest,
         BlockUser, openBlockedUsers, Click, send, channels, CommandNames
<1>3. ASSUME NEW p \in Peers, AnyOf(outbox[ws], Answering(p)), ws \in Socks
      PROVE  AnyOf(outbox'[ws], Answering(p))
  <2>1. CASE outbox' = outbox  BY <1>3, <2>1
  <2>2. ASSUME NEW n \in CommandNames, NEW r \in Peers \cup {NoPeer}, CanSend,
               outbox' = [outbox EXCEPT ![wsRef] = Append(@, Event(n, r))]
        PROVE  AnyOf(outbox'[ws], Answering(p))
    <3>1. wsRef = ws /\ wsRef \in Socks  BY <1>0, <2>2 DEF CanSend
    <3>2. outbox'[ws] = Append(outbox[ws], Event(n, r)) /\ outbox[ws] \in Seq(Commands)
      BY <1>0, <2>2, <3>1
    <3>3. Event(n, r) \in Commands  BY DEF Commands
    <3> QED  BY <1>3, <3>2, <3>3, AnyAppend
  <2> QED  BY <1>2, <2>1, <2>2
<1>4. ASSUME NEW p \in Peers, p \in invitations \cup dropped, inRow[p] = "pending", ws \in Socks
      PROVE  p \in invitations' \cup dropped' \/ AnyOf(outbox'[ws], Answering(p))
  <2>1. CASE UNCHANGED <<invitations, dropped>>  BY <1>4, <2>1
  <2>2. ASSUME NEW r \in Peers, NEW c \in {"accept_contact", "reject_contact", "block_contact"},
               AnswerInvitation(r, c)
        PROVE  p \in invitations' \cup dropped' \/ AnyOf(outbox'[ws], Answering(p))
    <3>1. /\ invitations' = invitations \ {r}
          /\ dropped \subseteq dropped'
          /\ CanSend \/ inRow[r] # "pending" \/ r \in dropped'
          /\ send(c, r)
      BY <2>2 DEF TakenDown, AnswerInvitation, removePendingInvitation, Click
    <3>2. CASE CanSend /\ p = r
      <4>1. wsRef = ws /\ wsRef \in Socks  BY <1>0, <3>2 DEF CanSend
      <4>2. outbox'[ws] = Append(outbox[ws], Event(c, p)) /\ outbox[ws] \in Seq(Commands)
        BY <1>0, <3>1, <3>2, <4>1 DEF send
      <4>3. Event(c, p) \in Commands /\ Event(c, p) \in Answering(p)
        BY <2>2 DEF Commands, CommandNames, Answering
      <4> QED  BY <4>2, <4>3, AnyAppend
    <3>3. CASE ~ (CanSend /\ p = r)  BY <1>4, <3>1, <3>3
    <3> QED  BY <3>2, <3>3
  <2> QED
    BY <2>1, <2>2
    DEF User, login, cycleStatus, handleUnblock, sendContactRequest, BlockUser,
        openBlockedUsers, stores, history
<1>5. invitations' \subseteq invitations
  BY DEF User, login, cycleStatus, AnswerInvitation, handleUnblock, sendContactRequest,
         BlockUser, openBlockedUsers, stores, removePendingInvitation
<1>6. InvitedRight'
  <2> SUFFICES ASSUME NEW p \in Peers, Stays(inbox, p, invitations', Asks(p), TakesDown(p))
               PROVE  inRow[p] = "pending" \/ p \in crossed
    BY <1>1 DEF InvitedRight
  <2>1. Stays(inbox, p, invitations, Asks(p), TakesDown(p))  BY <1>5, StaysMore
  <2> QED  BY <2>1 DEF ListsInv, InvitedRight
<1>7. BlockedRight' /\ ContactsRight'
  BY <1>1 DEF ListsInv, BlockedRight, ContactsRight
<1>8. InvitedAll'
  <2> SUFFICES ASSUME Connected, NEW p \in Peers, inRow[p] = "pending"
               PROVE  Stays(inbox, p, Seen', Brings(p), Removes(p))
    BY <1>1 DEF InvitedAll, Connected
  <2>1. Stays(inbox, p, Seen, Brings(p), Removes(p))  BY DEF ListsInv, InvitedAll
  <2>2. ws \in Socks  BY DEF Connected, TypeInv, TypeOK
  <2>3. p \in Seen => p \in Seen'  BY <1>1, <1>3, <1>4, <2>2 DEF Seen, Answered
  <2> QED  BY <2>1, <2>3, StaysMore
<1> QED  BY <1>6, <1>7, <1>8 DEF ListsInv


-----------------------------------------------------------------------------
(* The handlers of onmessage.                                              *)

(***************************************************************************)
(* Each handler does to the lists what its event stands for.               *)
(***************************************************************************)
Applied(e) ==
    \A p \in Peers :
        /\ p \in invitations' => e \in Asks(p) \/ (p \in invitations /\ e \notin TakesDown(p))
        /\ inRow[p] = "pending" =>
              (e \in Brings(p) \/ (p \in invitations \cup dropped /\ e \notin Removes(p))
                 => p \in invitations' \cup dropped')
        /\ p \in blockedUsers' => e \in BlocksIn(p) \/ (p \in blockedUsers /\ e \notin Unblocks(p))
        /\ p \in Named(contacts') => e \in ShowsContact(p) \/ (p \in Named(contacts) /\ e \notin HidesContact(p))

LEMMA MessageSummary ==
    ASSUME TypeInv, onmessage
    PROVE  /\ inbox # <<>> /\ inbox' = Tail(inbox) /\ Applied(Head(inbox))
           /\ UNCHANGED <<ws, phase, outbox, client, inRow, blocks, crossed>>
<1> DEFINE h == Head(inbox)
           Moved == /\ inbox # <<>> /\ inbox' = Tail(inbox)
                    /\ UNCHANGED <<ws, phase, outbox, client, inRow, blocks, crossed>>
<1>1. ASSUME NEW n, NEW a, Handle(n, a) PROVE Moved /\ h = Event(n, a)
  BY <1>1 DEF Handle, server
<1>2. ASSUME NEW n, NEW a, h = Event(n, a)
      PROVE  \A p \in Peers :
                /\ h \in Asks(p) <=> n = "contact_request" /\ a = p
                /\ h \in Removes(p) <=> n = "contact_request_rejected" /\ a = p
                /\ h \in Brings(p) <=> /\ n \in {"contact_request", "contact_blocked", "contact_accepted"}
                                       /\ a = p
                /\ h \in TakesDown(p) <=> /\ n \in {"contact_request_rejected", "contact_blocked", "contact_accepted"}
                                          /\ a = p
                /\ h \in Unblocks(p) <=> n = "contact_unblocked" /\ a = p
                /\ h \in SaysBlocked(p) <=> n \in {"contact_blocked", "user_blocked"} /\ a = p
  BY <1>2 DEF Asks, Brings, Drops, Removes, TakesDown, Unblocks, SaysBlocked, Event
<1>3. ASSUME NEW n, NEW a, h = Event(n, a)
      PROVE  \A p \in Peers :
                /\ h \in ListsBlocked(p) <=> n = "blocked_list" /\ a \subseteq Peers /\ p \in a
                /\ h \in With(p) <=> n = "contacts_snapshot" /\ a \in Rosters /\ p \in Named(a)
                /\ h \in Without(p) <=> n = "contacts_snapshot" /\ a \in Rosters /\ p \notin Named(a)
                /\ h \in Adds(p) <=> n \in {"contact_accepted", "contact_request_sent"} /\ a = p
  <2>1. ASSUME NEW m, NEW b PROVE h = Event(m, b) <=> n = m /\ a = b
    BY <1>3, EventFields
  <2> HIDE DEF h
  <2>2. ASSUME NEW p \in Peers
        PROVE  h \in ListsBlocked(p) <=> n = "blocked_list" /\ a \subseteq Peers /\ p \in a
    BY <2>1 DEF ListsBlocked
  <2>3. ASSUME NEW p \in Peers
        PROVE  h \in With(p) <=> n = "contacts_snapshot" /\ a \in Rosters /\ p \in Named(a)
    BY <2>1 DEF With
  <2>4. ASSUME NEW p \in Peers
        PROVE  h \in Without(p) <=> n = "contacts_snapshot" /\ a \in Rosters /\ p \notin Named(a)
    BY <2>1 DEF Without
  <2>5. ASSUME NEW p \in Peers
        PROVE  h \in Adds(p) <=> n \in {"contact_accepted", "contact_request_sent"} /\ a = p
    BY <2>1 DEF Adds
  <2> QED  BY <2>2, <2>3, <2>4, <2>5
<1>4. ASSUME NEW p PROVE Named(removeContact(p)) = Named(contacts) \ {p}
  BY DEF Named, removeContact
<1>5. ASSUME NEW p, NEW t PROVE Named(addAcceptedContact(p, t)) = Named(contacts) \cup {p}
  <2>1. Named(addAcceptedContact(p, t)) = Named(removeContact(p)) \cup {p}
    <3>1. addAcceptedContact(p, t) = removeContact(p) \cup {<<p, t>>} /\ <<p, t>>[1] = p
      BY DEF addAcceptedContact
    <3>2. ASSUME NEW r PROVE Named(r \cup {<<p, t>>}) = Named(r) \cup {p}
      BY <3>1 DEF Named
    <3> QED  BY <3>1, <3>2
  <2> QED  BY <1>4, <2>1
<1> HIDE DEF h
<1>6. CASE OnAuthOk
  <2>1. h = Event("auth_ok", NoPeer) /\ Moved /\ UNCHANGED <<contacts, invitations, blockedUsers, dropped>>
    BY <1>1, <1>6 DEF OnAuthOk, stores
  <2>2. Applied(h)  BY <1>2, <1>3, <2>1 DEF Applied, HidesContact
  <2> QED  BY <2>1, <2>2 DEF h
<1>7. ASSUME NEW r \in Peers, OnContactRequest(r) PROVE Moved /\ Applied(h)
  <2>1. /\ h = Event("contact_request", r) /\ Moved /\ UNCHANGED <<contacts, blockedUsers>>
        /\ invitations' = invitations \cup {r} /\ dropped' = dropped \ {r}
    BY <1>1, <1>7 DEF OnContactRequest, upsertPendingInvitation
  <2> QED  BY <1>2, <1>3, <2>1 DEF Applied, HidesContact
<1>8. ASSUME NEW r \in Peers, OnContactAccepted(r) PROVE Moved /\ Applied(h)
  <2>1. /\ h = Event("contact_accepted", r) /\ Moved /\ UNCHANGED blockedUsers
        /\ invitations' = invitations \ {r}
        /\ dropped' = IF inRow[r] = "pending" THEN dropped \cup {r} ELSE dropped
        /\ Named(contacts') = Named(contacts) \cup {r}
    BY <1>1, <1>5, <1>8 DEF OnContactAccepted, clearPendingFromUser, TakenDown
  <2> QED  BY <1>2, <1>3, <2>1 DEF Applied, ShowsContact, HidesContact
<1>9. ASSUME NEW r \in Peers, OnRequestRejected(r) PROVE Moved /\ Applied(h)
  <2>1. /\ h = Event("contact_request_rejected", r) /\ Moved
        /\ UNCHANGED <<contacts, blockedUsers, dropped>> /\ invitations' = invitations \ {r}
    BY <1>1, <1>9 DEF OnRequestRejected, removePendingInvitation
  <2> QED  BY <1>2, <1>3, <2>1 DEF Applied, HidesContact
<1>10. ASSUME NEW r \in Peers, OnBlocked(r, "contact_blocked") PROVE Moved /\ Applied(h)
  <2>1. /\ h = Event("contact_blocked", r) /\ Moved
        /\ dropped' = IF inRow[r] = "pending" THEN dropped \cup {r} ELSE dropped
        /\ invitations' = invitations \ {r} /\ blockedUsers' = blockedUsers \cup {r}
        /\ Named(contacts') = Named(contacts) \ {r}
    BY <1>1, <1>4, <1>10 DEF OnBlocked, removePendingInvitation, upsertBlockedUser, TakenDown
  <2> QED  BY <1>2, <1>3, <2>1 DEF Applied, BlocksIn, HidesContact
<1>11. ASSUME NEW r \in Peers, OnBlocked(r, "user_blocked") PROVE Moved /\ Applied(h)
  <2>1. /\ h = Event("user_blocked", r) /\ Moved /\ UNCHANGED <<dropped, invitations>>
        /\ blockedUsers' = blockedUsers \cup {r}
        /\ Named(contacts') = Named(contacts) \ {r}
    BY <1>1, <1>4, <1>11 DEF OnBlocked, upsertBlockedUser
  <2> QED  BY <1>2, <1>3, <2>1 DEF Applied, BlocksIn, HidesContact
<1>12. ASSUME NEW r \in Peers, OnUnblocked(r) PROVE Moved /\ Applied(h)
  <2>1. /\ h = Event("contact_unblocked", r) /\ Moved /\ UNCHANGED <<contacts, invitations, dropped>>
        /\ blockedUsers' = blockedUsers \ {r}
    BY <1>1, <1>12 DEF OnUnblocked, removeBlockedUser
  <2> QED  BY <1>2, <1>3, <2>1 DEF Applied, HidesContact
<1>13. ASSUME NEW r \in Peers, OnRequestSent(r) PROVE Moved /\ Applied(h)
  <2>1. /\ h = Event("contact_request_sent", r) /\ Moved
        /\ UNCHANGED <<invitations, blockedUsers, dropped>>
        /\ Named(contacts') = Named(contacts) \cup {r}
    BY <1>1, <1>5, <1>13 DEF OnRequestSent
  <2> QED  BY <1>2, <1>3, <2>1 DEF Applied, ShowsContact, HidesContact
<1>14. ASSUME NEW a, OnSnapshot(a) PROVE Moved /\ Applied(h)
  <2>1. /\ h = Event("contacts_snapshot", a) /\ Moved /\ contacts' = a
        /\ UNCHANGED <<invitations, blockedUsers, dropped>>
    BY <1>1, <1>14 DEF OnSnapshot
  <2>2. a \in Rosters  BY <1>14, HandledEvent DEF OnSnapshot
  <2> QED  BY <1>2, <1>3, <2>1, <2>2 DEF Applied, ShowsContact
<1>15. ASSUME NEW a, OnBlockedList(a) PROVE Moved /\ Applied(h)
  <2>1. /\ h = Event("blocked_list", a) /\ Moved /\ blockedUsers' = a
        /\ UNCHANGED <<contacts, invitations, dropped>>
    BY <1>1, <1>15 DEF OnBlockedList
  <2>2. a \subseteq Peers  BY <1>15, HandledEvent DEF OnBlockedList
  <2> QED  BY <1>2, <1>3, <2>1, <2>2 DEF Applied, BlocksIn, HidesContact
<1> QED
  BY <1>6, <1>7, <1>8, <1>9, <1>10, <1>11, <1>12, <1>13, <1>14, <1>15 DEF onmessage, h

LEMMA ListsMessage ==
    ASSUME TypeInv, ListsInv, onmessage
    PROVE  ListsInv'
<1> DEFINE h == Head(inbox)
<1>0. inbox \in Seq(Events)  BY DEF TypeInv
<1>1. /\ inbox # <<>> /\ inbox' = Tail(inbox)
      /\ UNCHANGED <<ws, phase, outbox, client, inRow, blocks, crossed>>
  BY MessageSummary
<1>2. Applied(h)  BY MessageSummary
<1>3. InvitedRight'
  <2> SUFFICES ASSUME NEW p \in Peers, Stays(Tail(inbox), p, invitations', Asks(p), TakesDown(p))
               PROVE  inRow[p] = "pending" \/ p \in crossed
    BY <1>1 DEF InvitedRight
  <2>1. p \in invitations' => h \in Asks(p) \/ (p \in invitations /\ h \notin TakesDown(p))
    BY <1>2 DEF Applied
  <2>2. Stays(inbox, p, invitations, Asks(p), TakesDown(p))
    BY <1>0, <1>1, <2>1, StaysTailBack
  <2> QED  BY <2>2 DEF ListsInv, InvitedRight
<1>4. BlockedRight'
  <2> SUFFICES ASSUME NEW p \in Peers, Stays(Tail(inbox), p, blockedUsers', BlocksIn(p), Unblocks(p))
               PROVE  p \in blocks \/ p \in crossed
    BY <1>1 DEF BlockedRight
  <2>1. p \in blockedUsers' => h \in BlocksIn(p) \/ (p \in blockedUsers /\ h \notin Unblocks(p))
    BY <1>2 DEF Applied
  <2>2. Stays(inbox, p, blockedUsers, BlocksIn(p), Unblocks(p))
    BY <1>0, <1>1, <2>1, StaysTailBack
  <2> QED  BY <2>2 DEF ListsInv, BlockedRight
<1>5. ContactsRight'
  <2> SUFFICES ASSUME NEW p \in Peers,
                      Stays(Tail(inbox), p, Named(contacts'), ShowsContact(p), HidesContact(p))
               PROVE  p \notin blocks \/ p \in crossed
    BY <1>1 DEF ContactsRight
  <2>1. p \in Named(contacts') => h \in ShowsContact(p) \/ (p \in Named(contacts) /\ h \notin HidesContact(p))
    BY <1>2 DEF Applied
  <2>2. Stays(inbox, p, Named(contacts), ShowsContact(p), HidesContact(p))
    BY <1>0, <1>1, <2>1, StaysTailBack
  <2> QED  BY <2>2 DEF ListsInv, ContactsRight
<1>6. InvitedAll'
  <2> SUFFICES ASSUME Connected, NEW p \in Peers, inRow[p] = "pending"
               PROVE  Stays(Tail(inbox), p, Seen', Brings(p), Removes(p))
    BY <1>1 DEF InvitedAll, Connected
  <2>1. Stays(inbox, p, Seen, Brings(p), Removes(p))  BY DEF ListsInv, InvitedAll
  <2>2. h \in Brings(p) \/ (p \in invitations \cup dropped /\ h \notin Removes(p))
           => p \in invitations' \cup dropped'
    BY <1>2 DEF Applied
  <2>3. Answered' = Answered  BY <1>1 DEF Answered
  <2>4. h \in Brings(p) \/ (p \in Seen /\ h \notin Removes(p)) => p \in Seen'
    BY <2>2, <2>3 DEF Seen
  <2> QED  BY <1>0, <1>1, <2>1, <2>4, StaysTailOn
<1> QED  BY <1>3, <1>4, <1>5, <1>6 DEF ListsInv

-----------------------------------------------------------------------------
(* Sockets that open and close.                                            *)

(***************************************************************************)
(* What a closed connection still carried is lost.  The peers whose        *)
(* answers were among it are in crossed; what else the lists say was true  *)
(* without it.                                                             *)
(***************************************************************************)
LEMMA ListsCleanup ==
    ASSUME TypeInv, ListsInv, Cleanup, ~ Connected',
           UNCHANGED <<contacts, invitations, blockedUsers, inRow, blocks>>
    PROVE  ListsInv'
<1>1. /\ inbox' = <<>> /\ crossed \subseteq crossed'
      /\ \A p \in Peers : (\E i \in 1..Len(inbox) : inbox[i].event \in Answers /\ inbox[i].about = p) => p \in crossed'
      /\ \A p \in Shown \cap Peers : (\E i \in 1..Len(inbox) : inbox[i].event = "contacts_snapshot") => p \in crossed'
  BY DEF Cleanup, Incoming
<1>2. ASSUME NEW p \in Peers, NEW B, NEW N, N \subseteq Answers, B = {Event(n, p) : n \in N}, AnyOf(inbox, B)
      PROVE  p \in crossed'
  <2>1. PICK i \in 1..Len(inbox) : inbox[i] \in B  BY <1>2 DEF AnyOf
  <2>2. inbox[i].event \in Answers /\ inbox[i].about = p  BY <1>2, <2>1, EventFields
  <2> QED  BY <1>1, <2>2
<1>3. InvitedRight'
  <2> SUFFICES ASSUME NEW p \in Peers, p \in invitations, p \notin crossed' PROVE inRow[p] = "pending"
    BY <1>1, StaysEmpty DEF InvitedRight
  <2>1. TakesDown(p) = {Event(n, p) : n \in {"contact_request_rejected", "contact_blocked", "contact_accepted"}}
    BY DEF TakesDown, Removes, Drops
  <2>2. {"contact_request_rejected", "contact_blocked", "contact_accepted"} \subseteq Answers
    BY DEF Answers
  <2>3. ~ AnyOf(inbox, TakesDown(p))  BY <1>2, <2>1, <2>2
  <2>4. Stays(inbox, p, invitations, Asks(p), TakesDown(p))  BY <2>3, StaysUnlessOut
  <2> QED  BY <1>1, <2>4 DEF ListsInv, InvitedRight
<1>4. BlockedRight'
  <2> SUFFICES ASSUME NEW p \in Peers, p \in blockedUsers, p \notin crossed' PROVE p \in blocks
    BY <1>1, StaysEmpty DEF BlockedRight
  <2>1. Unblocks(p) = {Event(n, p) : n \in {"contact_unblocked"}} /\ {"contact_unblocked"} \subseteq Answers
    BY DEF Unblocks, Answers
  <2>2. ~ AnyOf(inbox, Unblocks(p))  BY <1>2, <2>1
  <2>3. Stays(inbox, p, blockedUsers, BlocksIn(p), Unblocks(p))  BY <2>2, StaysUnlessOut
  <2> QED  BY <1>1, <2>3 DEF ListsInv, BlockedRight
<1>5. ContactsRight'
  <2> SUFFICES ASSUME NEW p \in Peers, p \in Named(contacts), p \notin crossed' PROVE p \notin blocks
    BY <1>1, StaysEmpty DEF ContactsRight
  <2>1. SaysBlocked(p) = {Event(n, p) : n \in {"contact_blocked", "user_blocked"}}
        /\ {"contact_blocked", "user_blocked"} \subseteq Answers
    BY DEF SaysBlocked, Answers
  <2>2. ~ AnyOf(inbox, SaysBlocked(p))  BY <1>2, <2>1
  <2>3. ~ AnyOf(inbox, Without(p))
    <3>1. \A e \in Without(p) : e.event = "contacts_snapshot"  BY EventFields DEF Without
    <3>2. p \in Shown \cap Peers  BY DEF Shown, Named
    <3> QED  BY <1>1, <3>1, <3>2 DEF AnyOf
  <2>4. ~ AnyOf(inbox, HidesContact(p))  BY <2>2, <2>3 DEF AnyOf, HidesContact
  <2>5. Stays(inbox, p, Named(contacts), ShowsContact(p), HidesContact(p))
    BY <2>4, StaysUnlessOut
  <2> QED  BY <1>1, <2>5 DEF ListsInv, ContactsRight
<1>6. InvitedAll'  BY DEF InvitedAll
<1> QED  BY <1>3, <1>4, <1>5, <1>6 DEF ListsInv

LEMMA ListsSocket ==
    ASSUME TypeInv, WireInv, ListsInv, React \/ Lose \/ UNCHANGED vars
           \/ \E s \in Socks : onopen(s) \/ onclose(s) \/ Reject(s)
    PROVE  ListsInv'
<1>0. /\ phase \in [Socks -> Phases] /\ ws \in Socks \cup {NoSock} /\ client \in Socks \cup {NoSock}
      /\ outbox \in [Socks -> Seq(Commands)] /\ NoSock \notin Socks
  BY WebClientAssumption DEF TypeInv, TypeOK
<1>1. UNCHANGED <<contacts, invitations, blockedUsers, inRow, blocks>>
  BY DEF React, Unmount, RunEffect, Lose, onopen, onclose, Reject, Take, vars, server, stores
<1>2. CASE Unmount
  <2>1. Cleanup /\ ws' = NoSock  BY <1>2 DEF Unmount
  <2> QED  BY <1>1, <2>1, ListsCleanup DEF Connected
<1>3. CASE Lose
  <2>1. Cleanup /\ ws' = ws /\ ws # NoSock /\ phase' = Closed  BY <1>3 DEF Lose
  <2>2. phase'[ws] # "open"  BY <1>0, <2>1 DEF Closed
  <2> QED  BY <1>1, <2>1, <2>2, ListsCleanup DEF Connected
<1>4. ASSUME NEW s \in Socks, RunEffect(s) PROVE ListsInv'
  <2>1. Cleanup /\ ws' = s /\ phase' = [Closed EXCEPT ![s] = "connecting"]  BY <1>4 DEF RunEffect
  <2>2. phase'[s] # "open"  BY <1>0, <2>1 DEF Closed
  <2> QED  BY <1>1, <2>1, <2>2, ListsCleanup DEF Connected
<1>5. ASSUME NEW s \in Socks, onopen(s) PROVE ListsInv'
  <2>1. /\ phase[s] = "connecting" /\ UNCHANGED <<inbox, ws, client, dropped, crossed>>
        /\ phase' = [phase EXCEPT ![s] = "open"]
    BY <1>5 DEF onopen, server, history
  <2>2. client # s /\ s = ws  BY <2>1 DEF WireInv, NotYetKnown, OneOpen
  <2>3. ~ Connected'  BY <2>1, <2>2 DEF Connected
  <2> QED  BY <1>1, <2>1, <2>3, ListsFrame
<1>6. ASSUME NEW s \in Socks, onclose(s) PROVE ListsInv'
  <2>1. /\ phase[s] \in {"closing", "rejected"} /\ phase' = [phase EXCEPT ![s] = "free"]
        /\ outbox' = [outbox EXCEPT ![s] = <<>>] /\ client' = IF client = s THEN NoSock ELSE client
        /\ UNCHANGED <<ws, inbox, dropped, crossed>>
    BY <1>6 DEF onclose, history
  <2>2. Connected' => Connected /\ s # ws
    BY <1>0, <2>1 DEF Connected
  <2>3. s # ws => outbox'[ws] = outbox[ws]  BY <1>0, <2>1
  <2> QED  BY <1>1, <2>1, <2>2, <2>3, ListsFrame
<1>7. ASSUME NEW s \in Socks, Reject(s) PROVE ListsInv'
  <2>1. /\ phase' = [phase EXCEPT ![s] = "rejected"] /\ outbox' = [outbox EXCEPT ![s] = Tail(@)]
        /\ UNCHANGED <<ws, inbox, client, dropped, crossed>>
    BY <1>7 DEF Reject, Take, server, history
  <2>2. Connected' => Connected /\ s # ws
    BY <1>0, <2>1 DEF Connected
  <2>3. s # ws => outbox'[ws] = outbox[ws]  BY <1>0, <2>1
  <2> QED  BY <1>1, <2>1, <2>2, <2>3, ListsFrame
<1>8. CASE UNCHANGED vars
  <2>1. UNCHANGED <<inbox, dropped, crossed, ws, client, phase, outbox>>
    BY <1>8 DEF vars, socketVars, channels, server, history
  <2> QED  BY <1>1, <2>1, ListsFrame DEF Connected
<1> QED  BY <1>2, <1>3, <1>4, <1>5, <1>6, <1>7, <1>8 DEF React

-----------------------------------------------------------------------------
(* The tab and the server.                                                 *)

TabInv == TypeInv /\ WireInv /\ ListsInv

LEMMA TabInit == Init => TabInv
<1> SUFFICES ASSUME Init PROVE TabInv  OBVIOUS
<1>1. WireInv
  <2>1. \A s \in Socks : phase[s] = "free" /\ client # s
    BY WebClientAssumption DEF Init
  <2> QED  BY <2>1 DEF Init, WireInv, SendsOnCurrentSocket, OneOpen, NotYetKnown, AuthFirst, UnclearedKnown, Uncleared
<1>2. ListsInv
  <2>1. inbox = <<>> /\ invitations = {} /\ blockedUsers = {} /\ ~ Connected /\ blocks = {}
    BY DEF Init, Connected
  <2> QED  BY <2>1, StaysEmpty DEF ListsInv, InvitedRight, InvitedAll, BlockedRight, ContactsRight
<1> QED  BY <1>1, <1>2, TypeInit DEF TabInv

LEMMA TabStep == TabInv /\ [Next]_vars => TabInv'
<1> SUFFICES ASSUME TypeInv, WireInv, ListsInv, [Next]_vars PROVE TabInv'  BY DEF TabInv
<1>1. ListsInv'
  BY ListsServe, ListsGreeting, ListsOthers, ListsUser, ListsMessage, ListsSocket DEF Next, Socket
<1> QED  BY <1>1, TypeStep, WireStep DEF TabInv

(***************************************************************************)
(* On a settled connection nothing is left that would change a list.       *)
(***************************************************************************)
LEMMA SettledLists ==
    ASSUME TabInv, Settled, NEW p \in Peers
    PROVE  /\ inRow[p] = "pending" => p \in invitations \cup dropped
           /\ p \in invitations => inRow[p] = "pending" \/ p \in crossed
           /\ p \in blockedUsers => p \in blocks \/ p \in crossed
           /\ p \in Named(contacts) => p \notin blocks \/ p \in crossed
<1>1. Connected /\ inbox = <<>> /\ ws \in Socks /\ outbox[ws] = <<>>
  BY DEF Settled, Connected, TabInv, TypeInv, TypeOK
<1>2. ~ AnyOf(outbox[ws], Answering(p))  BY <1>1 DEF AnyOf
<1>3. inRow[p] = "pending" => p \in Seen  BY <1>1, StaysEmpty DEF TabInv, ListsInv, InvitedAll
<1>4. p \in invitations => inRow[p] = "pending" \/ p \in crossed
  BY <1>1, StaysEmpty DEF TabInv, ListsInv, InvitedRight
<1>5. p \in blockedUsers => p \in blocks \/ p \in crossed
  BY <1>1, StaysEmpty DEF TabInv, ListsInv, BlockedRight
<1>6. p \in Named(contacts) => p \notin blocks \/ p \in crossed
  BY <1>1, StaysEmpty DEF TabInv, ListsInv, ContactsRight
<1> QED  BY <1>2, <1>3, <1>4, <1>5, <1>6 DEF Seen, Answered

(***************************************************************************)
(* Every request that waits for an answer is shown once the connection has *)
(* settled, through any number of reconnections, statements that fail and  *)
(* blocks of either side: list_pending_inbound on auth (router.rs) makes   *)
(* up for the events a closed socket lost, and but for the four losses     *)
(* recorded in dropped the removals follow an answer on its way            *)
(* (useSocket.ts, Sidebar.tsx).                                            *)
(***************************************************************************)
THEOREM InvitationsComplete == Spec => []NoInvitationLost
<1>1. TabInv => NoInvitationLost  BY SettledLists DEF NoInvitationLost
<1> QED  BY <1>1, TabInit, TabStep, PTL DEF Spec

(***************************************************************************)
(* Every invitation shown can be answered, but for peers of whom the tab   *)
(* was not told, among them every peer that blocked the user: no order of  *)
(* events leaves a stale entry otherwise (upsertPendingInvitation and the  *)
(* removals of contactsStore).                                             *)
(***************************************************************************)
THEOREM InvitationsGenuine == Spec => []NoGhostInvitation
<1>1. TabInv => NoGhostInvitation
  <2>1. TabInv => invitations \subseteq Peers  BY DEF TabInv, TypeInv, TypeOK
  <2> QED  BY <2>1, SettledLists DEF NoGhostInvitation
<1> QED  BY <1>1, TabInit, TabStep, PTL DEF Spec

(***************************************************************************)
(* The blocked list shows only blocks that the server holds, and the       *)
(* contacts nobody it has blocked, but for peers of whom the tab was not   *)
(* told or whose requests the block left behind (the contact_blocked and   *)
(* contact_unblocked handlers of useSocket).                               *)
(***************************************************************************)
THEOREM BlocksFollowServer == Spec => []BlocksShown
<1>1. TabInv => BlocksShown
  <2> SUFFICES ASSUME TabInv, Settled, NEW p \in Peers \ crossed
               PROVE  /\ p \in blockedUsers => p \in blocks
                      /\ p \in blocks => p \notin Shown
    BY DEF BlocksShown
  <2>1. Shown = Named(contacts)  BY DEF Shown, Named
  <2> QED  BY <2>1, SettledLists
<1> QED  BY <1>1, TabInit, TabStep, PTL DEF Spec
=============================================================================
