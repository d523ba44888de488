---------------------------- MODULE RelayProofs -----------------------------
(***************************************************************************)
(* Proofs about Sessions and about Relay, which is built on it, for any    *)
(* sets of users, connections and messages.                                *)
(***************************************************************************)
EXTENDS Relay, FiniteSetTheorems, TLAPS

-----------------------------------------------------------------------------
(* The connection handler, the registry and the presence store: Sessions.  *)

(***************************************************************************)
(* A task past its start knows its user: find_user_by_session succeeded.   *)
(***************************************************************************)
ActiveOwned == \A c \in Conns : Active(c) => owner[c] \in Users

(***************************************************************************)
(* What overlap records: without it a user has one task at most.           *)
(***************************************************************************)
OneTaskUnlessOverlap ==
    \A u \in Users : ~ overlap[u] =>
        \A c, d \in Conns :
            owner[c] = u /\ owner[d] = u /\ Active(c) /\ Active(d) => c = d

(***************************************************************************)
(* A task that never met another one of its user is in the registry.       *)
(***************************************************************************)
AloneMeansRegistered ==
    \A u \in Users : ~ overlap[u] =>
        \A c \in Conns : owner[c] = u /\ pc[c] \in Registered => clients[u] = c

(***************************************************************************)
(* The inductive invariant.  NewestRegistered and RegistryLive hold each   *)
(* other up: Unregister may remove only what the registry says, and the    *)
(* registry's entry is the newest live one.                                *)
(***************************************************************************)
RegistryInv ==
    /\ TypeOK
    /\ ActiveOwned
    /\ NewestRegistered
    /\ RegistryLive

PresenceInv ==
    /\ OneTaskUnlessOverlap
    /\ AloneMeansRegistered
    /\ PresenceExactUnlessOverlap

-----------------------------------------------------------------------------
(***************************************************************************)
(* TypeOK holds of every reachable state of the connection handler.        *)
(***************************************************************************)
LEMMA TypeStep == TypeOK /\ ActiveOwned /\ [Next]_sessionVars => (TypeOK /\ ActiveOwned)'
<1> SUFFICES ASSUME TypeOK, ActiveOwned, [Next]_sessionVars
             PROVE  (TypeOK /\ ActiveOwned)'
  OBVIOUS
<1> USE SessionsAssumption DEF TypeOK, ActiveOwned, Active, Phases, Goto, Absent
<1>1. ASSUME NEW c \in Conns, NEW u \in Users, Open(c, u)
      PROVE  (TypeOK /\ ActiveOwned)'
  BY <1>1 DEF Open
<1>2. ASSUME NEW c \in Conns, Disconnect(c)
      PROVE  (TypeOK /\ ActiveOwned)'
  BY <1>2 DEF Disconnect
<1>3. ASSUME NEW c \in Conns, ServerStep(c)
      PROVE  (TypeOK /\ ActiveOwned)'
  <2>1. CASE Authenticate(c) BY <2>1 DEF Authenticate
  <2>2. CASE Reject(c) BY <2>2 DEF Reject
  <2>3. CASE Register(c) BY <2>3 DEF Register
  <2>4. CASE SetOnline(c) BY <2>4 DEF SetOnline
  <2>5. CASE AnnounceOnline(c) BY <2>5 DEF AnnounceOnline
  <2>6. CASE EnterLoop(c) BY <2>6 DEF EnterLoop
  <2>7. CASE StatusWrite(c) BY <2>7 DEF StatusWrite
  <2>9. CASE HangUp(c) BY <2>9 DEF HangUp
  <2>10. CASE Unregister(c) BY <2>10 DEF Unregister
  <2>11. CASE ClearPresence(c) BY <2>11 DEF ClearPresence
  <2>12. CASE AnnounceOffline(c) BY <2>12 DEF AnnounceOffline
  <2>13. CASE Snapshot(c) BY <2>13 DEF Snapshot
  <2> QED BY <1>3, <2>1, <2>2, <2>3, <2>4, <2>5, <2>6, <2>7, <2>9,
             <2>10, <2>11, <2>12, <2>13 DEF ServerStep
<1>4. ASSUME NEW c \in Conns, NEW s \in Statuses, StatusRead(c, s)
      PROVE  (TypeOK /\ ActiveOwned)'
  BY <1>4 DEF StatusRead
<1>7. ASSUME NEW c \in Conns, MoodRead(c)
      PROVE  (TypeOK /\ ActiveOwned)'
  <2>1. presence[owner[c]] \in Statuses /\ StatusRead(c, presence[owner[c]])
    BY <1>7 DEF MoodRead, StatusRead
  <2> QED BY <1>4, <2>1
<1>5. CASE Crash BY <1>5 DEF Crash
<1>6. CASE UNCHANGED sessionVars BY <1>6 DEF sessionVars
<1> QED BY <1>1, <1>2, <1>3, <1>4, <1>5, <1>6, <1>7 DEF Next

-----------------------------------------------------------------------------
(***************************************************************************)
(* Every step of every connection keeps the registry's invariant.          *)
(***************************************************************************)
LEMMA RegistryStep == RegistryInv /\ [Next]_sessionVars => RegistryInv'
<1> SUFFICES ASSUME RegistryInv, [Next]_sessionVars
             PROVE  NewestRegistered' /\ RegistryLive'
  BY TypeStep DEF RegistryInv
<1> USE SessionsAssumption
    DEF RegistryInv, TypeOK, ActiveOwned, Active, NewestRegistered, RegistryLive,
        Phases, Registered, Goto
<1>1. ASSUME NEW c \in Conns, NEW u \in Users, Open(c, u)
      PROVE  NewestRegistered' /\ RegistryLive'
  BY <1>1 DEF Open
<1>2. ASSUME NEW c \in Conns, Disconnect(c)
      PROVE  NewestRegistered' /\ RegistryLive'
  BY <1>2 DEF Disconnect
<1>3. ASSUME NEW c \in Conns, ServerStep(c)
      PROVE  NewestRegistered' /\ RegistryLive'
  <2>1. CASE Authenticate(c) BY <2>1 DEF Authenticate
  <2>2. CASE Reject(c) BY <2>2 DEF Reject
  <2>3. CASE Register(c)
    <3>1. owner[c] \in Users BY <2>3 DEF Register
    <3>2. /\ clients'[owner[c]] = c /\ newest'[owner[c]] = c /\ owner' = owner
          /\ pc'[c] = "registered"
          /\ \A d \in Conns : d # c => pc'[d] = pc[d]
          /\ \A u \in Users : u # owner[c] => clients'[u] = clients[u] /\ newest'[u] = newest[u]
      BY <2>3, <3>1 DEF Register
    <3>3. NewestRegistered' BY <3>1, <3>2
    <3>4. RegistryLive' BY <3>1, <3>2
    <3> QED BY <3>3, <3>4
  <2>4. CASE SetOnline(c) BY <2>4 DEF SetOnline
  <2>5. CASE AnnounceOnline(c) BY <2>5 DEF AnnounceOnline
  <2>6. CASE EnterLoop(c) BY <2>6 DEF EnterLoop
  <2>7. CASE StatusWrite(c) BY <2>7 DEF StatusWrite
  <2>9. CASE HangUp(c) BY <2>9 DEF HangUp
  <2>10. CASE Unregister(c)
    <3>1. owner[c] \in Users BY <2>10 DEF Unregister
    <3>2. CASE clients[owner[c]] = c
      <4>1. /\ clients' = [clients EXCEPT ![owner[c]] = None]
            /\ pc' = [pc EXCEPT ![c] = "leaving"]
            /\ owner' = owner /\ newest' = newest
        BY <2>10, <3>2 DEF Unregister
      <4> QED BY <3>1, <3>2, <4>1
    <3>3. CASE clients[owner[c]] # c
      <4>1. /\ clients' = clients
            /\ pc' = [pc EXCEPT ![c] = "done"]
            /\ owner' = owner /\ newest' = newest
        BY <2>10, <3>3 DEF Unregister
      <4> QED BY <3>1, <3>3, <4>1
    <3> QED BY <3>2, <3>3
  <2>11. CASE ClearPresence(c) BY <2>11 DEF ClearPresence
  <2>12. CASE AnnounceOffline(c) BY <2>12 DEF AnnounceOffline
  <2>13. CASE Snapshot(c) BY <2>13 DEF Snapshot
  <2> QED BY <1>3, <2>1, <2>2, <2>3, <2>4, <2>5, <2>6, <2>7, <2>9,
             <2>10, <2>11, <2>12, <2>13 DEF ServerStep
<1>4. ASSUME NEW c \in Conns, NEW s, StatusRead(c, s)
      PROVE  NewestRegistered' /\ RegistryLive'
  BY <1>4 DEF StatusRead
<1>5. CASE Crash BY <1>5 DEF Crash
<1>6. CASE UNCHANGED sessionVars BY <1>6 DEF sessionVars
<1> QED BY <1>1, <1>2, <1>3, <1>4, <1>5, <1>6 DEF Next, MoodRead

-----------------------------------------------------------------------------
(***************************************************************************)
(* Opening a connection while another task of the user lives is recorded.  *)
(***************************************************************************)
LEMMA OverlapAfterOpen ==
    ASSUME TypeOK, NEW c \in Conns, NEW u \in Users, Open(c, u), ~ overlap'[u]
    PROVE  ~ overlap[u] /\ \A d \in Conns : ~ (owner[d] = u /\ Active(d))
<1> DEFINE met == overlap[u] \/ \E d \in Conns : owner[d] = u /\ Active(d)
<1>1. overlap' = [overlap EXCEPT ![u] = met] BY Zenon DEF Open
<1>2. overlap \in [Users -> BOOLEAN] BY DEF TypeOK
<1> HIDE DEF met
<1>3. overlap'[u] = met BY <1>1, <1>2
<1>4. ~ met BY <1>3
<1> QED BY <1>4, Zenon DEF met

(***************************************************************************)
(* Every step keeps a user's presence entry exact as long as no two tasks  *)
(* of that user have overlapped.                                           *)
(***************************************************************************)
LEMMA PresenceStep ==
    RegistryInv /\ PresenceInv /\ [Next]_sessionVars => PresenceInv'
<1> SUFFICES ASSUME RegistryInv, PresenceInv, [Next]_sessionVars
             PROVE  PresenceInv'
  OBVIOUS
<1> USE SessionsAssumption
    DEF RegistryInv, TypeOK, ActiveOwned, Active, PresenceInv, OneTaskUnlessOverlap,
        AloneMeansRegistered, PresenceExactUnlessOverlap, Phases, Registered, Visible,
        Goto, Absent
<1>1. ASSUME NEW c \in Conns, NEW u \in Users, Open(c, u)
      PROVE  PresenceInv'
  <2>1. /\ pc'[c] = "auth" /\ owner'[c] = u /\ pc[c] = "idle"
        /\ \A d \in Conns : d # c => pc'[d] = pc[d] /\ owner'[d] = owner[d]
        /\ presence' = presence
    BY <1>1 DEF Open
  <2>2. \A v \in Users : v # u => overlap'[v] = overlap[v]
    BY <1>1 DEF Open
  <2>3. ~ overlap'[u] => ~ overlap[u] /\ \A d \in Conns : ~ (owner[d] = u /\ Active(d))
    BY <1>1, OverlapAfterOpen
  <2>4. OneTaskUnlessOverlap' BY <2>1, <2>2, <2>3
  <2>5. AloneMeansRegistered'
    <3>1. clients' = clients BY <1>1 DEF Open
    <3> QED BY <2>1, <2>2, <2>3, <3>1
  <2>6. PresenceExactUnlessOverlap' BY <2>1, <2>2, <2>3
  <2> QED BY <2>4, <2>5, <2>6
<1>2. ASSUME NEW c \in Conns, Disconnect(c)
      PROVE  PresenceInv'
  BY <1>2 DEF Disconnect
<1>3. ASSUME NEW c \in Conns, ServerStep(c)
      PROVE  PresenceInv'
  <2>1. CASE Authenticate(c) BY <2>1 DEF Authenticate
  <2>2. CASE Reject(c) BY <2>2 DEF Reject
  <2>3. CASE Register(c)
    <3>1. /\ clients'[owner[c]] = c /\ owner' = owner /\ owner[c] \in Users
          /\ pc[c] = "authed" /\ pc'[c] = "registered"
          /\ \A d \in Conns : d # c => pc'[d] = pc[d]
          /\ \A u \in Users : u # owner[c] => clients'[u] = clients[u]
          /\ presence' = presence /\ overlap' = overlap
      BY <2>3 DEF Register
    <3>2. OneTaskUnlessOverlap' BY <3>1
    <3>3. AloneMeansRegistered' BY <3>1
    <3>4. PresenceExactUnlessOverlap' BY <3>1
    <3> QED BY <3>2, <3>3, <3>4
  <2>4. CASE SetOnline(c) BY <2>4 DEF SetOnline
  <2>5. CASE AnnounceOnline(c) BY <2>5 DEF AnnounceOnline
  <2>6. CASE EnterLoop(c) BY <2>6 DEF EnterLoop
  <2>7. CASE StatusWrite(c) BY <2>7 DEF StatusWrite
  <2>9. CASE HangUp(c) BY <2>9 DEF HangUp
  <2>10. CASE Unregister(c) BY <2>10 DEF Unregister
  <2>11. CASE ClearPresence(c) BY <2>11 DEF ClearPresence
  <2>12. CASE AnnounceOffline(c) BY <2>12 DEF AnnounceOffline
  <2>13. CASE Snapshot(c) BY <2>13 DEF Snapshot
  <2> QED BY <1>3, <2>1, <2>2, <2>3, <2>4, <2>5, <2>6, <2>7, <2>9,
             <2>10, <2>11, <2>12, <2>13 DEF ServerStep
<1>4. ASSUME NEW c \in Conns, NEW s, StatusRead(c, s)
      PROVE  PresenceInv'
  BY <1>4 DEF StatusRead
<1>5. CASE Crash BY <1>5 DEF Crash
<1>6. CASE UNCHANGED sessionVars BY <1>6 DEF sessionVars
<1> QED BY <1>1, <1>2, <1>3, <1>4, <1>5, <1>6 DEF Next, MoodRead

-----------------------------------------------------------------------------
(***************************************************************************)
(* Before the first connection the invariants hold.                        *)
(***************************************************************************)
LEMMA InitInv == Init => RegistryInv /\ PresenceInv
BY SessionsAssumption
   DEF Init, RegistryInv, PresenceInv, TypeOK, ActiveOwned, Active, NewestRegistered,
       RegistryLive, OneTaskUnlessOverlap, AloneMeansRegistered,
       PresenceExactUnlessOverlap, Phases, Registered, Visible, Absent

(***************************************************************************)
(* Type correctness of the connection handler, the registry and the        *)
(* presence store.                                                         *)
(***************************************************************************)
THEOREM TypeCorrect == Spec => []TypeOK
<1>1. RegistryInv => TypeOK BY DEF RegistryInv
<1> QED BY InitInv, RegistryStep, <1>1, PTL DEF Spec

(***************************************************************************)
(* Whatever the interleaving of a user's connections, the newest one that  *)
(* has not cleaned up is the one in the registry (router.rs 243-256 and    *)
(* 389-402), for any number of users and connections.                      *)
(***************************************************************************)
THEOREM NewestStaysRegistered == Spec => []NewestRegistered
<1>1. RegistryInv => NewestRegistered BY DEF RegistryInv
<1> QED BY InitInv, RegistryStep, <1>1, PTL DEF Spec

(***************************************************************************)
(* The registry only ever holds connections of the right user that have    *)
(* not left their receive loop for good.                                   *)
(***************************************************************************)
THEOREM RegistryStaysLive == Spec => []RegistryLive
<1>1. RegistryInv => RegistryLive BY DEF RegistryInv
<1> QED BY InitInv, RegistryStep, <1>1, PTL DEF Spec

(***************************************************************************)
(* The presence store is exact for every user whose connections have not   *)
(* overlapped since the server started.                                    *)
(***************************************************************************)
THEOREM PresenceExact == Spec => []PresenceExactUnlessOverlap
<1>1. RegistryInv /\ PresenceInv => PresenceExactUnlessOverlap BY DEF PresenceInv
<1>2. (RegistryInv /\ PresenceInv) /\ [Next]_sessionVars => (RegistryInv /\ PresenceInv)'
  BY RegistryStep, PresenceStep
<1> QED BY InitInv, <1>1, <1>2, PTL DEF Spec

-----------------------------------------------------------------------------
(* The relay: its inductive invariant.                                     *)

(***************************************************************************)
(* The receiving end of a channel exists from the registration until the   *)
(* cleanup, or until a write to a dead socket fails.  A channel without a  *)
(* receiver is empty.                                                      *)
(***************************************************************************)
Unlinked == {"idle", "auth", "authed", "done"}
Settling == {"registered", "online", "announced", "replaying"}

ChannelsLinked ==
    \A c \in Conns : /\ rx[c] => pc[c] \notin Unlinked
                     /\ pc[c] \in Settling => rx[c]
                     /\ ~ rx[c] => chan[c] = <<>>

(***************************************************************************)
(* The locals of a task hold something only in the phase that uses them.   *)
(***************************************************************************)
LocalsOf(c) ==
    /\ drained[c] # <<>> => pc[c] = "replaying"
    /\ job[c].stage = "idle" => job[c] = Idle
    /\ job[c].stage # "idle" => pc[c] = "running" /\ job[c].msg \in Msgs
    /\ job[c].stage = "push" => /\ job[c].peer \in Conns
                                /\ pc[job[c].peer] # "idle"
                                /\ owner[job[c].peer] = To[job[c].msg]

LocalsInPhase == \A c \in Conns : LocalsOf(c)

(***************************************************************************)
(* A message only ever gets into a store of its addressee.                 *)
(***************************************************************************)
Addressed ==
    /\ \A u \in Users : \A m \in Range(queue[u]) \cup Range(inbox[u]) : To[m] = u
    /\ \A c \in Conns : \A m \in Range(drained[c]) \cup Carried(chan[c]) : To[m] = owner[c]

LinkInv == ChannelsLinked /\ LocalsInPhase /\ Addressed

(***************************************************************************)
(* What "delivered" promises of a message, and who says it: the bubble, an *)
(* echo about to be sent, an echo or a receipt on its way.                 *)
(***************************************************************************)
HandedOver ==
    {m \in Msgs : \/ m \in lost
                  \/ m \in Range(inbox[To[m]])
                  \/ \E c \in Conns : owner[c] = To[m] /\ m \in Carried(chan[c])}

SaysDelivered(e) == e.kind = "receipt" \/ (e.kind = "echo" /\ e.flag)

Promised(ch) == {ch[i].msg : i \in {j \in DOMAIN ch : SaysDelivered(ch[j])}}

PromisesKept ==
    /\ \A m \in Msgs : bubble[m] = "delivered" => m \in HandedOver
    /\ \A c \in Conns : /\ job[c].stage = "echo_live" => job[c].msg \in HandedOver
                        /\ Promised(chan[c]) \subseteq HandedOver

(***************************************************************************)
(* The places a message can be in, and the messages in each.               *)
(***************************************************************************)
Places == ({"queue", "inbox"} \X Users) \cup ({"wire", "job", "drained", "chan"} \X Conns)

Held ==
    [p \in Places |->
        CASE p[1] = "queue" -> Range(queue[p[2]])
          [] p[1] = "inbox" -> Range(inbox[p[2]])
          [] p[1] = "wire" -> Range(wire[p[2]])
          [] p[1] = "job" -> Waiting(p[2])
          [] p[1] = "drained" -> Range(drained[p[2]])
          [] p[1] = "chan" -> Carried(chan[p[2]])]

OneHolder == \A p, q \in Places : \A m \in Held[p] \cap Held[q] : p = q

Accounted ==
    \A m \in Msgs : bubble[m] # "none" =>
        m \in lost \cup dropped \/ \E p \in Places : m \in Held[p]

(***************************************************************************)
(* Whatever the server or a browser speaks of has been composed.           *)
(***************************************************************************)
Composed == {m \in Msgs : bubble[m] # "none"}
Mentioned(ch) == {ch[i].msg : i \in DOMAIN ch}

ComposedOnly ==
    /\ \A u \in Users : Range(queue[u]) \cup Range(inbox[u]) \subseteq Composed
    /\ \A c \in Conns :
         /\ Range(wire[c]) \cup Range(drained[c]) \cup Mentioned(chan[c]) \subseteq Composed
         /\ job[c].stage # "idle" => job[c].msg \in Composed
    /\ Range(rows) \subseteq Composed

Once(s) == \A i, j \in DOMAIN s : s[i] = s[j] => i = j
CarriedOnce(ch) ==
    \A i, j \in DOMAIN ch :
        ch[i].kind = "message" /\ ch[j].kind = "message" /\ ch[i].msg = ch[j].msg => i = j

NoRepeats ==
    /\ \A u \in Users : Once(queue[u]) /\ Once(inbox[u])
    /\ \A c \in Conns : Once(wire[c]) /\ Once(drained[c]) /\ CarriedOnce(chan[c])

PlaceInv == OneHolder /\ Accounted /\ ComposedOnly /\ NoRepeats

(***************************************************************************)
(* Rows come from the queue in the order in which they were inserted.      *)
(***************************************************************************)
Before(r, A, B) == \A k, l \in DOMAIN r : r[k] \in A /\ r[l] \in B => k < l

InOrder(r, s) == \A i, j \in DOMAIN s : i < j => Before(r, {s[i]}, {s[j]})
CarriedInOrder(r, ch) ==
    \A i, j \in DOMAIN ch :
        i < j /\ ch[i].kind = "message" /\ ch[j].kind = "message"
            => Before(r, {ch[i].msg}, {ch[j].msg})

OneOpenSocket ==
    \A c, d \in Conns : sock[c] /\ sock[d] /\ owner[c] = owner[d] => c = d

RowsPast ==
    \A m \in Range(rows) :
        \A c \in Conns : m \notin Range(wire[c]) \cup Waiting(c)

UserLine(u) ==
    /\ InOrder(rows, queue[u]) /\ InOrder(rows, inbox[u])
    /\ Before(rows, Range(inbox[u]), Range(queue[u]))

ConnLine(c) ==
    /\ CarriedInOrder(rows, chan[c]) /\ InOrder(rows, drained[c])
    /\ Before(rows, Carried(chan[c]), Range(drained[c]))
    /\ owner[c] \in Users =>
        /\ Before(rows, Carried(chan[c]) \cup Range(drained[c]), Range(queue[owner[c]]))
        /\ sock[c] => Before(rows, Range(inbox[owner[c]]),
                                   Carried(chan[c]) \cup Range(drained[c]))

Lines == (\A u \in Users : UserLine(u)) /\ (\A c \in Conns : ConnLine(c))

OrderInv == OneOpenSocket /\ RowsPast /\ Lines

-----------------------------------------------------------------------------
(* Sequences of messages and of events.                                    *)

(***************************************************************************)
(* Sending on a FIFO channel adds the message at its end, once.            *)
(***************************************************************************)
LEMMA AppendFacts ==
    ASSUME NEW S, NEW s \in Seq(S), NEW e \in S
    PROVE  /\ Append(s, e) \in Seq(S)
           /\ Range(Append(s, e)) = Range(s) \cup {e}
           /\ Once(s) /\ e \notin Range(s) => Once(Append(s, e))
BY DEF Range, Once

(***************************************************************************)
(* Receiving from one takes the first element and nothing else.            *)
(***************************************************************************)
LEMMA TailShape ==
    ASSUME NEW S, NEW s \in Seq(S), s # <<>>
    PROVE  /\ Head(s) \in S /\ Tail(s) \in Seq(S)
           /\ Len(s) \in Nat /\ 1 \in DOMAIN s /\ Head(s) = s[1]
           /\ \A i \in DOMAIN Tail(s) : i + 1 \in DOMAIN s /\ Tail(s)[i] = s[i + 1]
           /\ \A i \in DOMAIN s : i # 1 => i - 1 \in DOMAIN Tail(s) /\ Tail(s)[i - 1] = s[i]
           /\ DOMAIN s \subseteq Nat /\ DOMAIN Tail(s) \subseteq Nat \ {0}
OBVIOUS

LEMMA TailFacts ==
    ASSUME NEW S, NEW s \in Seq(S), s # <<>>
    PROVE  /\ Head(s) \in S /\ Tail(s) \in Seq(S)
           /\ Range(s) = {Head(s)} \cup Range(Tail(s))
           /\ Once(s) => Once(Tail(s)) /\ Head(s) \notin Range(Tail(s))
<1> DEFINE t == Tail(s)
<1>1. /\ Head(s) \in S /\ t \in Seq(S)
      /\ 1 \in DOMAIN s /\ Head(s) = s[1]
      /\ \A i \in DOMAIN t : i + 1 \in DOMAIN s /\ t[i] = s[i + 1]
      /\ \A i \in DOMAIN s : i # 1 => i - 1 \in DOMAIN t /\ t[i - 1] = s[i]
      /\ DOMAIN s \subseteq Nat /\ DOMAIN t \subseteq Nat \ {0}
  BY TailShape
<1> HIDE DEF t
<1>2. Range(s) = {s[1]} \cup Range(t) BY <1>1 DEF Range
<1>3. ASSUME Once(s) PROVE Once(t) /\ s[1] \notin Range(t)
  <2>1. \A i, j \in DOMAIN t : t[i] = t[j] => i + 1 = j + 1 BY <1>1, <1>3 DEF Once
  <2>2. \A i \in DOMAIN t : s[1] # t[i] BY <1>1, <1>3 DEF Once
  <2> QED BY <1>1, <2>1, <2>2 DEF Once, Range
<1> QED BY <1>1, <1>2, <1>3 DEF t

(***************************************************************************)
(* The same for the messages carried by a channel of events.               *)
(***************************************************************************)
LEMMA SendFacts ==
    ASSUME NEW ch \in Seq(Event), NEW e \in Event
    PROVE  /\ Append(ch, e) \in Seq(Event)
           /\ Carried(Append(ch, e)) =
                 Carried(ch) \cup (IF e.kind = "message" THEN {e.msg} ELSE {})
           /\ CarriedOnce(ch) /\ (e.kind = "message" => e.msg \notin Carried(ch))
                 => CarriedOnce(Append(ch, e))
<1> DEFINE t == Append(ch, e)
           n == Len(ch) + 1
<1>1. /\ t \in Seq(Event) /\ n \in DOMAIN t /\ t[n] = e
      /\ \A i \in DOMAIN ch : i \in DOMAIN t /\ t[i] = ch[i]
      /\ \A i \in DOMAIN t : i # n => i \in DOMAIN ch
  OBVIOUS
<1> HIDE DEF t, n
<1>2. Carried(t) = Carried(ch) \cup (IF e.kind = "message" THEN {e.msg} ELSE {})
  <2>1. ASSUME NEW x \in Carried(t)
        PROVE  x \in Carried(ch) \cup (IF e.kind = "message" THEN {e.msg} ELSE {})
    <3>1. PICK i \in DOMAIN t : t[i].kind = "message" /\ x = t[i].msg
      BY <2>1 DEF Carried
    <3> QED BY <1>1, <3>1 DEF Carried
  <2>2. ASSUME NEW x \in Carried(ch) PROVE x \in Carried(t)
    <3>1. PICK i \in DOMAIN ch : ch[i].kind = "message" /\ x = ch[i].msg
      BY <2>2 DEF Carried
    <3> QED BY <1>1, <3>1 DEF Carried
  <2>3. e.kind = "message" => e.msg \in Carried(t)
    BY <1>1 DEF Carried
  <2> QED BY <2>1, <2>2, <2>3
<1>3. CarriedOnce(ch) /\ (e.kind = "message" => e.msg \notin Carried(ch)) => CarriedOnce(t)
  BY <1>1 DEF Carried, CarriedOnce
<1> QED BY <1>1, <1>2, <1>3 DEF t

LEMMA ReceiveFacts ==
    ASSUME NEW ch \in Seq(Event), ch # <<>>
    PROVE  /\ Head(ch) \in Event /\ Tail(ch) \in Seq(Event)
           /\ Carried(ch) = Carried(Tail(ch))
                 \cup (IF Head(ch).kind = "message" THEN {Head(ch).msg} ELSE {})
           /\ Carried(<<Head(ch)>>) = IF Head(ch).kind = "message" THEN {Head(ch).msg} ELSE {}
           /\ CarriedOnce(ch) => /\ CarriedOnce(Tail(ch))
                                 /\ Head(ch).kind = "message"
                                       => Head(ch).msg \notin Carried(Tail(ch))
<1> DEFINE t == Tail(ch)
           e == Head(ch)
<1>1. /\ e \in Event /\ t \in Seq(Event)
      /\ 1 \in DOMAIN ch /\ e = ch[1]
      /\ \A i \in DOMAIN t : i + 1 \in DOMAIN ch /\ t[i] = ch[i + 1]
      /\ \A i \in DOMAIN ch : i # 1 => i - 1 \in DOMAIN t /\ t[i - 1] = ch[i]
      /\ DOMAIN ch \subseteq Nat /\ DOMAIN t \subseteq Nat \ {0}
  BY TailShape
<1>2. Carried(<<e>>) = IF e.kind = "message" THEN {e.msg} ELSE {}
  BY DEF Carried
<1> HIDE DEF t, e
<1>3. Carried(ch) = Carried(t) \cup (IF e.kind = "message" THEN {e.msg} ELSE {})
  <2>1. ASSUME NEW x \in Carried(ch)
        PROVE  x \in Carried(t) \cup (IF e.kind = "message" THEN {e.msg} ELSE {})
    <3>1. PICK i \in DOMAIN ch : ch[i].kind = "message" /\ x = ch[i].msg
      BY <2>1 DEF Carried
    <3>2. CASE i = 1 BY <1>1, <3>1, <3>2
    <3>3. CASE i # 1
      <4>1. i - 1 \in DOMAIN t /\ t[i - 1] = ch[i] BY <1>1, <3>1, <3>3
      <4> QED BY <3>1, <4>1 DEF Carried
    <3> QED BY <3>2, <3>3
  <2>2. ASSUME NEW x \in Carried(t) PROVE x \in Carried(ch)
    <3>1. PICK i \in DOMAIN t : t[i].kind = "message" /\ x = t[i].msg
      BY <2>2 DEF Carried
    <3> QED BY <1>1, <3>1 DEF Carried
  <2>3. e.kind = "message" => e.msg \in Carried(ch)
    BY <1>1 DEF Carried
  <2> QED BY <2>1, <2>2, <2>3
<1>4. ASSUME CarriedOnce(ch)
      PROVE  CarriedOnce(t) /\ (e.kind = "message" => e.msg \notin Carried(t))
  <2>1. \A i, j \in DOMAIN t :
           t[i].kind = "message" /\ t[j].kind = "message" /\ t[i].msg = t[j].msg
               => i + 1 = j + 1
    BY <1>1, <1>4 DEF CarriedOnce
  <2>2. \A i \in DOMAIN t :
           e.kind = "message" /\ t[i].kind = "message" => e.msg # t[i].msg
    BY <1>1, <1>4 DEF CarriedOnce
  <2> QED BY <1>1, <2>1, <2>2 DEF CarriedOnce, Carried
<1> QED BY <1>1, <1>2, <1>3, <1>4 DEF t, e

LEMMA EmptyFacts ==
    /\ Range(<<>>) = {} /\ Carried(<<>>) = {}
    /\ Once(<<>>) /\ CarriedOnce(<<>>)
BY DEF Range, Carried, Once, CarriedOnce

-----------------------------------------------------------------------------
(***************************************************************************)
(* Every step of the relay is a step of the connection handler, or leaves  *)
(* it alone: the relay adds messages to Sessions and takes nothing away.   *)
(***************************************************************************)
LEMMA RelayStepsAreSessionSteps == [RelayNext]_vars => [Next]_sessionVars
<1> SUFFICES ASSUME [RelayNext]_vars PROVE [Next]_sessionVars
  OBVIOUS
<1>1. ASSUME NEW c \in Conns, NEW u \in Users, RelayOpen(c, u)
      PROVE  Next
  BY <1>1 DEF RelayOpen, Next
<1>2. ASSUME NEW c \in Conns, RelayDisconnect(c)
      PROVE  Next
  BY <1>2 DEF RelayDisconnect, Next
<1>3. ASSUME NEW c \in Conns, TaskStep(c)
      PROVE  [Next]_sessionVars
  <2>1. CASE Elsewhere(c) BY <2>1 DEF Elsewhere, Next, ServerStep
  <2>2. CASE RelayReject(c) BY <2>2 DEF RelayReject, Next, ServerStep
  <2>3. CASE RelayRegister(c) BY <2>3 DEF RelayRegister, Next, ServerStep
  <2>4. CASE Drain(c) BY <2>4 DEF Drain, Next, ServerStep
  <2>5. CASE Replay(c) BY <2>5 DEF Replay
  <2>6. CASE RelayEnterLoop(c) BY <2>6 DEF RelayEnterLoop, Next, ServerStep
  <2>7. CASE RefuseMessage(c) BY <2>7 DEF RefuseMessage
  <2>8. CASE Lookup(c) BY <2>8 DEF Lookup
  <2>9. CASE Push(c) BY <2>9 DEF Push
  <2>10. CASE Queue(c) BY <2>10 DEF Queue
  <2>11. CASE Echo(c) BY <2>11 DEF Echo
  <2>12. CASE RelayHangUp(c) BY <2>12 DEF RelayHangUp, Next, ServerStep
  <2>15. CASE ProfileCommand(c) BY <2>15 DEF ProfileCommand, Next
  <2>13. CASE RelayUnregister(c) BY <2>13 DEF RelayUnregister, Next, ServerStep
  <2>14. CASE RelayAnnounceOffline(c) BY <2>14 DEF RelayAnnounceOffline, Next, ServerStep
  <2> QED BY <1>3, <2>1, <2>2, <2>3, <2>4, <2>5, <2>6, <2>7, <2>8, <2>9, <2>10, <2>11,
             <2>12, <2>13, <2>14, <2>15 DEF TaskStep, Handling
<1>4. ASSUME NEW c \in Conns, ForwardStep(c)
      PROVE  UNCHANGED sessionVars
  BY <1>4 DEF ForwardStep, Forward, ForwardToDeadSocket
<1>5. ASSUME NEW c \in Conns, NEW m \in Msgs, Compose(c, m)
      PROVE  UNCHANGED sessionVars
  BY <1>5 DEF Compose
<1>6. ASSUME NEW m \in Msgs, ComposeOffline(m)
      PROVE  UNCHANGED sessionVars
  BY <1>6 DEF ComposeOffline
<1>7. CASE RelayCrash BY <1>7 DEF RelayCrash, Next
<1>8. CASE UNCHANGED vars BY <1>8 DEF vars
<1> QED BY <1>1, <1>2, <1>3, <1>4, <1>5, <1>6, <1>7, <1>8 DEF RelayNext

(***************************************************************************)
(* The relay implements the connection handler of Sessions: whatever holds *)
(* of every behaviour of Sessions holds of the server with its messages.   *)
(***************************************************************************)
THEOREM RelayImplementsSessions == RelaySpec => Spec
<1>1. RelayInit => Init BY DEF RelayInit
<1> QED BY <1>1, RelayStepsAreSessionSteps, PTL DEF RelaySpec, Spec

(***************************************************************************)
(* With the relay's messages too, the registry holds the newest live       *)
(* connection of a user, and nothing but live connections of that user.    *)
(***************************************************************************)
THEOREM RegistryUnderRelay == RelaySpec => [](NewestRegistered /\ RegistryLive)
BY RelayImplementsSessions, NewestStaysRegistered, RegistryStaysLive, PTL

-----------------------------------------------------------------------------
(* Types.                                                                  *)

(***************************************************************************)
(* UnboundedSender::send touches one channel, and only if it has its       *)
(* receiver.                                                               *)
(***************************************************************************)
LEMMA PushFacts ==
    ASSUME NEW ch \in [Conns -> Seq(Event)], NEW c \in Conns, NEW e \in Event
    PROVE  /\ PushTo(ch, c, e) \in [Conns -> Seq(Event)]
           /\ PushTo(ch, c, e)[c] = IF rx[c] THEN Append(ch[c], e) ELSE ch[c]
           /\ \A d \in Conns : d # c => PushTo(ch, c, e)[d] = ch[d]
BY DEF PushTo

(***************************************************************************)
(* A pushed message is carried by that channel from then on.               *)
(***************************************************************************)
LEMMA PushAdds ==
    ASSUME NEW ch \in [Conns -> Seq(Event)], NEW d \in Conns, NEW e \in Event,
           rx[d], e.kind = "message"
    PROVE  Carried(PushTo(ch, d, e)[d]) = Carried(ch[d]) \cup {e.msg}
<1>1. PushTo(ch, d, e)[d] = Append(ch[d], e) /\ ch[d] \in Seq(Event) BY PushFacts
<1> QED BY <1>1, SendFacts

LEMMA PushLeaves ==
    ASSUME NEW ch \in [Conns -> Seq(Event)], NEW d \in Conns, NEW e \in Event,
           NEW x \in Conns, x # d \/ ~ rx[d] \/ e.kind # "message"
    PROVE  Carried(PushTo(ch, d, e)[x]) = Carried(ch[x])
<1>1. CASE x # d \/ ~ rx[d]
  <2>1. PushTo(ch, d, e)[x] = ch[x] BY <1>1, PushFacts
  <2> QED BY <2>1
<1>2. CASE x = d /\ rx[d] /\ e.kind # "message"
  <2>1. PushTo(ch, d, e)[x] = Append(ch[x], e) /\ ch[x] \in Seq(Event) BY <1>2, PushFacts
  <2> QED BY <1>2, <2>1, SendFacts
<1> QED BY <1>1, <1>2

LEMMA PushOnce ==
    ASSUME NEW ch \in [Conns -> Seq(Event)], NEW d \in Conns, NEW e \in Event,
           NEW x \in Conns, CarriedOnce(ch[x]),
           e.kind = "message" => e.msg \notin Carried(ch[x])
    PROVE  CarriedOnce(PushTo(ch, d, e)[x])
<1>1. CASE x # d \/ ~ rx[d]
  <2>1. PushTo(ch, d, e)[x] = ch[x] BY <1>1, PushFacts
  <2> QED BY <2>1
<1>2. CASE x = d /\ rx[d]
  <2>1. PushTo(ch, d, e)[x] = Append(ch[x], e) /\ ch[x] \in Seq(Event) BY <1>2, PushFacts
  <2> QED BY <2>1, SendFacts
<1> QED BY <1>1, <1>2

LEMMA EventTypes ==
    ASSUME NEW m \in Msgs
    PROVE  /\ MessageEvent(m) \in Event /\ ReceiptEvent(m) \in Event
           /\ ErrorEvent(m) \in Event
           /\ \A live \in BOOLEAN : EchoEvent(m, live) \in Event
BY DEF Event, MessageEvent, ReceiptEvent, ErrorEvent, EchoEvent

LEMMA CarriedType == ASSUME NEW ch \in Seq(Event) PROVE Carried(ch) \subseteq Msgs
<1>1. \A i \in DOMAIN ch : ch[i] \in Event OBVIOUS
<1> QED BY <1>1 DEF Carried, Event

LEMMA RangeType == \A s \in Seq(Msgs) : Range(s) \subseteq Msgs
BY DEF Range

(***************************************************************************)
(* Every step keeps the relay's variables in their types.                  *)
(***************************************************************************)
LEMMA RelayTypeStep ==
    RelayTypeOK /\ RegistryInv /\ LinkInv /\ [RelayNext]_vars => RelayTypeOK'
<1> SUFFICES ASSUME RelayTypeOK, RegistryInv, LinkInv, [RelayNext]_vars
             PROVE  RelayTypeOK'
  OBVIOUS
<1>0. TypeOK' BY RelayStepsAreSessionSteps, RegistryStep DEF RegistryInv
<1> USE RelayAssumption, SessionsAssumption, <1>0 DEF RelayTypeOK
<1>1. CASE UNCHANGED relayVars BY <1>1 DEF relayVars
<1>2. ASSUME NEW c \in Conns, TaskEnds(c)
      PROVE  RelayTypeOK'
  <2>1. Carried(chan[c]) \subseteq Msgs /\ Range(wire[c]) \subseteq Msgs
    BY CarriedType, RangeType
  <2> QED BY <1>2, <2>1 DEF TaskEnds
<1>3. ASSUME NEW c \in Conns, RelayRegister(c)
      PROVE  RelayTypeOK'
  BY <1>3 DEF RelayRegister
<1>4. ASSUME NEW c \in Conns, Drain(c)
      PROVE  RelayTypeOK'
  <2>1. owner[c] \in Users
    BY <1>4 DEF Drain, Snapshot, Goto, RegistryInv, ActiveOwned, Active
  <2>2. \/ queue' = [queue EXCEPT ![owner[c]] = <<>>]
              /\ drained' = [drained EXCEPT ![c] = queue[owner[c]]]
        \/ queue' = queue /\ drained' = drained
    BY <1>4 DEF Drain, RowsFor
  <2>3. queue' \in [Users -> Seq(Msgs)]
    <3>1. <<>> \in Seq(Msgs) OBVIOUS
    <3>2. CASE queue' = [queue EXCEPT ![owner[c]] = <<>>] BY <2>1, <3>1, <3>2
    <3> QED BY <2>2, <3>2
  <2>4. drained' \in [Conns -> Seq(Msgs)] BY <2>1, <2>2
  <2> QED BY <1>4, <2>3, <2>4 DEF Drain
<1>5. ASSUME NEW c \in Conns, Replay(c)
      PROVE  RelayTypeOK'
  <2> DEFINE m == Head(drained[c])
             peer == clients[From[m]]
             own == PushTo(chan, c, MessageEvent(m))
  <2>1. m \in Msgs /\ Tail(drained[c]) \in Seq(Msgs) BY <1>5, TailFacts DEF Replay
  <2>2. peer \in Conns \cup {None} BY <2>1 DEF TypeOK
  <2>3. own \in [Conns -> Seq(Event)] BY <2>1, EventTypes, PushFacts
  <2>4. chan' = IF peer = None THEN own ELSE PushTo(own, peer, ReceiptEvent(m))
    BY <1>5 DEF Replay
  <2>5. peer # None => PushTo(own, peer, ReceiptEvent(m)) \in [Conns -> Seq(Event)]
    <3> HIDE DEF own, peer, m
    <3> QED BY <2>1, <2>2, <2>3, EventTypes, PushFacts
  <2>6. chan' \in [Conns -> Seq(Event)] BY <2>3, <2>4, <2>5
  <2> QED BY <1>5, <2>1, <2>6 DEF Replay
<1>6. ASSUME NEW c \in Conns, NextCommand(c)
      PROVE  Head(wire[c]) \in Msgs /\ wire' \in [Conns -> Seq(Msgs)]
  BY <1>6, TailFacts DEF NextCommand
<1>7. ASSUME NEW c \in Conns, RefuseMessage(c)
      PROVE  RelayTypeOK'
  <2>1. Head(wire[c]) \in Msgs /\ wire' \in [Conns -> Seq(Msgs)]
    BY <1>6, <1>7 DEF RefuseMessage
  <2>2. PushTo(chan, c, ErrorEvent(Head(wire[c]))) \in [Conns -> Seq(Event)]
    BY <2>1, EventTypes, PushFacts
  <2> QED BY <1>7, <2>1, <2>2 DEF RefuseMessage
<1>8. ASSUME NEW c \in Conns, Lookup(c)
      PROVE  RelayTypeOK'
  <2>1. Head(wire[c]) \in Msgs /\ wire' \in [Conns -> Seq(Msgs)]
    BY <1>6, <1>8 DEF Lookup
  <2>2. clients[To[Head(wire[c])]] \in Conns \cup {None} BY <2>1 DEF TypeOK
  <2>3. job' \in [Conns -> Job] BY <1>8, <2>1, <2>2 DEF Lookup, Job
  <2> QED BY <1>8, <2>1, <2>3 DEF Lookup
<1>9. ASSUME NEW c \in Conns, Push(c)
      PROVE  RelayTypeOK'
  <2>1. job[c].msg \in Msgs /\ job[c].peer \in Conns
    BY <1>9 DEF Push, LinkInv, LocalsInPhase, LocalsOf
  <2>2. chan' \in [Conns -> Seq(Event)] BY <1>9, <2>1, EventTypes, PushFacts DEF Push
  <2>3. job' \in [Conns -> Job] BY <1>9, <2>1 DEF Push, Job, At
  <2> QED BY <1>9, <2>2, <2>3 DEF Push
<1>10. ASSUME NEW c \in Conns, Queue(c)
       PROVE  RelayTypeOK'
  <2>1. job[c].msg \in Msgs BY <1>10 DEF Queue, LinkInv, LocalsInPhase, LocalsOf
  <2>2. job' \in [Conns -> Job] BY <1>10, <2>1 DEF Queue, Job, At
  <2>3. queue' \in [Users -> Seq(Msgs)] /\ rows' \in Seq(Msgs) /\ lost' \subseteq Msgs
    <3>1. CASE UNCHANGED <<queue, rows>> BY <1>10, <2>1, <3>1 DEF Queue
    <3>2. CASE /\ queue' = [queue EXCEPT ![To[job[c].msg]] = Append(@, job[c].msg)]
               /\ rows' = Append(rows, job[c].msg)
               /\ UNCHANGED lost
      BY <2>1, <3>2
    <3> QED BY <1>10, <3>1, <3>2 DEF Queue
  <2> QED BY <1>10, <2>2, <2>3 DEF Queue
<1>11. ASSUME NEW c \in Conns, Echo(c)
       PROVE  RelayTypeOK'
  <2>1. job[c].msg \in Msgs BY <1>11 DEF Echo, LinkInv, LocalsInPhase, LocalsOf
  <2>2. chan' \in [Conns -> Seq(Event)] BY <1>11, <2>1, EventTypes, PushFacts DEF Echo
  <2>3. job' \in [Conns -> Job] BY <1>11 DEF Echo, Job, Idle, At
  <2> QED BY <1>11, <2>2, <2>3 DEF Echo
<1>12. ASSUME NEW c \in Conns, Forward(c)
       PROVE  RelayTypeOK'
  <2>1. Head(chan[c]) \in Event /\ Tail(chan[c]) \in Seq(Event)
    BY <1>12, ReceiveFacts DEF Forward
  <2>2. Head(chan[c]).msg \in Msgs BY <2>1 DEF Event
  <2>3. owner[c] \in Users
    BY <1>12 DEF Forward, Forwarding, RegistryInv, ActiveOwned, Active
  <2>4. bubble' \in [Msgs -> {"none", "sent", "delivered"}]
    BY <1>12, <2>2 DEF Forward, Handle
  <2>5. inbox' \in [Users -> Seq(Msgs)] BY <1>12, <2>2, <2>3 DEF Forward, Handle
  <2> QED BY <1>12, <2>1, <2>4, <2>5 DEF Forward
<1>13. ASSUME NEW c \in Conns, ForwardToDeadSocket(c)
       PROVE  RelayTypeOK'
  <2>1. Tail(chan[c]) \in Seq(Event) /\ <<Head(chan[c])>> \in Seq(Event)
    BY <1>13, ReceiveFacts DEF ForwardToDeadSocket
  <2>2. Carried(chan[c]) \subseteq Msgs /\ Carried(<<Head(chan[c])>>) \subseteq Msgs
    BY <2>1, CarriedType
  <2>3. lost' \subseteq Msgs BY <1>13, <2>2 DEF ForwardToDeadSocket
  <2>4. chan' \in [Conns -> Seq(Event)]
    <3>1. \/ chan' = [chan EXCEPT ![c] = Tail(@)]
          \/ chan' = [chan EXCEPT ![c] = <<>>]
      BY <1>13 DEF ForwardToDeadSocket
    <3>2. CASE chan' = [chan EXCEPT ![c] = Tail(@)] BY <2>1, <3>2
    <3>3. CASE chan' = [chan EXCEPT ![c] = <<>>] BY <3>3
    <3> QED BY <3>1, <3>2, <3>3
  <2>5. rx' \in [Conns -> BOOLEAN] BY <1>13 DEF ForwardToDeadSocket
  <2> QED BY <1>13, <2>3, <2>4, <2>5 DEF ForwardToDeadSocket
<1>14. ASSUME NEW c \in Conns, NEW m \in Msgs, Compose(c, m)
       PROVE  RelayTypeOK'
  <2>1. wire' = [wire EXCEPT ![c] = Append(@, m)] /\ wire[c] \in Seq(Msgs) BY <1>14 DEF Compose
  <2>2. Append(wire[c], m) \in Seq(Msgs) BY <2>1
  <2>3. wire' \in [Conns -> Seq(Msgs)] BY <2>1, <2>2
  <2>4. bubble' \in [Msgs -> {"none", "sent", "delivered"}] BY <1>14 DEF Compose
  <2> QED BY <1>14, <2>3, <2>4 DEF Compose
<1>15. ASSUME NEW m \in Msgs, ComposeOffline(m)
       PROVE  RelayTypeOK'
  BY <1>15 DEF ComposeOffline
<1>16. CASE RelayCrash
  <2>1. \A c \in Conns : /\ Carried(chan[c]) \subseteq Msgs /\ Range(wire[c]) \subseteq Msgs
                         /\ Range(drained[c]) \subseteq Msgs
    BY CarriedType, RangeType
  <2>2. \A c \in Conns : job[c].stage \in {"push", "queue"} => job[c].msg \in Msgs
    BY DEF LinkInv, LocalsInPhase, LocalsOf
  <2>3. lost' \subseteq Msgs BY <1>16, <2>1, <2>2 DEF RelayCrash
  <2> QED BY <1>16, <2>3 DEF RelayCrash, Job, Idle, At
<1>17. ASSUME NEW c \in Conns, TaskStep(c)
       PROVE  RelayTypeOK'
  BY <1>1, <1>2, <1>3, <1>4, <1>5, <1>7, <1>8, <1>9, <1>10, <1>11, <1>17
     DEF TaskStep, Handling, ProfileCommand, Elsewhere, RelayReject, RelayEnterLoop, RelayHangUp, RelayUnregister,
         RelayAnnounceOffline
<1> QED BY <1>1, <1>12, <1>13, <1>14, <1>15, <1>16, <1>17
        DEF RelayNext, vars, RelayOpen, RelayDisconnect, ForwardStep

-----------------------------------------------------------------------------
(* Channels, locals and addressees.                                        *)

(***************************************************************************)
(* A connection keeps its user once it has one, and never starts again.    *)
(***************************************************************************)
LEMMA OwnersStay ==
    ASSUME TypeOK, [Next]_sessionVars, NEW d \in Conns, pc[d] # "idle"
    PROVE  owner'[d] = owner[d] /\ pc'[d] # "idle"
<1> USE DEF TypeOK, Goto
<1>1. ASSUME NEW c \in Conns, NEW u \in Users, Open(c, u)
      PROVE  owner'[d] = owner[d] /\ pc'[d] # "idle"
  BY <1>1 DEF Open
<1>2. ASSUME NEW c \in Conns, Disconnect(c)
      PROVE  owner'[d] = owner[d] /\ pc'[d] # "idle"
  BY <1>2 DEF Disconnect
<1>3. ASSUME NEW c \in Conns, ServerStep(c)
      PROVE  owner'[d] = owner[d] /\ pc'[d] # "idle"
  BY <1>3 DEF ServerStep, Authenticate, Reject, Register, SetOnline, AnnounceOnline,
              Snapshot, EnterLoop, StatusWrite, HangUp, Unregister,
              ClearPresence, AnnounceOffline
<1>4. ASSUME NEW c \in Conns, NEW s, StatusRead(c, s)
      PROVE  owner'[d] = owner[d] /\ pc'[d] # "idle"
  BY <1>4 DEF StatusRead
<1>5. CASE Crash BY <1>5 DEF Crash
<1>6. CASE UNCHANGED sessionVars BY <1>6 DEF sessionVars
<1> QED BY <1>1, <1>2, <1>3, <1>4, <1>5, <1>6 DEF Next, MoodRead

(***************************************************************************)
(* Every step keeps receivers, channels and phases together.               *)
(***************************************************************************)
LEMMA ChannelStep ==
    RelayTypeOK /\ LinkInv /\ [RelayNext]_vars => ChannelsLinked'
<1> SUFFICES ASSUME RelayTypeOK, LinkInv, [RelayNext]_vars
             PROVE  ChannelsLinked'
  OBVIOUS
<1> USE DEF RelayTypeOK, TypeOK, LinkInv, ChannelsLinked, Unlinked, Settling, Goto
<1>1. ASSUME NEW c \in Conns, NEW u \in Users, RelayOpen(c, u)
      PROVE  ChannelsLinked'
  BY <1>1 DEF RelayOpen, Open, relayVars
<1>2. ASSUME NEW c \in Conns, RelayDisconnect(c)
      PROVE  ChannelsLinked'
  BY <1>2 DEF RelayDisconnect, Disconnect, relayVars
<1>3. ASSUME NEW c \in Conns, Elsewhere(c)
      PROVE  ChannelsLinked'
  BY <1>3 DEF Elsewhere, Authenticate, SetOnline, AnnounceOnline, ClearPresence, StatusWrite,
              relayVars
<1>23. ASSUME NEW c \in Conns, ProfileCommand(c)
       PROVE  ChannelsLinked'
  BY <1>23 DEF ProfileCommand, MoodRead, StatusRead, relayVars
<1>4. ASSUME NEW c \in Conns, TaskEnds(c), pc' = [pc EXCEPT ![c] = "done"]
      PROVE  ChannelsLinked'
  BY <1>4 DEF TaskEnds
<1>5. ASSUME NEW c \in Conns, RelayRegister(c)
      PROVE  ChannelsLinked'
  BY <1>5 DEF RelayRegister, Register
<1>6. ASSUME NEW c \in Conns, Drain(c)
      PROVE  ChannelsLinked'
  BY <1>6 DEF Drain, Snapshot
<1>7. ASSUME NEW d \in Conns, NEW e \in Event, chan' = PushTo(chan, d, e),
             rx' = rx, pc' = pc
      PROVE  ChannelsLinked'
  BY <1>7 DEF PushTo
<1>8. ASSUME NEW c \in Conns, Replay(c)
      PROVE  ChannelsLinked'
  <2> DEFINE m == Head(drained[c])
             peer == clients[From[m]]
             own == PushTo(chan, c, MessageEvent(m))
  <2>1. m \in Msgs BY <1>8, TailFacts DEF Replay
  <2>2. peer \in Conns \cup {None} BY <2>1, RelayAssumption
  <2>3. /\ chan' = IF peer = None THEN own ELSE PushTo(own, peer, ReceiptEvent(m))
        /\ rx' = rx /\ pc' = pc
    BY <1>8 DEF Replay, sessionVars
  <2>4. \A d \in Conns : ~ rx[d] => own[d] = chan[d] BY DEF PushTo
  <2>5. own \in [Conns -> Seq(Event)] BY <2>1, EventTypes, PushFacts
  <2>6. \A d \in Conns : ~ rx[d] => chan'[d] = own[d]
    <3> HIDE DEF own
    <3> QED BY <2>2, <2>3, <2>5 DEF PushTo
  <2> QED BY <2>3, <2>4, <2>6
<1>9. ASSUME NEW c \in Conns, RelayEnterLoop(c)
      PROVE  ChannelsLinked'
  BY <1>9 DEF RelayEnterLoop, EnterLoop, relayVars
<1>10. ASSUME NEW c \in Conns, RefuseMessage(c)
       PROVE  ChannelsLinked'
  <2>1. Head(wire[c]) \in Msgs BY <1>10, TailFacts DEF RefuseMessage, NextCommand
  <2>2. rx' = rx /\ pc' = pc BY <1>10 DEF RefuseMessage, sessionVars
  <2>3. CASE chan' = chan BY <2>2, <2>3
  <2>4. CASE chan' = PushTo(chan, c, ErrorEvent(Head(wire[c])))
    BY <1>7, <2>1, <2>2, <2>4, EventTypes
  <2> QED BY <1>10, <2>3, <2>4 DEF RefuseMessage
<1>11. ASSUME NEW c \in Conns, Lookup(c) \/ Queue(c)
       PROVE  ChannelsLinked'
  BY <1>11 DEF Lookup, Queue, sessionVars
<1>12. ASSUME NEW c \in Conns, Push(c)
       PROVE  ChannelsLinked'
  <2>1. job[c].msg \in Msgs /\ job[c].peer \in Conns BY <1>12 DEF Push, LocalsInPhase, LocalsOf
  <2>2. rx' = rx /\ pc' = pc BY <1>12 DEF Push, sessionVars
  <2>3. chan' = PushTo(chan, job[c].peer, MessageEvent(job[c].msg)) BY <1>12 DEF Push
  <2> QED BY <1>7, <2>1, <2>2, <2>3, EventTypes
<1>13. ASSUME NEW c \in Conns, Echo(c)
       PROVE  ChannelsLinked'
  <2>1. job[c].msg \in Msgs BY <1>13 DEF Echo, LocalsInPhase, LocalsOf
  <2>2. rx' = rx /\ pc' = pc BY <1>13 DEF Echo, sessionVars
  <2>3. chan' = PushTo(chan, c, EchoEvent(job[c].msg, job[c].stage = "echo_live"))
    BY <1>13 DEF Echo
  <2> QED BY <1>7, <2>1, <2>2, <2>3, EventTypes
<1>14. ASSUME NEW c \in Conns, RelayHangUp(c)
       PROVE  ChannelsLinked'
  BY <1>14 DEF RelayHangUp, HangUp, relayVars
<1>15. ASSUME NEW c \in Conns, RelayUnregister(c)
       PROVE  ChannelsLinked'
  <2>1. CASE clients[owner[c]] = c BY <1>15, <2>1 DEF RelayUnregister, Unregister, relayVars
  <2>2. CASE clients[owner[c]] # c BY <1>4, <1>15, <2>2 DEF RelayUnregister, Unregister
  <2> QED BY <2>1, <2>2
<1>16. ASSUME NEW c \in Conns, Forward(c)
       PROVE  ChannelsLinked'
  BY <1>16, ReceiveFacts DEF Forward, sessionVars
<1>17. ASSUME NEW c \in Conns, ForwardToDeadSocket(c)
       PROVE  ChannelsLinked'
  <2>1. pc' = pc /\ pc[c] \in Forwarding BY <1>17 DEF ForwardToDeadSocket, sessionVars
  <2>2. CASE chan' = [chan EXCEPT ![c] = Tail(@)] /\ rx' = rx
    BY <1>17, <2>1, <2>2 DEF ForwardToDeadSocket
  <2>3. CASE chan' = [chan EXCEPT ![c] = <<>>] /\ rx' = [rx EXCEPT ![c] = FALSE]
    BY <2>1, <2>3 DEF Forwarding
  <2> QED BY <1>17, <2>2, <2>3 DEF ForwardToDeadSocket
<1>18. ASSUME NEW c \in Conns, NEW m \in Msgs, Compose(c, m)
       PROVE  ChannelsLinked'
  BY <1>18 DEF Compose, sessionVars
<1>19. ASSUME NEW m \in Msgs, ComposeOffline(m)
       PROVE  ChannelsLinked'
  BY <1>19 DEF ComposeOffline, sessionVars
<1>20. CASE RelayCrash BY <1>20 DEF RelayCrash, Crash
<1>21. CASE UNCHANGED vars BY <1>21 DEF vars, sessionVars, relayVars
<1>22. ASSUME NEW c \in Conns, RelayReject(c) \/ RelayAnnounceOffline(c)
       PROVE  ChannelsLinked'
  BY <1>4, <1>22 DEF RelayReject, Reject, RelayAnnounceOffline, AnnounceOffline
<1> QED BY <1>1, <1>2, <1>3, <1>5, <1>6, <1>8, <1>9, <1>10, <1>11, <1>12, <1>13, <1>14,
           <1>15, <1>16, <1>17, <1>18, <1>19, <1>20, <1>21, <1>22, <1>23
        DEF RelayNext, TaskStep, Handling, ForwardStep

(***************************************************************************)
(* Every step keeps a task's locals in the phase that uses them.           *)
(***************************************************************************)
LEMMA LocalsStep ==
    RelayTypeOK /\ RegistryInv /\ LinkInv /\ [RelayNext]_vars => LocalsInPhase'
<1> SUFFICES ASSUME RelayTypeOK, RegistryInv, LinkInv, [RelayNext]_vars
             PROVE  LocalsInPhase'
  OBVIOUS
<1>0. \A d \in Conns : pc[d] # "idle" => owner'[d] = owner[d] /\ pc'[d] # "idle"
  BY RelayStepsAreSessionSteps, OwnersStay DEF RelayTypeOK
<1>p. \A u \in Users : clients[u] # None =>
         /\ clients[u] \in Conns /\ owner[clients[u]] = u /\ pc[clients[u]] # "idle"
  BY DEF RegistryInv, RegistryLive, Registered, TypeOK
<1> USE <1>0 DEF RelayTypeOK, LinkInv, LocalsInPhase, LocalsOf
<1>a. ASSUME job' = job, drained' = drained,
             \A d \in Conns : pc[d] \in {"replaying", "running"} => pc'[d] = pc[d]
      PROVE  LocalsInPhase'
  BY <1>a
<1>1. ASSUME NEW c \in Conns, NEW u \in Users, RelayOpen(c, u)
      PROVE  LocalsInPhase'
  BY <1>1, <1>a DEF RelayOpen, Open, relayVars, TypeOK
<1>2. ASSUME NEW c \in Conns, RelayDisconnect(c)
      PROVE  LocalsInPhase'
  BY <1>2, <1>a DEF RelayDisconnect, Disconnect, relayVars
<1>3. ASSUME NEW c \in Conns, Elsewhere(c)
      PROVE  LocalsInPhase'
  BY <1>3, <1>a DEF Elsewhere, Authenticate, SetOnline, AnnounceOnline, ClearPresence,
                    StatusWrite, relayVars, Goto, TypeOK
<1>19. ASSUME NEW c \in Conns, ProfileCommand(c)
       PROVE  LocalsInPhase'
  <2>1. job[c].stage = "idle" BY <1>19 DEF ProfileCommand, Idle, At
  <2>2. job' = job /\ drained' = drained BY <1>19 DEF ProfileCommand, relayVars
  <2>3. pc[c] = "running" /\ pc' = [pc EXCEPT ![c] = "setting"]
    BY <1>19 DEF ProfileCommand, MoodRead, StatusRead, Goto
  <2>4. \A d \in Conns : d # c => pc'[d] = pc[d] BY <2>3 DEF TypeOK
  <2> QED BY <2>1, <2>2, <2>3, <2>4 DEF TypeOK
<1>4. ASSUME NEW c \in Conns, RelayReject(c) \/ RelayAnnounceOffline(c) \/ RelayRegister(c)
      PROVE  LocalsInPhase'
  BY <1>4, <1>a DEF RelayReject, Reject, RelayAnnounceOffline, AnnounceOffline,
                    RelayRegister, Register, TaskEnds, Goto, TypeOK
<1>5. ASSUME NEW c \in Conns, Drain(c)
      PROVE  LocalsInPhase'
  <2>1. /\ job' = job /\ pc[c] = "announced" /\ pc' = [pc EXCEPT ![c] = "replaying"]
        /\ \A d \in Conns : d # c => drained'[d] = drained[d]
    BY <1>5 DEF Drain, Snapshot, Goto
  <2> QED BY <2>1 DEF TypeOK
<1>6. ASSUME NEW c \in Conns, Replay(c)
      PROVE  LocalsInPhase'
  BY <1>6 DEF Replay, sessionVars
<1>7. ASSUME NEW c \in Conns, RelayEnterLoop(c)
      PROVE  LocalsInPhase'
  BY <1>7 DEF RelayEnterLoop, EnterLoop, Goto, relayVars, TypeOK
<1>8. ASSUME NEW c \in Conns, RefuseMessage(c)
      PROVE  LocalsInPhase'
  BY <1>8, <1>a DEF RefuseMessage, sessionVars
<1>9. ASSUME NEW c \in Conns, Lookup(c)
      PROVE  LocalsInPhase'
  <2> DEFINE m == Head(wire[c])
             peer == clients[To[m]]
  <2>1. m \in Msgs BY <1>9, TailFacts DEF Lookup, NextCommand
  <2>2. To[m] \in Users BY <2>1, RelayAssumption
  <2>3. peer # None => peer \in Conns /\ owner[peer] = To[m] /\ pc[peer] # "idle"
    BY <1>p, <2>2
  <2>4. /\ job' = [job EXCEPT ![c] = [stage |-> IF peer = None THEN "queue" ELSE "push",
                                      msg |-> m, peer |-> peer]]
        /\ pc[c] = "running" /\ pc' = pc /\ owner' = owner /\ drained' = drained
    BY <1>9 DEF Lookup, NextCommand, sessionVars
  <2>5. /\ job'[c].stage # "idle" /\ job'[c].msg = m /\ job'[c].peer = peer
        /\ job'[c].stage = "push" => peer # None
        /\ \A d \in Conns : d # c => job'[d] = job[d]
    BY <2>4
  <2> HIDE DEF m, peer
  <2> SUFFICES ASSUME NEW d \in Conns
               PROVE  LocalsOf(d)'
    BY DEF LocalsInPhase
  <2>6. CASE d = c BY <2>1, <2>3, <2>4, <2>5, <2>6
  <2>7. CASE d # c BY <2>4, <2>5, <2>7
  <2> QED BY <2>6, <2>7
<1>10. ASSUME NEW c \in Conns, Push(c) \/ Queue(c)
       PROVE  LocalsInPhase'
  <2>1. /\ pc' = pc /\ owner' = owner /\ drained' = drained
        /\ job[c].stage \in {"push", "queue"}
        /\ \E st \in {"queue", "echo_live", "echo_queued"} :
                job' = [job EXCEPT ![c] = At(st, job[c].msg)]
    BY <1>10 DEF Push, Queue, sessionVars
  <2>2. /\ job'[c].stage \in {"queue", "echo_live", "echo_queued"}
        /\ job'[c].msg = job[c].msg
        /\ \A d \in Conns : d # c => job'[d] = job[d]
    BY <2>1 DEF At
  <2> SUFFICES ASSUME NEW d \in Conns
               PROVE  LocalsOf(d)'
    BY DEF LocalsInPhase
  <2>3. CASE d = c BY <2>1, <2>2, <2>3
  <2>4. CASE d # c BY <2>1, <2>2, <2>4
  <2> QED BY <2>3, <2>4
<1>11. ASSUME NEW c \in Conns, Echo(c)
       PROVE  LocalsInPhase'
  <2>1. /\ pc' = pc /\ drained' = drained /\ job' = [job EXCEPT ![c] = Idle]
    BY <1>11 DEF Echo, sessionVars
  <2> QED BY <2>1 DEF Idle, At
<1>12. ASSUME NEW c \in Conns, RelayHangUp(c)
       PROVE  LocalsInPhase'
  <2>1. job[c].stage = "idle" BY <1>12 DEF RelayHangUp, Idle, At
  <2> QED BY <1>12, <2>1 DEF RelayHangUp, HangUp, Goto, relayVars, TypeOK
<1>13. ASSUME NEW c \in Conns, RelayUnregister(c)
       PROVE  LocalsInPhase'
  BY <1>13, <1>a DEF RelayUnregister, Unregister, TaskEnds, relayVars, Goto, TypeOK
<1>14. ASSUME NEW c \in Conns, ForwardStep(c)
       PROVE  LocalsInPhase'
  BY <1>14, <1>a DEF ForwardStep, Forward, ForwardToDeadSocket, sessionVars
<1>15. ASSUME NEW c \in Conns, NEW m \in Msgs, Compose(c, m)
       PROVE  LocalsInPhase'
  BY <1>15, <1>a DEF Compose, sessionVars
<1>16. ASSUME NEW m \in Msgs, ComposeOffline(m)
       PROVE  LocalsInPhase'
  BY <1>16, <1>a DEF ComposeOffline, sessionVars
<1>17. CASE RelayCrash BY <1>17 DEF RelayCrash, Idle, At
<1>18. CASE UNCHANGED vars BY <1>18, <1>a DEF vars, sessionVars, relayVars
<1> QED BY <1>1, <1>2, <1>3, <1>4, <1>5, <1>6, <1>7, <1>8, <1>9, <1>10, <1>11, <1>12,
           <1>13, <1>14, <1>15, <1>16, <1>17, <1>18, <1>19 DEF RelayNext, TaskStep, Handling

(***************************************************************************)
(* No step puts a message in a store of somebody else than its addressee.  *)
(***************************************************************************)
LEMMA AddressStep ==
    RelayTypeOK /\ RegistryInv /\ LinkInv /\ [RelayNext]_vars => Addressed'
<1> SUFFICES ASSUME RelayTypeOK, RegistryInv, LinkInv, [RelayNext]_vars
             PROVE  Addressed'
  OBVIOUS
<1>0. \A d \in Conns : Range(drained[d]) \cup Carried(chan[d]) # {} => owner'[d] = owner[d]
  <2> SUFFICES ASSUME NEW d \in Conns, drained[d] # <<>> \/ chan[d] # <<>>
               PROVE  owner'[d] = owner[d]
    BY EmptyFacts
  <2>1. pc[d] # "idle" BY DEF LinkInv, LocalsInPhase, LocalsOf, ChannelsLinked, Unlinked
  <2> QED BY <2>1, RelayStepsAreSessionSteps, OwnersStay DEF RelayTypeOK
<1>u. Addressed BY DEF LinkInv
<1>c. ASSUME NEW d \in Conns, NEW e \in Event, NEW ch \in [Conns -> Seq(Event)],
             NEW x \in Conns
      PROVE  Carried(PushTo(ch, d, e)[x]) \subseteq
                Carried(ch[x]) \cup (IF x = d /\ e.kind = "message" THEN {e.msg} ELSE {})
  <2>1. CASE x = d /\ rx[d] /\ e.kind = "message"
    <3>1. Carried(PushTo(ch, d, e)[d]) = Carried(ch[d]) \cup {e.msg} BY <2>1, PushAdds
    <3> QED BY <2>1, <3>1
  <2>2. CASE x # d \/ ~ rx[d] \/ e.kind # "message"
    <3>1. Carried(PushTo(ch, d, e)[x]) = Carried(ch[x]) BY <2>2, PushLeaves
    <3> QED BY <3>1
  <2> QED BY <2>1, <2>2
<1> USE DEF RelayTypeOK
<1>a. ASSUME \A u \in Users : /\ Range(queue'[u]) \subseteq Range(queue[u])
                              /\ Range(inbox'[u]) \subseteq Range(inbox[u]),
             \A d \in Conns : /\ Range(drained'[d]) \subseteq Range(drained[d])
                              /\ Carried(chan'[d]) \subseteq Carried(chan[d])
      PROVE  Addressed'
  BY <1>0, <1>a, <1>u DEF Addressed
<1>1. CASE UNCHANGED relayVars BY <1>1, <1>a DEF relayVars
<1>2. ASSUME NEW c \in Conns, TaskEnds(c)
      PROVE  Addressed'
  BY <1>2, <1>a, EmptyFacts DEF TaskEnds
<1>3. ASSUME NEW c \in Conns, RelayRegister(c)
      PROVE  Addressed'
  BY <1>3, <1>a DEF RelayRegister
<1>4. ASSUME NEW c \in Conns, Drain(c)
      PROVE  Addressed'
  <2>1. /\ chan' = chan /\ inbox' = inbox /\ owner' = owner /\ owner[c] \in Users
        /\ \/ /\ queue' = [queue EXCEPT ![owner[c]] = <<>>]
              /\ drained' = [drained EXCEPT ![c] = queue[owner[c]]]
           \/ queue' = queue /\ drained' = drained
    BY <1>4 DEF Drain, RowsFor, Snapshot, Goto, RegistryInv, ActiveOwned, Active
  <2>2. CASE queue' = queue /\ drained' = drained BY <1>a, <2>1, <2>2
  <2>3. CASE /\ queue' = [queue EXCEPT ![owner[c]] = <<>>]
             /\ drained' = [drained EXCEPT ![c] = queue[owner[c]]]
    BY <1>u, <2>1, <2>3, EmptyFacts DEF Addressed
  <2> QED BY <2>1, <2>2, <2>3
<1>b. ASSUME NEW d \in Conns, NEW m \in Msgs, To[m] = owner[d], owner' = owner,
             queue' = queue, inbox' = inbox,
             \A x \in Conns : /\ Range(drained'[x]) \subseteq Range(drained[x])
                              /\ Carried(chan'[x]) \subseteq
                                    Carried(chan[x]) \cup (IF x = d THEN {m} ELSE {})
      PROVE  Addressed'
  BY <1>b, <1>u DEF Addressed
<1>5. ASSUME NEW c \in Conns, Replay(c)
      PROVE  Addressed'
  <2> DEFINE m == Head(drained[c])
             peer == clients[From[m]]
             own == PushTo(chan, c, MessageEvent(m))
  <2>1. /\ m \in Msgs /\ m \in Range(drained[c])
        /\ Range(Tail(drained[c])) \subseteq Range(drained[c])
    BY <1>5, TailFacts DEF Replay
  <2>2. peer \in Conns \cup {None} BY <2>1, RelayAssumption DEF TypeOK
  <2>3. own \in [Conns -> Seq(Event)] BY <2>1, EventTypes, PushFacts
  <2>4. /\ drained' = [drained EXCEPT ![c] = Tail(@)]
        /\ chan' = IF peer = None THEN own ELSE PushTo(own, peer, ReceiptEvent(m))
        /\ owner' = owner /\ queue' = queue /\ inbox' = inbox
    BY <1>5 DEF Replay, sessionVars
  <2>5. To[m] = owner[c] BY <1>u, <2>1 DEF Addressed
  <2>6. \A x \in Conns : Carried(own[x]) \subseteq
                            Carried(chan[x]) \cup (IF x = c THEN {m} ELSE {})
    <3>1. MessageEvent(m) \in Event /\ MessageEvent(m).kind = "message"
          /\ MessageEvent(m).msg = m
      BY <2>1, EventTypes DEF MessageEvent
    <3> QED BY <1>c, <3>1
  <2>7. \A x \in Conns : Carried(chan'[x]) \subseteq Carried(own[x])
    <3>1. ReceiptEvent(m) \in Event /\ ReceiptEvent(m).kind # "message"
      BY <2>1, EventTypes DEF ReceiptEvent
    <3> HIDE DEF own, m, peer
    <3> QED BY <1>c, <2>2, <2>3, <2>4, <3>1
  <2>8. \A x \in Conns : Range(drained'[x]) \subseteq Range(drained[x])
    BY <2>1, <2>4
  <2> HIDE DEF m, peer, own
  <2> QED BY <1>b, <2>1, <2>4, <2>5, <2>6, <2>7, <2>8
<1>6. ASSUME NEW c \in Conns, RefuseMessage(c)
      PROVE  Addressed'
  <2>1. Head(wire[c]) \in Msgs BY <1>6, TailFacts DEF RefuseMessage, NextCommand
  <2>2. /\ queue' = queue /\ inbox' = inbox /\ drained' = drained
        /\ chan' \in {chan, PushTo(chan, c, ErrorEvent(Head(wire[c])))}
    BY <1>6 DEF RefuseMessage
  <2>3. ErrorEvent(Head(wire[c])) \in Event /\ ErrorEvent(Head(wire[c])).kind # "message"
    BY <2>1, EventTypes DEF ErrorEvent
  <2>4. \A x \in Conns : Carried(chan'[x]) \subseteq Carried(chan[x])
    BY <1>c, <2>2, <2>3
  <2> QED BY <1>a, <2>2, <2>4
<1>7. ASSUME NEW c \in Conns, Lookup(c)
      PROVE  Addressed'
  BY <1>7, <1>a DEF Lookup
<1>8. ASSUME NEW c \in Conns, Push(c)
      PROVE  Addressed'
  <2> DEFINE m == job[c].msg
             peer == job[c].peer
  <2>1. m \in Msgs /\ peer \in Conns /\ To[m] = owner[peer]
    BY <1>8 DEF Push, LinkInv, LocalsInPhase, LocalsOf
  <2>2. /\ chan' = PushTo(chan, peer, MessageEvent(m))
        /\ owner' = owner /\ queue' = queue /\ inbox' = inbox /\ drained' = drained
    BY <1>8 DEF Push, sessionVars
  <2>3. \A x \in Conns : Carried(chan'[x]) \subseteq
                            Carried(chan[x]) \cup (IF x = peer THEN {m} ELSE {})
    <3>1. MessageEvent(m) \in Event /\ MessageEvent(m).kind = "message"
          /\ MessageEvent(m).msg = m
      BY <2>1, EventTypes DEF MessageEvent
    <3> QED BY <1>c, <2>1, <2>2, <3>1
  <2> HIDE DEF m, peer
  <2> QED BY <1>b, <2>1, <2>2, <2>3
<1>9. ASSUME NEW c \in Conns, Queue(c)
      PROVE  Addressed'
  <2> DEFINE m == job[c].msg
  <2>1. m \in Msgs /\ To[m] \in Users
    BY <1>9, RelayAssumption DEF Queue, LinkInv, LocalsInPhase, LocalsOf
  <2>2. owner' = owner /\ chan' = chan /\ inbox' = inbox /\ drained' = drained
    BY <1>9 DEF Queue, sessionVars
  <2>3. CASE queue' = queue BY <1>a, <2>2, <2>3
  <2>4. CASE queue' = [queue EXCEPT ![To[m]] = Append(@, m)]
    <3>1. Range(Append(queue[To[m]], m)) = Range(queue[To[m]]) \cup {m}
      BY <2>1, AppendFacts
    <3>2. \A u \in Users : Range(queue'[u]) =
             IF u = To[m] THEN Range(queue[u]) \cup {m} ELSE Range(queue[u])
      BY <2>1, <2>4, <3>1
    <3> HIDE DEF m
    <3>3. ASSUME NEW u \in Users, NEW x \in Range(queue'[u]) PROVE To[x] = u
      <4>1. CASE u = To[m]
        <5>1. x \in Range(queue[u]) \/ x = m BY <3>2, <3>3, <4>1
        <5> QED BY <1>u, <4>1, <5>1 DEF Addressed
      <4>2. CASE u # To[m] BY <1>u, <3>2, <3>3, <4>2 DEF Addressed
      <4> QED BY <4>1, <4>2
    <3> QED BY <1>u, <2>2, <3>3 DEF Addressed
  <2> QED BY <1>9, <2>3, <2>4 DEF Queue
<1>10. ASSUME NEW c \in Conns, Echo(c)
       PROVE  Addressed'
  <2> DEFINE e == EchoEvent(job[c].msg, job[c].stage = "echo_live")
  <2>1. job[c].msg \in Msgs BY <1>10 DEF Echo, LinkInv, LocalsInPhase, LocalsOf
  <2>2. e \in Event /\ e.kind # "message" BY <2>1, EventTypes DEF EchoEvent
  <2>3. chan' = PushTo(chan, c, e) /\ queue' = queue /\ inbox' = inbox /\ drained' = drained
    BY <1>10 DEF Echo
  <2> HIDE DEF e
  <2>4. \A x \in Conns : Carried(chan'[x]) \subseteq Carried(chan[x])
    BY <1>c, <2>2, <2>3
  <2> QED BY <1>a, <2>3, <2>4
<1>11. ASSUME NEW c \in Conns, Forward(c)
       PROVE  Addressed'
  <2> DEFINE e == Head(chan[c])
  <2>1. /\ e \in Event /\ chan' = [chan EXCEPT ![c] = Tail(@)]
        /\ Carried(chan[c]) = Carried(Tail(chan[c]))
                                \cup (IF e.kind = "message" THEN {e.msg} ELSE {})
    BY <1>11, ReceiveFacts DEF Forward
  <2>2. /\ owner' = owner /\ queue' = queue /\ drained' = drained
        /\ inbox' = IF e.kind = "message" THEN [inbox EXCEPT ![owner[c]] = Append(@, e.msg)]
                                          ELSE inbox
    BY <1>11 DEF Forward, Handle, sessionVars
  <2>3. owner[c] \in Users
    BY <1>11 DEF Forward, Forwarding, RegistryInv, ActiveOwned, Active
  <2>4. e.msg \in Msgs BY <2>1 DEF Event
  <2>5. e.kind = "message" => To[e.msg] = owner[c] BY <1>u, <2>1 DEF Addressed
  <2>6. \A x \in Conns : Carried(chan'[x]) \subseteq Carried(chan[x])
    BY <2>1
  <2> HIDE DEF e
  <2>7. \A u \in Users : Range(inbox'[u]) \subseteq
           Range(inbox[u]) \cup (IF u = owner[c] /\ e.kind = "message" THEN {e.msg} ELSE {})
    BY <2>2, <2>3, <2>4, AppendFacts
  <2> QED BY <1>u, <2>2, <2>5, <2>6, <2>7 DEF Addressed
<1>12. ASSUME NEW c \in Conns, ForwardToDeadSocket(c)
       PROVE  Addressed'
  <2>1. Carried(Tail(chan[c])) \subseteq Carried(chan[c])
    <3>1. chan[c] \in Seq(Event) /\ chan[c] # <<>> BY <1>12 DEF ForwardToDeadSocket
    <3>2. Carried(chan[c]) = Carried(Tail(chan[c]))
             \cup (IF Head(chan[c]).kind = "message" THEN {Head(chan[c]).msg} ELSE {})
      BY <3>1, ReceiveFacts
    <3> QED BY <3>2
  <2>2. queue' = queue /\ inbox' = inbox /\ drained' = drained
    BY <1>12 DEF ForwardToDeadSocket
  <2>3. \A x \in Conns : Carried(chan'[x]) \subseteq Carried(chan[x])
    BY <1>12, <2>1, EmptyFacts DEF ForwardToDeadSocket
  <2> QED BY <1>a, <2>2, <2>3
<1>13. ASSUME NEW c \in Conns, NEW m \in Msgs, Compose(c, m)
       PROVE  Addressed'
  BY <1>13, <1>a DEF Compose
<1>14. ASSUME NEW m \in Msgs, ComposeOffline(m)
       PROVE  Addressed'
  BY <1>14, <1>a DEF ComposeOffline
<1>15. CASE RelayCrash BY <1>15, <1>a, EmptyFacts DEF RelayCrash
<1>16. ASSUME NEW c \in Conns, TaskStep(c)
       PROVE  Addressed'
  BY <1>1, <1>2, <1>3, <1>4, <1>5, <1>6, <1>7, <1>8, <1>9, <1>10, <1>16
     DEF TaskStep, Handling, ProfileCommand, Elsewhere, RelayReject, RelayEnterLoop, RelayHangUp, RelayUnregister,
         RelayAnnounceOffline
<1> QED BY <1>1, <1>11, <1>12, <1>13, <1>14, <1>15, <1>16
        DEF RelayNext, vars, RelayOpen, RelayDisconnect, ForwardStep

-----------------------------------------------------------------------------
(* The delivered tick.                                                     *)

(***************************************************************************)
(* What a channel promises grows by what is pushed and shrinks by what is  *)
(* forwarded.                                                              *)
(***************************************************************************)
LEMMA PromiseSent ==
    ASSUME NEW ch \in Seq(Event), NEW e \in Event
    PROVE  /\ Promised(Append(ch, e)) \subseteq Promised(ch) \cup {e.msg}
           /\ ~ SaysDelivered(e) => Promised(Append(ch, e)) \subseteq Promised(ch)
<1> DEFINE t == Append(ch, e)
           n == Len(ch) + 1
<1>1. /\ t[n] = e
      /\ \A i \in DOMAIN t : i # n => i \in DOMAIN ch /\ t[i] = ch[i]
  OBVIOUS
<1> HIDE DEF t, n
<1> SUFFICES ASSUME NEW x \in Promised(t)
             PROVE  x \in Promised(ch) \/ (x = e.msg /\ SaysDelivered(e))
  BY DEF t
<1>2. PICK i \in DOMAIN t : SaysDelivered(t[i]) /\ x = t[i].msg BY DEF Promised
<1> QED BY <1>1, <1>2 DEF Promised

LEMMA PromiseReceived ==
    ASSUME NEW ch \in Seq(Event), ch # <<>>
    PROVE  /\ Promised(Tail(ch)) \subseteq Promised(ch)
           /\ SaysDelivered(Head(ch)) => Head(ch).msg \in Promised(ch)
<1> DEFINE t == Tail(ch)
<1>1. /\ 1 \in DOMAIN ch /\ Head(ch) = ch[1]
      /\ \A i \in DOMAIN t : i + 1 \in DOMAIN ch /\ t[i] = ch[i + 1]
  BY TailShape
<1> HIDE DEF t
<1>2. ASSUME NEW x \in Promised(t) PROVE x \in Promised(ch)
  <2>1. PICK i \in DOMAIN t : SaysDelivered(t[i]) /\ x = t[i].msg BY DEF Promised
  <2> QED BY <1>1, <2>1 DEF Promised
<1>3. SaysDelivered(Head(ch)) => Head(ch).msg \in Promised(ch) BY <1>1 DEF Promised
<1> QED BY <1>2, <1>3 DEF t

LEMMA PromisePushed ==
    ASSUME NEW ch \in [Conns -> Seq(Event)], NEW d \in Conns, NEW e \in Event,
           NEW x \in Conns
    PROVE  /\ Promised(PushTo(ch, d, e)[x]) \subseteq Promised(ch[x]) \cup {e.msg}
           /\ ~ SaysDelivered(e) => Promised(PushTo(ch, d, e)[x]) \subseteq Promised(ch[x])
<1>1. CASE x # d \/ ~ rx[d]
  <2>1. PushTo(ch, d, e)[x] = ch[x] BY <1>1, PushFacts
  <2> QED BY <2>1
<1>2. CASE x = d /\ rx[d]
  <2>1. PushTo(ch, d, e)[x] = Append(ch[x], e) /\ ch[x] \in Seq(Event) BY <1>2, PushFacts
  <2> QED BY <2>1, PromiseSent
<1> QED BY <1>1, <1>2

LEMMA PromiseNone == Promised(<<>>) = {} /\ Mentioned(<<>>) = {}
BY DEF Promised, Mentioned

(***************************************************************************)
(* The same for the messages that the events of a channel name.            *)
(***************************************************************************)
LEMMA MentionSent ==
    ASSUME NEW ch \in Seq(Event), NEW e \in Event
    PROVE  Mentioned(Append(ch, e)) \subseteq Mentioned(ch) \cup {e.msg}
<1> DEFINE t == Append(ch, e)
           n == Len(ch) + 1
<1>1. /\ t[n] = e
      /\ \A i \in DOMAIN t : i # n => i \in DOMAIN ch /\ t[i] = ch[i]
  OBVIOUS
<1> HIDE DEF t, n
<1> SUFFICES ASSUME NEW x \in Mentioned(t)
             PROVE  x \in Mentioned(ch) \cup {e.msg}
  BY DEF t
<1>2. PICK i \in DOMAIN t : x = t[i].msg BY DEF Mentioned
<1> QED BY <1>1, <1>2 DEF Mentioned

LEMMA MentionReceived ==
    ASSUME NEW ch \in Seq(Event), ch # <<>>
    PROVE  Mentioned(Tail(ch)) \cup {Head(ch).msg} \subseteq Mentioned(ch)
<1> DEFINE t == Tail(ch)
<1>1. /\ 1 \in DOMAIN ch /\ Head(ch) = ch[1]
      /\ \A i \in DOMAIN t : i + 1 \in DOMAIN ch /\ t[i] = ch[i + 1]
  BY TailShape
<1> HIDE DEF t
<1>2. ASSUME NEW x \in Mentioned(t) PROVE x \in Mentioned(ch)
  <2>1. PICK i \in DOMAIN t : x = t[i].msg BY DEF Mentioned
  <2> QED BY <1>1, <2>1 DEF Mentioned
<1>3. Head(ch).msg \in Mentioned(ch) BY <1>1 DEF Mentioned
<1> QED BY <1>2, <1>3 DEF t

LEMMA MentionPushed ==
    ASSUME NEW ch \in [Conns -> Seq(Event)], NEW d \in Conns, NEW e \in Event,
           NEW x \in Conns
    PROVE  Mentioned(PushTo(ch, d, e)[x]) \subseteq Mentioned(ch[x]) \cup {e.msg}
<1>1. CASE x # d \/ ~ rx[d]
  <2>1. PushTo(ch, d, e)[x] = ch[x] BY <1>1, PushFacts
  <2> QED BY <2>1
<1>2. CASE x = d /\ rx[d]
  <2>1. PushTo(ch, d, e)[x] = Append(ch[x], e) /\ ch[x] \in Seq(Event) BY <1>2, PushFacts
  <2> QED BY <2>1, MentionSent
<1> QED BY <1>1, <1>2

LEMMA CarriedMentioned == ASSUME NEW ch PROVE Carried(ch) \subseteq Mentioned(ch)
BY DEF Carried, Mentioned

(***************************************************************************)
(* A push takes nothing out of a channel.                                  *)
(***************************************************************************)
LEMMA PushKeeps ==
    ASSUME NEW ch \in [Conns -> Seq(Event)], NEW d \in Conns, NEW e \in Event,
           NEW x \in Conns
    PROVE  Carried(ch[x]) \subseteq Carried(PushTo(ch, d, e)[x])
<1>1. CASE x = d /\ rx[d] /\ e.kind = "message"
  <2>1. Carried(PushTo(ch, d, e)[d]) = Carried(ch[d]) \cup {e.msg} BY <1>1, PushAdds
  <2> QED BY <1>1, <2>1
<1>2. CASE x # d \/ ~ rx[d] \/ e.kind # "message"
  <2>1. Carried(PushTo(ch, d, e)[x]) = Carried(ch[x]) BY <1>2, PushLeaves
  <2> QED BY <2>1
<1> QED BY <1>1, <1>2

-----------------------------------------------------------------------------
(* What the actions that move a message do, in terms of sets of messages.  *)

SameCarried == \A x \in Conns : Carried(chan'[x]) = Carried(chan[x])
KeepsOnce == \A x \in Conns : CarriedOnce(chan[x]) => CarriedOnce(chan'[x])

(***************************************************************************)
(* One turn of the replay loop moves a row to the task's own channel.      *)
(***************************************************************************)
LEMMA ReplayEffect ==
    ASSUME RelayTypeOK, LinkInv, NEW c \in Conns, Replay(c)
    PROVE  \E m \in Msgs :
             /\ drained[c] # <<>> /\ m = Head(drained[c]) /\ To[m] = owner[c]
             /\ drained' = [drained EXCEPT ![c] = Tail(@)]
             /\ Carried(chan'[c]) = Carried(chan[c]) \cup {m}
             /\ \A x \in Conns : x # c => Carried(chan'[x]) = Carried(chan[x])
             /\ \A x \in Conns : Promised(chan'[x]) \subseteq Promised(chan[x]) \cup {m}
             /\ \A x \in Conns : Mentioned(chan'[x]) \subseteq Mentioned(chan[x]) \cup {m}
             /\ m \notin Carried(chan[c]) => KeepsOnce
<1> DEFINE m == Head(drained[c])
           peer == clients[From[m]]
           msg == MessageEvent(m)
           receipt == ReceiptEvent(m)
           own == PushTo(chan, c, msg)
<1>1. drained[c] \in Seq(Msgs) /\ drained[c] # <<>> /\ chan \in [Conns -> Seq(Event)]
  BY DEF Replay, RelayTypeOK
<1>2. m \in Msgs /\ m \in Range(drained[c]) BY <1>1, TailFacts
<1>3. peer \in Conns \cup {None}
  BY <1>2, RelayAssumption DEF RelayTypeOK, TypeOK
<1>4. To[m] = owner[c] BY <1>2 DEF LinkInv, Addressed
<1>5. rx[c] BY DEF LinkInv, ChannelsLinked, Settling, Replay
<1>6. /\ msg \in Event /\ msg.kind = "message" /\ msg.msg = m
      /\ receipt \in Event /\ receipt.kind # "message" /\ receipt.msg = m
  BY <1>2, EventTypes DEF MessageEvent, ReceiptEvent
<1>7. /\ drained' = [drained EXCEPT ![c] = Tail(@)]
      /\ chan' = IF peer = None THEN own ELSE PushTo(own, peer, receipt)
  BY DEF Replay
<1> HIDE DEF m, peer, msg, receipt
<1>8. own \in [Conns -> Seq(Event)] BY <1>1, <1>6, PushFacts
<1>9. Carried(own[c]) = Carried(chan[c]) \cup {m}
  <2>1. Carried(PushTo(chan, c, msg)[c]) = Carried(chan[c]) \cup {msg.msg}
    BY <1>1, <1>5, <1>6, PushAdds
  <2> QED BY <1>6, <2>1
<1>10. \A x \in Conns : x # c => Carried(own[x]) = Carried(chan[x])
  BY <1>1, <1>6, PushLeaves
<1>11. \A x \in Conns : Promised(own[x]) \subseteq Promised(chan[x]) \cup {m}
  BY <1>1, <1>6, PromisePushed
<1>n. \A x \in Conns : Mentioned(own[x]) \subseteq Mentioned(chan[x]) \cup {m}
  BY <1>1, <1>6, MentionPushed
<1>12. ASSUME NEW x \in Conns, m \notin Carried(chan[c]), CarriedOnce(chan[x])
       PROVE  CarriedOnce(own[x])
  <2>1. CASE x = c BY <1>1, <1>6, <1>12, <2>1, PushOnce
  <2>2. CASE x # c
    <3>1. own[x] = chan[x] BY <1>1, <1>6, <2>2, PushFacts
    <3> QED BY <1>12, <3>1
  <2> QED BY <2>1, <2>2
<1> HIDE DEF own
<1>13. \A x \in Conns : /\ Carried(chan'[x]) = Carried(own[x])
                        /\ Promised(chan'[x]) \subseteq Promised(own[x]) \cup {m}
                        /\ Mentioned(chan'[x]) \subseteq Mentioned(own[x]) \cup {m}
                        /\ CarriedOnce(own[x]) => CarriedOnce(chan'[x])
  <2>1. CASE peer = None BY <1>7, <2>1
  <2>2. CASE peer # None
    <3>1. peer \in Conns /\ chan' = PushTo(own, peer, receipt) BY <1>3, <1>7, <2>2
    <3>2. \A x \in Conns : Carried(chan'[x]) = Carried(own[x])
      BY <1>6, <1>8, <3>1, PushLeaves
    <3>3. \A x \in Conns : Promised(chan'[x]) \subseteq Promised(own[x]) \cup {m}
      BY <1>6, <1>8, <3>1, PromisePushed
    <3>4. \A x \in Conns : CarriedOnce(own[x]) => CarriedOnce(chan'[x])
      BY <1>6, <1>8, <3>1, PushOnce
    <3>5. \A x \in Conns : Mentioned(chan'[x]) \subseteq Mentioned(own[x]) \cup {m}
      BY <1>6, <1>8, <3>1, MentionPushed
    <3> QED BY <3>2, <3>3, <3>4, <3>5
  <2> QED BY <2>1, <2>2
<1>14. Carried(chan'[c]) = Carried(chan[c]) \cup {m} BY <1>9, <1>13
<1>15. \A x \in Conns : x # c => Carried(chan'[x]) = Carried(chan[x]) BY <1>10, <1>13
<1>16. \A x \in Conns : Promised(chan'[x]) \subseteq Promised(chan[x]) \cup {m}
  BY <1>11, <1>13
<1>o. \A x \in Conns : Mentioned(chan'[x]) \subseteq Mentioned(chan[x]) \cup {m}
  BY <1>n, <1>13
<1>17. m \notin Carried(chan[c]) => KeepsOnce BY <1>12, <1>13 DEF KeepsOnce
<1>18. m = Head(drained[c]) BY DEF m
<1> QED BY <1>1, <1>2, <1>4, <1>7, <1>14, <1>15, <1>16, <1>o, <1>17, <1>18

(***************************************************************************)
(* Events that carry no message: an error, an echo.                        *)
(***************************************************************************)
LEMMA RefuseEffect ==
    ASSUME RelayTypeOK, NEW c \in Conns, RefuseMessage(c)
    PROVE  /\ wire[c] # <<>> /\ wire' = [wire EXCEPT ![c] = Tail(@)]
           /\ SameCarried /\ KeepsOnce
           /\ \A x \in Conns : Promised(chan'[x]) \subseteq Promised(chan[x])
           /\ \A x \in Conns : Mentioned(chan'[x]) \subseteq Mentioned(chan[x]) \cup {Head(wire[c])}
<1> DEFINE e == ErrorEvent(Head(wire[c]))
<1>1. /\ wire[c] \in Seq(Msgs) /\ wire[c] # <<>> /\ wire' = [wire EXCEPT ![c] = Tail(@)]
      /\ chan' \in {chan, PushTo(chan, c, e)} /\ chan \in [Conns -> Seq(Event)]
  BY DEF RefuseMessage, NextCommand, RelayTypeOK
<1>2. Head(wire[c]) \in Msgs BY <1>1, TailFacts
<1>3. e \in Event /\ e.kind # "message" /\ ~ SaysDelivered(e) /\ e.msg = Head(wire[c])
  BY <1>2, EventTypes DEF ErrorEvent, SaysDelivered
<1> HIDE DEF e
<1>4. CASE chan' = chan BY <1>1, <1>4 DEF SameCarried, KeepsOnce
<1>5. CASE chan' = PushTo(chan, c, e)
  <2>1. SameCarried BY <1>1, <1>3, <1>5, PushLeaves DEF SameCarried
  <2>2. KeepsOnce BY <1>1, <1>3, <1>5, PushOnce DEF KeepsOnce
  <2>3. \A x \in Conns : Promised(chan'[x]) \subseteq Promised(chan[x])
    BY <1>1, <1>3, <1>5, PromisePushed
  <2>4. \A x \in Conns : Mentioned(chan'[x]) \subseteq Mentioned(chan[x]) \cup {Head(wire[c])}
    BY <1>1, <1>3, <1>5, MentionPushed
  <2> QED BY <1>1, <2>1, <2>2, <2>3, <2>4
<1> QED BY <1>1, <1>4, <1>5

LEMMA EchoEffect ==
    ASSUME RelayTypeOK, LinkInv, NEW c \in Conns, Echo(c)
    PROVE  /\ SameCarried /\ KeepsOnce
           /\ \A x \in Conns :
                Promised(chan'[x]) \subseteq Promised(chan[x]) \cup
                    (IF job[c].stage = "echo_live" THEN {job[c].msg} ELSE {})
           /\ \A x \in Conns : Mentioned(chan'[x]) \subseteq Mentioned(chan[x]) \cup {job[c].msg}
<1> DEFINE live == job[c].stage = "echo_live"
           e == EchoEvent(job[c].msg, live)
<1>1. chan' = PushTo(chan, c, e) /\ chan \in [Conns -> Seq(Event)]
  BY DEF Echo, RelayTypeOK
<1>2. job[c].msg \in Msgs BY DEF Echo, LinkInv, LocalsInPhase, LocalsOf
<1>3. /\ e \in Event /\ e.kind # "message" /\ e.msg = job[c].msg
      /\ ~ live => ~ SaysDelivered(e)
  BY <1>2, EventTypes DEF EchoEvent, SaysDelivered
<1> HIDE DEF e
<1>4. SameCarried BY <1>1, <1>3, PushLeaves DEF SameCarried
<1>5. KeepsOnce BY <1>1, <1>3, PushOnce DEF KeepsOnce
<1>n. \A x \in Conns : Mentioned(chan'[x]) \subseteq Mentioned(chan[x]) \cup {job[c].msg}
  BY <1>1, <1>3, MentionPushed
<1>6. CASE live
  <2>1. \A x \in Conns : Promised(chan'[x]) \subseteq Promised(chan[x]) \cup {job[c].msg}
    BY <1>1, <1>3, PromisePushed
  <2> QED BY <1>4, <1>5, <1>n, <1>6, <2>1
<1>7. CASE ~ live
  <2>1. \A x \in Conns : Promised(chan'[x]) \subseteq Promised(chan[x])
    BY <1>1, <1>3, <1>7, PromisePushed
  <2> QED BY <1>4, <1>5, <1>n, <1>7, <2>1
<1> QED BY <1>6, <1>7

(***************************************************************************)
(* The hand-over to the cloned session, or the way to the queue.           *)
(***************************************************************************)
LEMMA PushEffect ==
    ASSUME RelayTypeOK, LinkInv, NEW c \in Conns, Push(c)
    PROVE  \E m \in Msgs : \E peer \in Conns :
             /\ job[c].stage = "push" /\ job[c].msg = m /\ To[m] = owner[peer]
             /\ \/ /\ rx[peer] /\ job' = [job EXCEPT ![c] = At("echo_live", m)]
                   /\ Carried(chan'[peer]) = Carried(chan[peer]) \cup {m}
                \/ /\ job' = [job EXCEPT ![c] = At("queue", m)]
                   /\ Carried(chan'[peer]) = Carried(chan[peer])
             /\ \A x \in Conns : x # peer => Carried(chan'[x]) = Carried(chan[x])
             /\ \A x \in Conns : Promised(chan'[x]) \subseteq Promised(chan[x])
             /\ \A x \in Conns : Mentioned(chan'[x]) \subseteq Mentioned(chan[x]) \cup {m}
             /\ (\A x \in Conns : m \notin Carried(chan[x])) => KeepsOnce
<1> DEFINE m == job[c].msg
           peer == job[c].peer
           e == MessageEvent(m)
<1>1. /\ m \in Msgs /\ peer \in Conns /\ job[c].stage = "push" /\ To[m] = owner[peer]
  BY DEF Push, LinkInv, LocalsInPhase, LocalsOf
<1>2. chan' = PushTo(chan, peer, e) /\ chan \in [Conns -> Seq(Event)]
  BY DEF Push, RelayTypeOK
<1>3. job' = [job EXCEPT ![c] = IF rx[peer] THEN At("echo_live", m) ELSE At("queue", m)]
  BY DEF Push
<1>4. e \in Event /\ e.kind = "message" /\ e.msg = m /\ ~ SaysDelivered(e)
  BY <1>1, EventTypes DEF MessageEvent, SaysDelivered
<1>m. job[c].msg = m OBVIOUS
<1> HIDE DEF m, peer, e
<1>5. rx[peer] => Carried(chan'[peer]) = Carried(chan[peer]) \cup {m}
  BY <1>1, <1>2, <1>4, PushAdds
<1>6. ~ rx[peer] => Carried(chan'[peer]) = Carried(chan[peer])
  BY <1>1, <1>2, <1>4, PushLeaves
<1>7. \A x \in Conns : x # peer => Carried(chan'[x]) = Carried(chan[x])
  BY <1>1, <1>2, <1>4, PushLeaves
<1>8. \A x \in Conns : Promised(chan'[x]) \subseteq Promised(chan[x])
  BY <1>1, <1>2, <1>4, PromisePushed
<1>9. (\A x \in Conns : m \notin Carried(chan[x])) => KeepsOnce
  BY <1>1, <1>2, <1>4, PushOnce DEF KeepsOnce
<1>n. \A x \in Conns : Mentioned(chan'[x]) \subseteq Mentioned(chan[x]) \cup {m}
  BY <1>1, <1>2, <1>4, MentionPushed
<1>10. \/ /\ rx[peer] /\ job' = [job EXCEPT ![c] = At("echo_live", m)]
          /\ Carried(chan'[peer]) = Carried(chan[peer]) \cup {m}
       \/ /\ job' = [job EXCEPT ![c] = At("queue", m)]
          /\ Carried(chan'[peer]) = Carried(chan[peer])
  BY <1>3, <1>5, <1>6
<1> QED BY <1>1, <1>m, <1>7, <1>8, <1>n, <1>9, <1>10

(***************************************************************************)
(* The browser is handed the first event of the channel.                   *)
(***************************************************************************)
LEMMA ForwardEffect ==
    ASSUME RelayTypeOK, RegistryInv, LinkInv, NEW c \in Conns, Forward(c)
    PROVE  \E e \in Event :
             /\ owner[c] \in Users /\ e.msg \in Msgs
             /\ chan[c] # <<>> /\ e = Head(chan[c])
             /\ chan' = [chan EXCEPT ![c] = Tail(@)]
             /\ e.kind = "message" =>
                  /\ To[e.msg] = owner[c]
                  /\ Carried(chan[c]) = Carried(chan'[c]) \cup {e.msg}
                  /\ inbox' = [inbox EXCEPT ![owner[c]] = Append(@, e.msg)]
                  /\ CarriedOnce(chan[c]) => e.msg \notin Carried(chan'[c])
             /\ e.kind # "message" => Carried(chan'[c]) = Carried(chan[c]) /\ inbox' = inbox
             /\ \A x \in Conns : x # c => chan'[x] = chan[x]
             /\ Promised(chan'[c]) \subseteq Promised(chan[c])
             /\ SaysDelivered(e) => e.msg \in Promised(chan[c])
             /\ Mentioned(chan'[c]) \cup {e.msg} \subseteq Mentioned(chan[c])
             /\ bubble' = [bubble EXCEPT ![e.msg] =
                             IF SaysDelivered(e) THEN "delivered"
                             ELSE IF e.kind = "echo" THEN "sent" ELSE @]
             /\ KeepsOnce
<1> DEFINE e == Head(chan[c])
<1>1. /\ chan \in [Conns -> Seq(Event)] /\ chan[c] \in Seq(Event) /\ chan[c] # <<>>
      /\ chan' = [chan EXCEPT ![c] = Tail(@)] /\ bubble \in [Msgs -> {"none", "sent", "delivered"}]
  BY DEF Forward, RelayTypeOK
<1>2. owner[c] \in Users
  BY DEF Forward, Forwarding, RegistryInv, ActiveOwned, Active
<1>3. chan'[c] = Tail(chan[c]) /\ \A x \in Conns : x # c => chan'[x] = chan[x] BY <1>1
<1>4. /\ e \in Event
      /\ Carried(chan[c]) = Carried(chan'[c])
                              \cup (IF e.kind = "message" THEN {e.msg} ELSE {})
      /\ CarriedOnce(chan[c]) =>
           CarriedOnce(chan'[c]) /\ (e.kind = "message" => e.msg \notin Carried(chan'[c]))
  BY <1>1, <1>3, ReceiveFacts
<1>5. /\ Promised(chan'[c]) \subseteq Promised(chan[c])
      /\ SaysDelivered(e) => e.msg \in Promised(chan[c])
  BY <1>1, <1>3, PromiseReceived
<1>n. Mentioned(chan'[c]) \cup {e.msg} \subseteq Mentioned(chan[c])
  BY <1>1, <1>3, MentionReceived
<1>6. e.msg \in Msgs /\ e.kind \in {"message", "echo", "receipt", "error"} BY <1>4 DEF Event
<1>7. Handle(owner[c], e) BY DEF Forward
<1>8. e = Head(chan[c]) OBVIOUS
<1> HIDE DEF e
<1>9. e.kind = "message" => To[e.msg] = owner[c] BY <1>4 DEF LinkInv, Addressed
<1>10. bubble' = [bubble EXCEPT ![e.msg] = IF SaysDelivered(e) THEN "delivered"
                                           ELSE IF e.kind = "echo" THEN "sent" ELSE @]
  BY <1>1, <1>6, <1>7 DEF Handle, SaysDelivered
<1>11. e.kind = "message" => /\ Carried(chan[c]) = Carried(chan'[c]) \cup {e.msg}
                             /\ inbox' = [inbox EXCEPT ![owner[c]] = Append(@, e.msg)]
  BY <1>4, <1>7 DEF Handle
<1>12. e.kind # "message" => Carried(chan'[c]) = Carried(chan[c]) /\ inbox' = inbox
  BY <1>4, <1>7 DEF Handle
<1>13. KeepsOnce BY <1>3, <1>4 DEF KeepsOnce
<1> QED BY <1>1, <1>2, <1>3, <1>4, <1>5, <1>n, <1>6, <1>8, <1>9, <1>10, <1>11, <1>12, <1>13

(***************************************************************************)
(* A write to a dead socket loses one event, or all of them.               *)
(***************************************************************************)
LEMMA DeadSocketEffect ==
    ASSUME RelayTypeOK, NEW c \in Conns, ForwardToDeadSocket(c)
    PROVE  /\ Carried(chan'[c]) \subseteq Carried(chan[c])
           /\ Carried(chan[c]) \subseteq Carried(chan'[c]) \cup lost' /\ lost \subseteq lost'
           /\ lost' \subseteq lost \cup Carried(chan[c])
           /\ \A x \in Conns : x # c => chan'[x] = chan[x]
           /\ Promised(chan'[c]) \subseteq Promised(chan[c])
           /\ Mentioned(chan'[c]) \subseteq Mentioned(chan[c])
           /\ KeepsOnce
<1>1. chan \in [Conns -> Seq(Event)] /\ chan[c] \in Seq(Event) /\ chan[c] # <<>>
  BY DEF ForwardToDeadSocket, RelayTypeOK
<1>2. CASE /\ chan' = [chan EXCEPT ![c] = Tail(@)]
           /\ lost' = lost \cup Carried(<<Head(chan[c])>>)
  <2>1. chan'[c] = Tail(chan[c]) /\ \A x \in Conns : x # c => chan'[x] = chan[x]
    BY <1>1, <1>2
  <2>2. /\ Carried(chan[c]) = Carried(chan'[c]) \cup Carried(<<Head(chan[c])>>)
        /\ CarriedOnce(chan[c]) => CarriedOnce(chan'[c])
    <3> DEFINE one == IF Head(chan[c]).kind = "message" THEN {Head(chan[c]).msg} ELSE {}
    <3>1. /\ Carried(chan[c]) = Carried(Tail(chan[c])) \cup one
          /\ Carried(<<Head(chan[c])>>) = one
          /\ CarriedOnce(chan[c]) => CarriedOnce(Tail(chan[c]))
      BY <1>1, ReceiveFacts
    <3> HIDE DEF one
    <3> QED BY <2>1, <3>1
  <2>3. Promised(chan'[c]) \subseteq Promised(chan[c]) BY <1>1, <2>1, PromiseReceived
  <2>4. KeepsOnce BY <2>1, <2>2 DEF KeepsOnce
  <2>5. Mentioned(chan'[c]) \subseteq Mentioned(chan[c]) BY <1>1, <2>1, MentionReceived
  <2> QED BY <1>2, <2>1, <2>2, <2>3, <2>4, <2>5
<1>3. CASE chan' = [chan EXCEPT ![c] = <<>>] /\ lost' = lost \cup Carried(chan[c])
  <2>1. chan'[c] = <<>> /\ \A x \in Conns : x # c => chan'[x] = chan[x]
    BY <1>1, <1>3
  <2>2. /\ Carried(chan'[c]) = {} /\ Promised(chan'[c]) = {} /\ CarriedOnce(chan'[c])
        /\ Mentioned(chan'[c]) = {}
    BY <2>1, EmptyFacts, PromiseNone
  <2>3. KeepsOnce BY <2>1, <2>2 DEF KeepsOnce
  <2> QED BY <1>3, <2>1, <2>2, <2>3
<1> QED BY <1>2, <1>3 DEF ForwardToDeadSocket

LEMMA TaskEndsEffect ==
    ASSUME RelayTypeOK, NEW c \in Conns, TaskEnds(c)
    PROVE  /\ chan'[c] = <<>> /\ wire'[c] = <<>> /\ drained' = drained
           /\ Carried(chan'[c]) = {} /\ Promised(chan'[c]) = {} /\ Range(wire'[c]) = {}
           /\ Mentioned(chan'[c]) = {}
           /\ lost' = lost \cup Carried(chan[c]) \cup Range(wire[c])
           /\ \A x \in Conns : x # c => chan'[x] = chan[x] /\ wire'[x] = wire[x]
           /\ KeepsOnce
<1>1. /\ chan'[c] = <<>> /\ wire'[c] = <<>> /\ drained' = drained
      /\ lost' = lost \cup Carried(chan[c]) \cup Range(wire[c])
      /\ \A x \in Conns : x # c => chan'[x] = chan[x] /\ wire'[x] = wire[x]
  BY DEF TaskEnds, RelayTypeOK
<1>2. /\ Carried(<<>>) = {} /\ Promised(<<>>) = {} /\ Range(<<>>) = {} /\ CarriedOnce(<<>>)
      /\ Mentioned(<<>>) = {}
  BY EmptyFacts, PromiseNone
<1>3. KeepsOnce BY <1>1, <1>2 DEF KeepsOnce
<1> QED BY <1>1, <1>2, <1>3

(***************************************************************************)
(* A crash empties everything that belongs to a connection.                *)
(***************************************************************************)
LEMMA CrashEffect ==
    ASSUME RelayTypeOK, RelayCrash
    PROVE  /\ lost \subseteq lost'
           /\ \A x \in Conns :
                /\ chan'[x] = <<>> /\ wire'[x] = <<>> /\ drained'[x] = <<>> /\ job'[x] = Idle
                /\ Carried(chan'[x]) = {} /\ Promised(chan'[x]) = {} /\ Mentioned(chan'[x]) = {}
                /\ Range(wire'[x]) = {} /\ Range(drained'[x]) = {}
                /\ Carried(chan[x]) \cup Range(wire[x]) \cup Range(drained[x]) \cup Waiting(x)
                     \subseteq lost'
<1>1. /\ wire' = [c \in Conns |-> <<>>] /\ job' = [c \in Conns |-> Idle]
      /\ chan' = [c \in Conns |-> <<>>] /\ drained' = [c \in Conns |-> <<>>]
      /\ lost' = lost \cup UNION {Carried(chan[c]) \cup Range(wire[c]) \cup Range(drained[c])
                                    \cup Waiting(c) : c \in Conns}
  BY DEF RelayCrash, Waiting
<1>2. Carried(<<>>) = {} /\ Promised(<<>>) = {} /\ Range(<<>>) = {} /\ Mentioned(<<>>) = {}
  BY EmptyFacts, PromiseNone
<1> QED BY <1>1, <1>2

-----------------------------------------------------------------------------
(***************************************************************************)
(* What has been handed over stays handed over, whatever the step.         *)
(***************************************************************************)
LEMMA HandedStays ==
    ASSUME RelayTypeOK, RegistryInv, LinkInv, [RelayNext]_vars
    PROVE  HandedOver \subseteq HandedOver'
<1>0. \A d \in Conns : Carried(chan[d]) # {} => owner'[d] = owner[d]
  <2> SUFFICES ASSUME NEW d \in Conns, chan[d] # <<>>
               PROVE  owner'[d] = owner[d]
    BY EmptyFacts
  <2>1. pc[d] # "idle" BY DEF LinkInv, ChannelsLinked, Unlinked
  <2> QED BY <2>1, RelayStepsAreSessionSteps, OwnersStay DEF RelayTypeOK
<1>a. ASSUME lost \subseteq lost',
             \A u \in Users : Range(inbox[u]) \subseteq Range(inbox'[u]),
             \A d \in Conns : \A m \in Carried(chan[d]) :
                 m \in Carried(chan'[d]) \/ m \in lost' \/ m \in Range(inbox'[To[m]])
      PROVE  HandedOver \subseteq HandedOver'
  <2> SUFFICES ASSUME NEW m \in Msgs, m \in HandedOver PROVE m \in HandedOver'
    BY DEF HandedOver
  <2>1. To[m] \in Users BY RelayAssumption
  <2>2. CASE m \in lost BY <1>a, <2>2 DEF HandedOver
  <2>3. CASE m \in Range(inbox[To[m]]) BY <1>a, <2>1, <2>3 DEF HandedOver
  <2>4. ASSUME NEW d \in Conns, owner[d] = To[m], m \in Carried(chan[d])
        PROVE  m \in HandedOver'
    BY <1>0, <1>a, <2>4 DEF HandedOver
  <2> QED BY <2>2, <2>3, <2>4 DEF HandedOver
<1>1. CASE UNCHANGED relayVars BY <1>1, <1>a DEF relayVars
<1>2. ASSUME NEW c \in Conns, TaskEnds(c)
      PROVE  HandedOver \subseteq HandedOver'
  BY <1>2, <1>a, TaskEndsEffect DEF TaskEnds
<1>3. ASSUME NEW c \in Conns, RelayRegister(c) \/ Drain(c) \/ Lookup(c)
      PROVE  HandedOver \subseteq HandedOver'
  BY <1>3, <1>a DEF RelayRegister, Drain, Lookup
<1>4. ASSUME NEW c \in Conns, Replay(c)
      PROVE  HandedOver \subseteq HandedOver'
  BY <1>4, <1>a, ReplayEffect DEF Replay
<1>5. ASSUME NEW c \in Conns, RefuseMessage(c)
      PROVE  HandedOver \subseteq HandedOver'
  BY <1>5, <1>a, RefuseEffect DEF RefuseMessage, SameCarried
<1>6. ASSUME NEW c \in Conns, Push(c)
      PROVE  HandedOver \subseteq HandedOver'
  <2>1. \A d \in Conns : Carried(chan[d]) \subseteq Carried(chan'[d])
    BY <1>6, PushEffect
  <2> QED BY <1>6, <1>a, <2>1 DEF Push
<1>7. ASSUME NEW c \in Conns, Queue(c)
      PROVE  HandedOver \subseteq HandedOver'
  BY <1>7, <1>a DEF Queue
<1>8. ASSUME NEW c \in Conns, Echo(c)
      PROVE  HandedOver \subseteq HandedOver'
  BY <1>8, <1>a, EchoEffect DEF Echo, SameCarried
<1>9. ASSUME NEW c \in Conns, Forward(c)
      PROVE  HandedOver \subseteq HandedOver'
  <2>1. lost' = lost BY <1>9 DEF Forward
  <2>2. PICK e \in Event :
          /\ owner[c] \in Users /\ e.msg \in Msgs
          /\ e.kind = "message" =>
               /\ To[e.msg] = owner[c]
               /\ Carried(chan[c]) = Carried(chan'[c]) \cup {e.msg}
               /\ inbox' = [inbox EXCEPT ![owner[c]] = Append(@, e.msg)]
          /\ e.kind # "message" => Carried(chan'[c]) = Carried(chan[c]) /\ inbox' = inbox
          /\ \A x \in Conns : x # c => chan'[x] = chan[x]
    BY <1>9, ForwardEffect
  <2>3. CASE e.kind # "message" BY <1>a, <2>1, <2>2, <2>3
  <2>4. CASE e.kind = "message"
    <3>1. inbox \in [Users -> Seq(Msgs)] /\ inbox[owner[c]] \in Seq(Msgs)
      BY <2>2 DEF RelayTypeOK
    <3>2. Range(Append(inbox[owner[c]], e.msg)) = Range(inbox[owner[c]]) \cup {e.msg}
      BY <2>2, <3>1, AppendFacts
    <3>3. /\ Range(inbox'[owner[c]]) = Range(inbox[owner[c]]) \cup {e.msg}
          /\ \A u \in Users : u # owner[c] => inbox'[u] = inbox[u]
      BY <2>2, <2>4, <3>1, <3>2
    <3>4. \A u \in Users : Range(inbox[u]) \subseteq Range(inbox'[u]) BY <3>3
    <3>5. ASSUME NEW d \in Conns, NEW m \in Carried(chan[d])
          PROVE  m \in Carried(chan'[d]) \/ m \in Range(inbox'[To[m]])
      <4>1. CASE d # c BY <2>2, <3>5, <4>1
      <4>2. CASE d = c BY <2>2, <2>4, <3>3, <3>5, <4>2
      <4> QED BY <4>1, <4>2
    <3> QED BY <1>a, <2>1, <3>4, <3>5
  <2> QED BY <2>3, <2>4
<1>10. ASSUME NEW c \in Conns, ForwardToDeadSocket(c)
       PROVE  HandedOver \subseteq HandedOver'
  <2>1. inbox' = inbox BY <1>10 DEF ForwardToDeadSocket
  <2>2. /\ Carried(chan[c]) \subseteq Carried(chan'[c]) \cup lost' /\ lost \subseteq lost'
        /\ \A x \in Conns : x # c => chan'[x] = chan[x]
    BY <1>10, DeadSocketEffect
  <2> QED BY <1>a, <2>1, <2>2
<1>11. ASSUME NEW c \in Conns, NEW m \in Msgs, Compose(c, m)
       PROVE  HandedOver \subseteq HandedOver'
  BY <1>11, <1>a DEF Compose
<1>12. ASSUME NEW m \in Msgs, ComposeOffline(m)
       PROVE  HandedOver \subseteq HandedOver'
  BY <1>12, <1>a DEF ComposeOffline
<1>13. CASE RelayCrash BY <1>13, <1>a, CrashEffect DEF RelayCrash
<1>14. ASSUME NEW c \in Conns, TaskStep(c)
       PROVE  HandedOver \subseteq HandedOver'
  BY <1>1, <1>2, <1>3, <1>4, <1>5, <1>6, <1>7, <1>8, <1>14
     DEF TaskStep, Handling, ProfileCommand, Elsewhere, RelayReject, RelayEnterLoop, RelayHangUp, RelayUnregister,
         RelayAnnounceOffline
<1> QED BY <1>1, <1>9, <1>10, <1>11, <1>12, <1>13, <1>14
        DEF RelayNext, vars, RelayOpen, RelayDisconnect, ForwardStep

(***************************************************************************)
(* No step says "delivered" of a message that has not been handed over.    *)
(***************************************************************************)
LEMMA PromiseStep ==
    ASSUME RelayTypeOK, RegistryInv, LinkInv, PromisesKept, [RelayNext]_vars
    PROVE  PromisesKept'
<1>h. HandedOver \subseteq HandedOver' BY HandedStays
<1>t. job \in [Conns -> Job] /\ bubble \in [Msgs -> {"none", "sent", "delivered"}]
  BY DEF RelayTypeOK
<1> HIDE DEF HandedOver
<1>a. ASSUME \A m \in Msgs : bubble'[m] = "delivered" => bubble[m] = "delivered" \/ m \in HandedOver,
             \A x \in Conns : job'[x].stage = "echo_live" =>
                 job'[x] = job[x] \/ job'[x].msg \in HandedOver',
             \A x \in Conns : Promised(chan'[x]) \subseteq Promised(chan[x]) \cup HandedOver'
      PROVE  PromisesKept'
  BY <1>a, <1>h DEF PromisesKept
<1>1. CASE UNCHANGED relayVars BY <1>1, <1>a DEF relayVars
<1>2. ASSUME NEW c \in Conns, TaskEnds(c)
      PROVE  PromisesKept'
  BY <1>2, <1>a, TaskEndsEffect DEF TaskEnds
<1>3. ASSUME NEW c \in Conns, RelayRegister(c) \/ Drain(c)
      PROVE  PromisesKept'
  BY <1>3, <1>a DEF RelayRegister, Drain
<1>4. ASSUME NEW c \in Conns, Replay(c)
      PROVE  PromisesKept'
  <2>1. PICK m \in Msgs :
          /\ To[m] = owner[c] /\ Carried(chan'[c]) = Carried(chan[c]) \cup {m}
          /\ \A x \in Conns : Promised(chan'[x]) \subseteq Promised(chan[x]) \cup {m}
    BY <1>4, ReplayEffect
  <2>2. owner' = owner /\ job' = job /\ bubble' = bubble BY <1>4 DEF Replay, sessionVars
  <2>3. m \in HandedOver' BY <2>1, <2>2 DEF HandedOver
  <2> QED BY <1>a, <2>1, <2>2, <2>3
<1>5. ASSUME NEW c \in Conns, RefuseMessage(c)
      PROVE  PromisesKept'
  BY <1>5, <1>a, RefuseEffect DEF RefuseMessage
<1>6. ASSUME NEW c \in Conns, Lookup(c)
      PROVE  PromisesKept'
  <2>1. \A x \in Conns : job'[x].stage = "echo_live" => job'[x] = job[x]
    BY <1>6, <1>t DEF Lookup
  <2> QED BY <1>6, <1>a, <2>1 DEF Lookup
<1>7. ASSUME NEW c \in Conns, Push(c)
      PROVE  PromisesKept'
  <2>1. PICK m \in Msgs, peer \in Conns :
          /\ To[m] = owner[peer]
          /\ \/ /\ job' = [job EXCEPT ![c] = At("echo_live", m)]
                /\ Carried(chan'[peer]) = Carried(chan[peer]) \cup {m}
             \/ job' = [job EXCEPT ![c] = At("queue", m)]
          /\ \A x \in Conns : Promised(chan'[x]) \subseteq Promised(chan[x])
    BY <1>7, PushEffect
  <2>2. owner' = owner /\ bubble' = bubble BY <1>7 DEF Push, sessionVars
  <2>3. CASE /\ job' = [job EXCEPT ![c] = At("echo_live", m)]
             /\ Carried(chan'[peer]) = Carried(chan[peer]) \cup {m}
    <3>1. m \in HandedOver' BY <2>1, <2>2, <2>3 DEF HandedOver
    <3>2. \A x \in Conns : job'[x] = job[x] \/ job'[x].msg = m BY <1>t, <2>3 DEF At
    <3> QED BY <1>a, <2>1, <2>2, <3>1, <3>2
  <2>4. CASE job' = [job EXCEPT ![c] = At("queue", m)]
    <3>1. \A x \in Conns : job'[x] = job[x] \/ job'[x].stage = "queue"
      BY <1>t, <2>4 DEF At
    <3> QED BY <1>a, <2>1, <2>2, <3>1
  <2> QED BY <2>1, <2>3, <2>4
<1>8. ASSUME NEW c \in Conns, Queue(c)
      PROVE  PromisesKept'
  <2>1. \A x \in Conns : job'[x] = job[x] \/ job'[x].stage = "echo_queued"
    BY <1>8, <1>t DEF Queue, At
  <2>2. bubble' = bubble /\ chan' = chan BY <1>8 DEF Queue
  <2> QED BY <1>a, <2>1, <2>2
<1>9. ASSUME NEW c \in Conns, Echo(c)
      PROVE  PromisesKept'
  <2>1. \A x \in Conns :
          Promised(chan'[x]) \subseteq Promised(chan[x]) \cup
              (IF job[c].stage = "echo_live" THEN {job[c].msg} ELSE {})
    BY <1>9, EchoEffect
  <2>2. job[c].stage = "echo_live" => job[c].msg \in HandedOver BY DEF PromisesKept
  <2>3. \A x \in Conns : Promised(chan'[x]) \subseteq Promised(chan[x]) \cup HandedOver'
    BY <1>h, <2>1, <2>2
  <2>4. \A x \in Conns : job'[x] = job[x] \/ job'[x].stage = "idle"
    BY <1>9, <1>t DEF Echo, Idle, At
  <2>5. bubble' = bubble BY <1>9 DEF Echo
  <2> QED BY <1>a, <2>3, <2>4, <2>5
<1>10. ASSUME NEW c \in Conns, Forward(c)
       PROVE  PromisesKept'
  <2>1. PICK e \in Event :
          /\ e.msg \in Msgs
          /\ \A x \in Conns : x # c => chan'[x] = chan[x]
          /\ Promised(chan'[c]) \subseteq Promised(chan[c])
          /\ SaysDelivered(e) => e.msg \in Promised(chan[c])
          /\ bubble' = [bubble EXCEPT ![e.msg] =
                          IF SaysDelivered(e) THEN "delivered"
                          ELSE IF e.kind = "echo" THEN "sent" ELSE @]
    BY <1>10, ForwardEffect
  <2>2. job' = job BY <1>10 DEF Forward
  <2>3. SaysDelivered(e) => e.msg \in HandedOver BY <2>1 DEF PromisesKept
  <2>4. \A m \in Msgs : bubble'[m] = "delivered" => bubble[m] = "delivered" \/ m \in HandedOver
    BY <1>t, <2>1, <2>3
  <2> QED BY <1>a, <2>1, <2>2, <2>4
<1>11. ASSUME NEW c \in Conns, ForwardToDeadSocket(c)
       PROVE  PromisesKept'
  <2>1. job' = job /\ bubble' = bubble BY <1>11 DEF ForwardToDeadSocket
  <2>2. /\ \A x \in Conns : x # c => chan'[x] = chan[x]
        /\ Promised(chan'[c]) \subseteq Promised(chan[c])
    BY <1>11, DeadSocketEffect
  <2> QED BY <1>a, <2>1, <2>2
<1>12. ASSUME NEW c \in Conns, NEW m \in Msgs, Compose(c, m)
       PROVE  PromisesKept'
  <2>1. chan' = chan /\ job' = job /\ bubble' = [bubble EXCEPT ![m] = "sent"]
    BY <1>12 DEF Compose
  <2> QED BY <1>a, <1>t, <2>1
<1>13. ASSUME NEW m \in Msgs, ComposeOffline(m)
       PROVE  PromisesKept'
  <2>1. chan' = chan /\ job' = job /\ bubble' = [bubble EXCEPT ![m] = "sent"]
    BY <1>13 DEF ComposeOffline
  <2> QED BY <1>a, <1>t, <2>1
<1>14. CASE RelayCrash
  <2>1. \A x \in Conns : job'[x].stage = "idle" /\ Promised(chan'[x]) = {}
    BY <1>14, CrashEffect DEF Idle, At
  <2>2. bubble' = bubble BY <1>14 DEF RelayCrash
  <2> QED BY <1>a, <2>1, <2>2
<1>15. ASSUME NEW c \in Conns, TaskStep(c)
       PROVE  PromisesKept'
  BY <1>1, <1>2, <1>3, <1>4, <1>5, <1>6, <1>7, <1>8, <1>9, <1>15
     DEF TaskStep, Handling, ProfileCommand, Elsewhere, RelayReject, RelayEnterLoop, RelayHangUp, RelayUnregister,
         RelayAnnounceOffline
<1> QED BY <1>1, <1>10, <1>11, <1>12, <1>13, <1>14, <1>15
        DEF RelayNext, vars, RelayOpen, RelayDisconnect, ForwardStep

-----------------------------------------------------------------------------
(* Where the messages are.                                                 *)

(***************************************************************************)
(* Every step keeps it so that only composed messages are spoken of.       *)
(***************************************************************************)
LEMMA ComposedStep ==
    ASSUME RelayTypeOK, RegistryInv, LinkInv, ComposedOnly, [RelayNext]_vars
    PROVE  ComposedOnly' /\ Composed \subseteq Composed'
<1>t. /\ wire \in [Conns -> Seq(Msgs)] /\ job \in [Conns -> Job]
      /\ queue \in [Users -> Seq(Msgs)] /\ drained \in [Conns -> Seq(Msgs)]
      /\ bubble \in [Msgs -> {"none", "sent", "delivered"}]
      /\ inbox \in [Users -> Seq(Msgs)] /\ rows \in Seq(Msgs)
  BY DEF RelayTypeOK
<1>u. /\ \A u \in Users : Range(queue[u]) \subseteq Composed /\ Range(inbox[u]) \subseteq Composed
      /\ \A c \in Conns : /\ Range(wire[c]) \subseteq Composed
                          /\ Range(drained[c]) \subseteq Composed
                          /\ Mentioned(chan[c]) \subseteq Composed
                          /\ job[c].stage # "idle" => job[c].msg \in Composed
      /\ Range(rows) \subseteq Composed
  BY DEF ComposedOnly
<1>c. bubble' = bubble => Composed' = Composed BY DEF Composed
<1>a. ASSUME Composed \subseteq Composed',
             \A u \in Users : Range(queue'[u]) \subseteq Composed /\ Range(inbox'[u]) \subseteq Composed,
             \A c \in Conns : /\ Range(wire'[c]) \subseteq Composed'
                              /\ Range(drained'[c]) \subseteq Composed
                              /\ Mentioned(chan'[c]) \subseteq Composed
                              /\ job'[c].stage # "idle" => job'[c].msg \in Composed,
             Range(rows') \subseteq Composed
      PROVE  ComposedOnly' /\ Composed \subseteq Composed'
  BY <1>a DEF ComposedOnly
<1> DEFINE Goal == ComposedOnly' /\ Composed \subseteq Composed'
<1> HIDE DEF Composed
<1>1. CASE UNCHANGED relayVars
  <2>1. Composed' = Composed BY <1>c, <1>1 DEF relayVars
  <2> QED BY <1>1, <1>a, <1>u, <2>1 DEF relayVars
<1>2. ASSUME NEW c \in Conns, TaskEnds(c)
      PROVE  Goal
  <2>1. Composed' = Composed BY <1>c, <1>2 DEF TaskEnds
  <2>2. /\ job' = job /\ queue' = queue /\ inbox' = inbox /\ rows' = rows
    BY <1>2 DEF TaskEnds
  <2>3. /\ Mentioned(chan'[c]) = {} /\ Range(wire'[c]) = {} /\ drained' = drained
        /\ \A x \in Conns : x # c => chan'[x] = chan[x] /\ wire'[x] = wire[x]
    BY <1>2, TaskEndsEffect
  <2> QED BY <1>a, <1>u, <2>1, <2>2, <2>3
<1>3. ASSUME NEW c \in Conns, RelayRegister(c)
      PROVE  Goal
  <2>1. Composed' = Composed BY <1>c, <1>3 DEF RelayRegister
  <2> QED BY <1>3, <1>a, <1>u, <2>1 DEF RelayRegister
<1>4. ASSUME NEW c \in Conns, Drain(c)
      PROVE  Goal
  <2>1. /\ Composed' = Composed /\ chan' = chan /\ inbox' = inbox /\ rows' = rows
        /\ job' = job /\ wire' = wire
    BY <1>c, <1>4 DEF Drain
  <2>2. owner[c] \in Users
    BY <1>4 DEF Drain, Snapshot, Goto, RegistryInv, ActiveOwned, Active
  <2>3. CASE queue' = queue /\ drained' = drained BY <1>a, <1>u, <2>1, <2>3
  <2>4. CASE /\ queue' = [queue EXCEPT ![owner[c]] = <<>>]
             /\ drained' = [drained EXCEPT ![c] = queue[owner[c]]]
    <3>1. /\ \A u \in Users : queue'[u] = queue[u] \/ queue'[u] = <<>>
          /\ \A x \in Conns : drained'[x] = drained[x] \/ drained'[x] = queue[owner[c]]
      BY <1>t, <2>2, <2>4
    <3>2. \A u \in Users : Range(queue'[u]) \subseteq Composed
      BY <1>u, <3>1, EmptyFacts
    <3>3. \A x \in Conns : Range(drained'[x]) \subseteq Composed
      BY <1>u, <2>2, <3>1
    <3> QED BY <1>a, <1>u, <2>1, <3>2, <3>3
  <2> QED BY <1>4, <2>3, <2>4 DEF Drain, RowsFor
<1>5. ASSUME NEW c \in Conns, Replay(c)
      PROVE  Goal
  <2>1. /\ Composed' = Composed /\ inbox' = inbox /\ rows' = rows
        /\ job' = job /\ wire' = wire /\ queue' = queue
    BY <1>c, <1>5 DEF Replay
  <2>2. PICK m \in Msgs :
          /\ drained[c] # <<>> /\ m = Head(drained[c])
          /\ drained' = [drained EXCEPT ![c] = Tail(@)]
          /\ \A x \in Conns : Mentioned(chan'[x]) \subseteq Mentioned(chan[x]) \cup {m}
    BY <1>5, ReplayEffect
  <2>3. m \in Range(drained[c]) /\ Range(Tail(drained[c])) \subseteq Range(drained[c])
    BY <1>t, <2>2, TailFacts
  <2>4. \A x \in Conns : Range(drained'[x]) \subseteq Range(drained[x])
    BY <1>t, <2>2, <2>3
  <2> QED BY <1>a, <1>u, <2>1, <2>2, <2>3, <2>4
<1>6. ASSUME NEW c \in Conns, NextCommand(c)
      PROVE  /\ Head(wire[c]) \in Range(wire[c])
             /\ \A x \in Conns : Range(wire'[x]) \subseteq Range(wire[x])
  <2>1. wire[c] # <<>> /\ wire' = [wire EXCEPT ![c] = Tail(@)] BY <1>6 DEF NextCommand
  <2>2. Head(wire[c]) \in Range(wire[c]) /\ Range(Tail(wire[c])) \subseteq Range(wire[c])
    BY <1>t, <2>1, TailFacts
  <2> QED BY <1>t, <2>1, <2>2
<1>7. ASSUME NEW c \in Conns, RefuseMessage(c)
      PROVE  Goal
  <2>1. /\ Composed' = Composed /\ inbox' = inbox /\ rows' = rows
        /\ job' = job /\ drained' = drained /\ queue' = queue
    BY <1>c, <1>7 DEF RefuseMessage
  <2>2. /\ Head(wire[c]) \in Range(wire[c])
        /\ \A x \in Conns : Range(wire'[x]) \subseteq Range(wire[x])
    BY <1>6, <1>7 DEF RefuseMessage
  <2>3. \A x \in Conns : Mentioned(chan'[x]) \subseteq Mentioned(chan[x]) \cup {Head(wire[c])}
    BY <1>7, RefuseEffect
  <2> QED BY <1>a, <1>u, <2>1, <2>2, <2>3
<1>8. ASSUME NEW c \in Conns, Lookup(c)
      PROVE  Goal
  <2>1. /\ Composed' = Composed /\ inbox' = inbox /\ rows' = rows
        /\ chan' = chan /\ drained' = drained /\ queue' = queue
    BY <1>c, <1>8 DEF Lookup
  <2>2. /\ Head(wire[c]) \in Range(wire[c])
        /\ \A x \in Conns : Range(wire'[x]) \subseteq Range(wire[x])
    BY <1>6, <1>8 DEF Lookup
  <2>3. \A x \in Conns : job'[x] = job[x] \/ job'[x].msg = Head(wire[c])
    BY <1>8, <1>t DEF Lookup
  <2> QED BY <1>a, <1>u, <2>1, <2>2, <2>3
<1>9. ASSUME NEW c \in Conns, Push(c)
      PROVE  Goal
  <2>1. /\ Composed' = Composed /\ inbox' = inbox /\ rows' = rows
        /\ wire' = wire /\ drained' = drained /\ queue' = queue
    BY <1>c, <1>9 DEF Push
  <2>2. PICK m \in Msgs :
          /\ job[c].stage = "push" /\ job[c].msg = m
          /\ \E st : job' = [job EXCEPT ![c] = At(st, m)]
          /\ \A x \in Conns : Mentioned(chan'[x]) \subseteq Mentioned(chan[x]) \cup {m}
    BY <1>9, PushEffect
  <2>3. \A x \in Conns : job'[x] = job[x] \/ job'[x].msg = m
    BY <1>t, <2>2 DEF At
  <2> QED BY <1>a, <1>u, <2>1, <2>2, <2>3
<1>10. ASSUME NEW c \in Conns, Queue(c)
       PROVE  Goal
  <2> DEFINE m == job[c].msg
  <2>1. /\ Composed' = Composed /\ inbox' = inbox
        /\ wire' = wire /\ drained' = drained /\ chan' = chan
    BY <1>c, <1>10 DEF Queue
  <2>2. m \in Composed BY <1>10, <1>u DEF Queue
  <2>3. m \in Msgs /\ To[m] \in Users
    BY <1>10, RelayAssumption DEF Queue, LinkInv, LocalsInPhase, LocalsOf
  <2>4. \A x \in Conns : job'[x] = job[x] \/ job'[x].msg = m
    BY <1>10, <1>t DEF Queue, At
  <2>5. CASE queue' = queue /\ rows' = rows BY <1>a, <1>u, <2>1, <2>2, <2>4, <2>5
  <2>6. CASE queue' = [queue EXCEPT ![To[m]] = Append(@, m)] /\ rows' = Append(rows, m)
    <3>1. /\ Range(Append(queue[To[m]], m)) = Range(queue[To[m]]) \cup {m}
          /\ Range(Append(rows, m)) = Range(rows) \cup {m}
      BY <1>t, <2>3, AppendFacts
    <3> HIDE DEF m
    <3>2. \A u \in Users : Range(queue'[u]) \subseteq Composed
      BY <1>t, <1>u, <2>2, <2>3, <2>6, <3>1
    <3>3. Range(rows') \subseteq Composed BY <1>u, <2>2, <2>6, <3>1
    <3> QED BY <1>a, <1>u, <2>1, <2>2, <2>4, <3>2, <3>3
  <2> QED BY <1>10, <2>5, <2>6 DEF Queue
<1>11. ASSUME NEW c \in Conns, Echo(c)
       PROVE  Goal
  <2>1. /\ Composed' = Composed /\ inbox' = inbox /\ rows' = rows
        /\ wire' = wire /\ drained' = drained /\ queue' = queue
    BY <1>c, <1>11 DEF Echo
  <2>2. job[c].msg \in Composed BY <1>11, <1>u DEF Echo
  <2>3. \A x \in Conns : Mentioned(chan'[x]) \subseteq Mentioned(chan[x]) \cup {job[c].msg}
    BY <1>11, EchoEffect
  <2>4. \A x \in Conns : job'[x] = job[x] \/ job'[x].stage = "idle"
    BY <1>11, <1>t DEF Echo, Idle, At
  <2> QED BY <1>a, <1>u, <2>1, <2>2, <2>3, <2>4
<1>12. ASSUME NEW c \in Conns, Forward(c)
       PROVE  Goal
  <2>1. /\ job' = job /\ rows' = rows /\ wire' = wire /\ drained' = drained /\ queue' = queue
    BY <1>12 DEF Forward
  <2>2. PICK e \in Event :
          /\ owner[c] \in Users /\ e.msg \in Msgs
          /\ e.kind = "message" => inbox' = [inbox EXCEPT ![owner[c]] = Append(@, e.msg)]
          /\ e.kind # "message" => inbox' = inbox
          /\ \A x \in Conns : x # c => chan'[x] = chan[x]
          /\ Mentioned(chan'[c]) \cup {e.msg} \subseteq Mentioned(chan[c])
          /\ bubble' = [bubble EXCEPT ![e.msg] =
                          IF SaysDelivered(e) THEN "delivered"
                          ELSE IF e.kind = "echo" THEN "sent" ELSE @]
    BY <1>12, ForwardEffect
  <2>3. e.msg \in Composed BY <1>u, <2>2
  <2>4. Composed' = Composed BY <1>t, <2>2, <2>3 DEF Composed
  <2>5. \A u \in Users : Range(inbox'[u]) \subseteq Composed
    <3>1. Range(Append(inbox[owner[c]], e.msg)) = Range(inbox[owner[c]]) \cup {e.msg}
      BY <1>t, <2>2, AppendFacts
    <3> QED BY <1>t, <1>u, <2>2, <2>3, <3>1
  <2>6. \A x \in Conns : Mentioned(chan'[x]) \subseteq Composed BY <1>u, <2>2
  <2> QED BY <1>a, <1>u, <2>1, <2>4, <2>5, <2>6
<1>13. ASSUME NEW c \in Conns, ForwardToDeadSocket(c)
       PROVE  Goal
  <2>1. /\ Composed' = Composed /\ job' = job /\ rows' = rows /\ inbox' = inbox
        /\ wire' = wire /\ drained' = drained /\ queue' = queue
    BY <1>c, <1>13 DEF ForwardToDeadSocket
  <2>2. /\ Mentioned(chan'[c]) \subseteq Mentioned(chan[c])
        /\ \A x \in Conns : x # c => chan'[x] = chan[x]
    BY <1>13, DeadSocketEffect
  <2> QED BY <1>a, <1>u, <2>1, <2>2
<1>14. ASSUME NEW c \in Conns, NEW m \in Msgs, Compose(c, m)
       PROVE  Goal
  <2>1. /\ bubble' = [bubble EXCEPT ![m] = "sent"]
        /\ wire' = [wire EXCEPT ![c] = Append(@, m)]
        /\ job' = job /\ rows' = rows /\ inbox' = inbox
        /\ chan' = chan /\ drained' = drained /\ queue' = queue
    BY <1>14 DEF Compose
  <2>2. Composed' = Composed \cup {m} BY <1>t, <2>1 DEF Composed
  <2>3. Range(Append(wire[c], m)) = Range(wire[c]) \cup {m} BY <1>t, AppendFacts
  <2>4. \A x \in Conns : Range(wire'[x]) \subseteq Composed'
    BY <1>t, <1>u, <2>1, <2>2, <2>3
  <2> QED BY <1>a, <1>u, <2>1, <2>2, <2>4
<1>15. ASSUME NEW m \in Msgs, ComposeOffline(m)
       PROVE  Goal
  <2>1. /\ bubble' = [bubble EXCEPT ![m] = "sent"] /\ wire' = wire
        /\ job' = job /\ rows' = rows /\ inbox' = inbox
        /\ chan' = chan /\ drained' = drained /\ queue' = queue
    BY <1>15 DEF ComposeOffline
  <2>2. Composed' = Composed \cup {m} BY <1>t, <2>1 DEF Composed
  <2> QED BY <1>a, <1>u, <2>1, <2>2
<1>16. CASE RelayCrash
  <2>1. /\ Composed' = Composed /\ rows' = rows /\ inbox' = inbox /\ queue' = queue
    BY <1>c, <1>16 DEF RelayCrash
  <2>2. \A x \in Conns : /\ job'[x].stage = "idle" /\ Mentioned(chan'[x]) = {}
                         /\ Range(wire'[x]) = {} /\ Range(drained'[x]) = {}
    BY <1>16, CrashEffect DEF Idle, At
  <2> QED BY <1>a, <1>u, <2>1, <2>2
<1>17. ASSUME NEW c \in Conns, TaskStep(c)
       PROVE  Goal
  <2> HIDE DEF Goal
  <2> QED BY <1>1, <1>2, <1>3, <1>4, <1>5, <1>7, <1>8, <1>9, <1>10, <1>11, <1>17
          DEF TaskStep, Handling, ProfileCommand, Elsewhere, RelayReject, RelayEnterLoop, RelayHangUp,
              RelayUnregister, RelayAnnounceOffline, Goal
<1> QED BY <1>1, <1>12, <1>13, <1>14, <1>15, <1>16, <1>17
        DEF RelayNext, vars, RelayOpen, RelayDisconnect, ForwardStep

(***************************************************************************)
(* The places one by one, before and after a step.                         *)
(***************************************************************************)
LEMMA PlaceCases ==
    /\ \A u \in Users : <<"queue", u>> \in Places /\ <<"inbox", u>> \in Places
    /\ \A c \in Conns : /\ <<"wire", c>> \in Places /\ <<"job", c>> \in Places
                        /\ <<"drained", c>> \in Places /\ <<"chan", c>> \in Places
    /\ \A p \in Places : \/ \E u \in Users : p = <<"queue", u>> \/ p = <<"inbox", u>>
                         \/ \E c \in Conns : \/ p = <<"wire", c>> \/ p = <<"job", c>>
                                             \/ p = <<"drained", c>> \/ p = <<"chan", c>>
BY DEF Places

LEMMA HeldAt ==
    /\ \A u \in Users : /\ Held[<<"queue", u>>] = Range(queue[u])
                        /\ Held[<<"inbox", u>>] = Range(inbox[u])
    /\ \A c \in Conns : /\ Held[<<"wire", c>>] = Range(wire[c])
                        /\ Held[<<"job", c>>] = Waiting(c)
                        /\ Held[<<"drained", c>>] = Range(drained[c])
                        /\ Held[<<"chan", c>>] = Carried(chan[c])
BY PlaceCases DEF Held

LEMMA HeldAtNext ==
    /\ \A u \in Users : /\ Held'[<<"queue", u>>] = Range(queue'[u])
                        /\ Held'[<<"inbox", u>>] = Range(inbox'[u])
    /\ \A c \in Conns : /\ Held'[<<"wire", c>>] = Range(wire'[c])
                        /\ Held'[<<"job", c>>] = Waiting(c)'
                        /\ Held'[<<"drained", c>>] = Range(drained'[c])
                        /\ Held'[<<"chan", c>>] = Carried(chan'[c])
BY PlaceCases DEF Held

(***************************************************************************)
(* A step that spares the stores outside T spares what they hold.          *)
(***************************************************************************)
LEMMA HeldSame ==
    ASSUME NEW T,
           \A u \in Users : <<"queue", u>> \notin T => Range(queue'[u]) = Range(queue[u]),
           \A u \in Users : <<"inbox", u>> \notin T => Range(inbox'[u]) = Range(inbox[u]),
           \A c \in Conns : <<"wire", c>> \notin T => Range(wire'[c]) = Range(wire[c]),
           \A c \in Conns : <<"job", c>> \notin T => Waiting(c)' = Waiting(c),
           \A c \in Conns : <<"drained", c>> \notin T => Range(drained'[c]) = Range(drained[c]),
           \A c \in Conns : <<"chan", c>> \notin T => Carried(chan'[c]) = Carried(chan[c])
    PROVE  \A p \in Places : p \notin T => Held'[p] = Held[p]
<1> SUFFICES ASSUME NEW p \in Places, p \notin T PROVE Held'[p] = Held[p]
  OBVIOUS
<1>1. ASSUME NEW u \in Users, p = <<"queue", u>> PROVE Held'[p] = Held[p]
  <2>1. Range(queue'[u]) = Range(queue[u]) BY <1>1
  <2>2. Held[p] = Range(queue[u]) BY <1>1, HeldAt
  <2>3. Held'[p] = Range(queue'[u]) BY <1>1, HeldAtNext
  <2> QED BY <2>1, <2>2, <2>3
<1>2. ASSUME NEW u \in Users, p = <<"inbox", u>> PROVE Held'[p] = Held[p]
  <2>1. Range(inbox'[u]) = Range(inbox[u]) BY <1>2
  <2>2. Held[p] = Range(inbox[u]) BY <1>2, HeldAt
  <2>3. Held'[p] = Range(inbox'[u]) BY <1>2, HeldAtNext
  <2> QED BY <2>1, <2>2, <2>3
<1>3. ASSUME NEW c \in Conns, p = <<"wire", c>> PROVE Held'[p] = Held[p]
  <2>1. Range(wire'[c]) = Range(wire[c]) BY <1>3
  <2>2. Held[p] = Range(wire[c]) BY <1>3, HeldAt
  <2>3. Held'[p] = Range(wire'[c]) BY <1>3, HeldAtNext
  <2> QED BY <2>1, <2>2, <2>3
<1>4. ASSUME NEW c \in Conns, p = <<"job", c>> PROVE Held'[p] = Held[p]
  <2>1. Waiting(c)' = Waiting(c) BY <1>4
  <2>2. Held[p] = Waiting(c) BY <1>4, HeldAt
  <2>3. Held'[p] = Waiting(c)' BY <1>4, HeldAtNext
  <2> QED BY <2>1, <2>2, <2>3
<1>5. ASSUME NEW c \in Conns, p = <<"drained", c>> PROVE Held'[p] = Held[p]
  <2>1. Range(drained'[c]) = Range(drained[c]) BY <1>5
  <2>2. Held[p] = Range(drained[c]) BY <1>5, HeldAt
  <2>3. Held'[p] = Range(drained'[c]) BY <1>5, HeldAtNext
  <2> QED BY <2>1, <2>2, <2>3
<1>6. ASSUME NEW c \in Conns, p = <<"chan", c>> PROVE Held'[p] = Held[p]
  <2>1. Carried(chan'[c]) = Carried(chan[c]) BY <1>6
  <2>2. Held[p] = Carried(chan[c]) BY <1>6, HeldAt
  <2>3. Held'[p] = Carried(chan'[c]) BY <1>6, HeldAtNext
  <2> QED BY <2>1, <2>2, <2>3
<1> QED BY <1>1, <1>2, <1>3, <1>4, <1>5, <1>6, PlaceCases

LEMMA HeldUntouched ==
    ASSUME \A u \in Users : Range(queue'[u]) = Range(queue[u]),
           \A u \in Users : Range(inbox'[u]) = Range(inbox[u]),
           \A c \in Conns : Range(wire'[c]) = Range(wire[c]),
           \A c \in Conns : Waiting(c)' = Waiting(c),
           \A c \in Conns : Range(drained'[c]) = Range(drained[c]),
           \A c \in Conns : Carried(chan'[c]) = Carried(chan[c])
    PROVE  \A p \in Places : Held'[p] = Held[p]
<1> DEFINE T == {}
<1> HIDE DEF T
<1>1. \A p \in Places : p \notin T => Held'[p] = Held[p] BY HeldSame
<1> QED BY <1>1 DEF T

(***************************************************************************)
(* A step moves the messages X to one place, or drops some of them.        *)
(***************************************************************************)
Moves(X, dst) ==
    /\ Held'[dst] = Held[dst] \cup X
    /\ \A p \in Places : p # dst => Held'[p] = Held[p] \ X

Loses ==
    \A p \in Places : /\ Held'[p] \subseteq Held[p]
                      /\ Held[p] \subseteq Held'[p] \cup lost' \cup dropped'

HeldStep == Loses \/ \E X \in SUBSET Msgs : \E dst \in Places : Moves(X, dst)

LEMMA Transfer ==
    ASSUME OneHolder, NEW src \in Places, NEW dst \in Places, src # dst,
           NEW X \in SUBSET Msgs, X \subseteq Held[src],
           Held'[src] = Held[src] \ X, Held'[dst] = Held[dst] \cup X,
           \A p \in Places : p \notin {src, dst} => Held'[p] = Held[p]
    PROVE  HeldStep
<1>1. \A p \in Places : p # src => Held[p] \cap X = {} BY DEF OneHolder
<1>2. Moves(X, dst) BY <1>1 DEF Moves
<1> QED BY <1>2 DEF HeldStep

LEMMA TransferOne ==
    ASSUME OneHolder, NEW src \in Places, NEW dst \in Places, src # dst,
           NEW m \in Msgs, m \in Held[src],
           Held'[src] = Held[src] \ {m}, Held'[dst] = Held[dst] \cup {m},
           \A p \in Places : p \notin {src, dst} => Held'[p] = Held[p]
    PROVE  HeldStep
<1> DEFINE X == {m}
<1>1. /\ X \in SUBSET Msgs /\ X \subseteq Held[src]
      /\ Held'[src] = Held[src] \ X /\ Held'[dst] = Held[dst] \cup X
  OBVIOUS
<1> HIDE DEF X
<1> QED BY <1>1, Transfer

LEMMA OneHolderKept ==
    ASSUME OneHolder, HeldStep PROVE OneHolder'
<1>1. CASE Loses BY <1>1 DEF Loses, OneHolder
<1>2. ASSUME NEW X \in SUBSET Msgs, NEW dst \in Places, Moves(X, dst)
      PROVE  OneHolder'
  <2> SUFFICES ASSUME NEW p \in Places, NEW q \in Places, NEW m \in Held'[p] \cap Held'[q]
               PROVE  p = q
    BY DEF OneHolder, Places
  <2>1. CASE m \in X BY <1>2, <2>1 DEF Moves
  <2>2. CASE m \notin X
    <3>1. m \in Held[p] /\ m \in Held[q] BY <1>2, <2>2 DEF Moves
    <3> QED BY <3>1 DEF OneHolder
  <2> QED BY <2>1, <2>2
<1> QED BY <1>1, <1>2 DEF HeldStep

LEMMA AccountedKept ==
    ASSUME Accounted, HeldStep, lost \subseteq lost', dropped \subseteq dropped',
           \A m \in Msgs : bubble'[m] # "none" /\ bubble[m] = "none" =>
               m \in dropped' \/ \E p \in Places : m \in Held'[p]
    PROVE  Accounted'
<1> SUFFICES ASSUME NEW m \in Msgs, bubble'[m] # "none"
             PROVE  m \in lost' \cup dropped' \/ \E p \in Places : m \in Held'[p]
  BY DEF Accounted, Places
<1>1. CASE bubble[m] = "none" BY <1>1
<1>2. CASE m \in lost \cup dropped BY <1>2
<1>3. ASSUME NEW p \in Places, m \in Held[p]
      PROVE  m \in lost' \cup dropped' \/ \E q \in Places : m \in Held'[q]
  <2>1. CASE Loses BY <1>3, <2>1 DEF Loses
  <2>2. ASSUME NEW X \in SUBSET Msgs, NEW dst \in Places, Moves(X, dst)
        PROVE  \E q \in Places : m \in Held'[q]
    BY <1>3, <2>2 DEF Moves
  <2> QED BY <2>1, <2>2 DEF HeldStep
<1> QED BY <1>1, <1>2, <1>3 DEF Accounted

LEMMA HeldComposed ==
    ASSUME ComposedOnly, RelayTypeOK, LinkInv PROVE \A p \in Places : Held[p] \subseteq Composed
<1> SUFFICES ASSUME NEW p \in Places PROVE Held[p] \subseteq Composed
  OBVIOUS
<1>1. ASSUME NEW u \in Users, p = <<"queue", u>> \/ p = <<"inbox", u>>
      PROVE  Held[p] \subseteq Composed
  <2>1. Range(queue[u]) \subseteq Composed /\ Range(inbox[u]) \subseteq Composed
    BY DEF ComposedOnly
  <2>2. Held[p] = Range(queue[u]) \/ Held[p] = Range(inbox[u]) BY <1>1, HeldAt
  <2> QED BY <2>1, <2>2
<1>2. ASSUME NEW c \in Conns, \/ p = <<"wire", c>> \/ p = <<"job", c>>
                              \/ p = <<"drained", c>> \/ p = <<"chan", c>>
      PROVE  Held[p] \subseteq Composed
  <2>1. /\ Range(wire[c]) \subseteq Composed /\ Range(drained[c]) \subseteq Composed
        /\ Mentioned(chan[c]) \subseteq Composed
        /\ job[c].stage # "idle" => job[c].msg \in Composed
    BY DEF ComposedOnly
  <2>2. Carried(chan[c]) \subseteq Composed BY <2>1, CarriedMentioned
  <2>3. Waiting(c) \subseteq Composed BY <2>1 DEF Waiting
  <2>4. \/ Held[p] = Range(wire[c]) \/ Held[p] = Waiting(c)
        \/ Held[p] = Range(drained[c]) \/ Held[p] = Carried(chan[c])
    BY <1>2, HeldAt
  <2> QED BY <2>1, <2>2, <2>3, <2>4
<1> QED BY <1>1, <1>2, PlaceCases

(***************************************************************************)
(* The first message of a socket goes to its task, the refusal, or the     *)
(* queue, always out of the place it was in.                               *)
(***************************************************************************)
LEMMA TakeFirst ==
    ASSUME NEW s \in Seq(Msgs), s # <<>>, Once(s)
    PROVE  /\ Head(s) \in Msgs /\ Head(s) \in Range(s)
           /\ Range(Tail(s)) = Range(s) \ {Head(s)}
           /\ Once(Tail(s))
<1>1. /\ Head(s) \in Msgs /\ Range(s) = {Head(s)} \cup Range(Tail(s))
      /\ Once(Tail(s)) /\ Head(s) \notin Range(Tail(s))
  BY TailFacts
<1> QED BY <1>1

(***************************************************************************)
(* Every step moves messages from one place to another, or drops them      *)
(* where lost or dropped says so.                                          *)
(***************************************************************************)
LEMMA StoresMove ==
    ASSUME RelayTypeOK, RegistryInv, LinkInv, PlaceInv, [RelayNext]_vars
    PROVE  HeldStep
<1>t. /\ wire \in [Conns -> Seq(Msgs)] /\ job \in [Conns -> Job]
      /\ queue \in [Users -> Seq(Msgs)] /\ drained \in [Conns -> Seq(Msgs)]
      /\ inbox \in [Users -> Seq(Msgs)] /\ bubble \in [Msgs -> {"none", "sent", "delivered"}]
  BY DEF RelayTypeOK
<1>h. OneHolder /\ ComposedOnly BY DEF PlaceInv
<1>o. /\ \A u \in Users : Once(queue[u]) /\ Once(inbox[u])
      /\ \A c \in Conns : Once(wire[c]) /\ Once(drained[c]) /\ CarriedOnce(chan[c])
  BY DEF PlaceInv, NoRepeats
<1>w. \A x \in Conns : job'[x] = job[x] => Waiting(x)' = Waiting(x) BY DEF Waiting
<1>i. \A x \in Conns : job'[x].stage \notin {"push", "queue"} => Waiting(x)' = {} BY DEF Waiting
<1>l. (\A p \in Places : Held'[p] = Held[p]) => HeldStep BY DEF HeldStep, Loses
<1>1. CASE UNCHANGED relayVars
  <2>1. /\ wire' = wire /\ queue' = queue /\ drained' = drained /\ inbox' = inbox
        /\ chan' = chan /\ job' = job
    BY <1>1 DEF relayVars
  <2>2. \A p \in Places : Held'[p] = Held[p] BY <1>w, <2>1, HeldUntouched
  <2> QED BY <1>l, <2>2
<1>2. ASSUME NEW c \in Conns, TaskEnds(c)
      PROVE  HeldStep
  <2> DEFINE T == {<<"wire", c>>, <<"chan", c>>}
  <2>1. /\ job' = job /\ queue' = queue /\ inbox' = inbox
    BY <1>2 DEF TaskEnds
  <2>2. /\ Carried(chan'[c]) = {} /\ Range(wire'[c]) = {} /\ drained' = drained
        /\ lost' = lost \cup Carried(chan[c]) \cup Range(wire[c])
        /\ \A x \in Conns : x # c => chan'[x] = chan[x] /\ wire'[x] = wire[x]
    BY <1>2, TaskEndsEffect
  <2>3. \A x \in Conns : /\ <<"wire", x>> \notin T => Range(wire'[x]) = Range(wire[x])
                         /\ <<"chan", x>> \notin T => Carried(chan'[x]) = Carried(chan[x])
    BY <2>2
  <2>4. \A p \in Places : p \notin T => Held'[p] = Held[p]
    BY <1>w, <2>1, <2>2, <2>3, HeldSame
  <2>5. /\ Held'[<<"wire", c>>] = {} /\ Held[<<"wire", c>>] \subseteq lost'
        /\ Held'[<<"chan", c>>] = {} /\ Held[<<"chan", c>>] \subseteq lost'
    BY <2>2, HeldAt, HeldAtNext
  <2> QED BY <2>4, <2>5 DEF HeldStep, Loses
<1>3. ASSUME NEW c \in Conns, RelayRegister(c)
      PROVE  HeldStep
  <2>1. /\ wire' = wire /\ queue' = queue /\ drained' = drained /\ inbox' = inbox
        /\ chan' = chan /\ job' = job
    BY <1>3 DEF RelayRegister
  <2>2. \A p \in Places : Held'[p] = Held[p] BY <1>w, <2>1, HeldUntouched
  <2> QED BY <1>l, <2>2
<1>4. ASSUME NEW c \in Conns, Drain(c)
      PROVE  HeldStep
  <2>1. /\ chan' = chan /\ inbox' = inbox /\ job' = job /\ wire' = wire
    BY <1>4 DEF Drain
  <2>2. owner[c] \in Users
    BY <1>4 DEF Drain, Snapshot, Goto, RegistryInv, ActiveOwned, Active
  <2>3. CASE queue' = queue /\ drained' = drained
    <3>1. \A p \in Places : Held'[p] = Held[p] BY <1>w, <2>1, <2>3, HeldUntouched
    <3> QED BY <1>l, <3>1
  <2>4. CASE /\ queue' = [queue EXCEPT ![owner[c]] = <<>>]
             /\ drained' = [drained EXCEPT ![c] = queue[owner[c]]]
    <3> DEFINE src == <<"queue", owner[c]>>
               dst == <<"drained", c>>
    <3>1. drained[c] = <<>>
      BY <1>4 DEF Drain, Snapshot, Goto, LinkInv, LocalsInPhase, LocalsOf
    <3>2. /\ queue'[owner[c]] = <<>> /\ drained'[c] = queue[owner[c]]
          /\ \A u \in Users : u # owner[c] => queue'[u] = queue[u]
          /\ \A x \in Conns : x # c => drained'[x] = drained[x]
      BY <1>t, <2>2, <2>4
    <3>3. src \in Places /\ dst \in Places /\ src # dst BY <2>2, PlaceCases
    <3>4. /\ \A u \in Users : <<"queue", u>> \notin {src, dst} => Range(queue'[u]) = Range(queue[u])
          /\ \A x \in Conns : <<"drained", x>> \notin {src, dst}
                                => Range(drained'[x]) = Range(drained[x])
      BY <3>2
    <3>5. \A p \in Places : p \notin {src, dst} => Held'[p] = Held[p]
      BY <1>w, <2>1, <3>4, HeldSame
    <3>a. Held[src] = Range(queue[owner[c]]) /\ Held[dst] = {}
      BY <2>2, <3>1, HeldAt, EmptyFacts
    <3>b. Held'[src] = {} /\ Held'[dst] = Range(queue[owner[c]])
      <4>1. Held'[src] = Range(queue'[owner[c]]) /\ Held'[dst] = Range(drained'[c])
        BY <2>2, HeldAtNext
      <4>2. Range(queue'[owner[c]]) = {} BY <3>2, EmptyFacts
      <4>3. Range(drained'[c]) = Range(queue[owner[c]]) BY <3>2
      <4> HIDE DEF src, dst
      <4> QED BY <4>1, <4>2, <4>3
    <3>6. /\ Range(queue[owner[c]]) \subseteq Held[src]
          /\ Held'[src] = Held[src] \ Range(queue[owner[c]])
          /\ Held'[dst] = Held[dst] \cup Range(queue[owner[c]])
      BY <3>a, <3>b
    <3>7. Range(queue[owner[c]]) \in SUBSET Msgs BY <1>t, <2>2, RangeType
    <3> HIDE DEF src, dst
    <3> QED BY <1>h, <3>3, <3>5, <3>6, <3>7, Transfer
  <2> QED BY <1>4, <2>3, <2>4 DEF Drain, RowsFor
<1>5. ASSUME NEW c \in Conns, Replay(c)
      PROVE  HeldStep
  <2> DEFINE src == <<"drained", c>>
             dst == <<"chan", c>>
  <2>1. /\ inbox' = inbox /\ job' = job /\ wire' = wire /\ queue' = queue
    BY <1>5 DEF Replay
  <2>2. PICK m \in Msgs :
          /\ drained[c] # <<>> /\ m = Head(drained[c])
          /\ drained' = [drained EXCEPT ![c] = Tail(@)]
          /\ Carried(chan'[c]) = Carried(chan[c]) \cup {m}
          /\ \A x \in Conns : x # c => Carried(chan'[x]) = Carried(chan[x])
    BY <1>5, ReplayEffect
  <2>3. /\ drained'[c] = Tail(drained[c])
        /\ \A x \in Conns : x # c => drained'[x] = drained[x]
    BY <1>t, <2>2
  <2>4. m \in Range(drained[c]) /\ Range(drained'[c]) = Range(drained[c]) \ {m}
    BY <1>t, <1>o, <2>2, <2>3, TakeFirst
  <2>5. src \in Places /\ dst \in Places /\ src # dst BY PlaceCases
  <2>6. \A x \in Conns :
          /\ <<"chan", x>> \notin {src, dst} => Carried(chan'[x]) = Carried(chan[x])
          /\ <<"drained", x>> \notin {src, dst} => Range(drained'[x]) = Range(drained[x])
    BY <2>2, <2>3
  <2>7. \A p \in Places : p \notin {src, dst} => Held'[p] = Held[p]
    BY <1>w, <2>1, <2>6, HeldSame
  <2>8. /\ m \in Held[src] /\ Held'[src] = Held[src] \ {m}
        /\ Held'[dst] = Held[dst] \cup {m}
    BY <2>2, <2>4, HeldAt, HeldAtNext
  <2> HIDE DEF src, dst
  <2> QED BY <1>h, <2>5, <2>7, <2>8, TransferOne
<1>6. ASSUME NEW c \in Conns, RefuseMessage(c)
      PROVE  HeldStep
  <2> DEFINE T == {<<"wire", c>>}
  <2>1. /\ job' = job /\ queue' = queue /\ inbox' = inbox /\ drained' = drained
        /\ dropped' = dropped \cup {Head(wire[c])}
    BY <1>6 DEF RefuseMessage
  <2>2. wire[c] # <<>> /\ wire' = [wire EXCEPT ![c] = Tail(@)] /\ SameCarried
    BY <1>6, RefuseEffect
  <2>3. /\ wire'[c] = Tail(wire[c])
        /\ \A x \in Conns : x # c => wire'[x] = wire[x]
    BY <1>t, <2>2
  <2>4. Range(wire'[c]) = Range(wire[c]) \ {Head(wire[c])}
    BY <1>t, <1>o, <2>2, <2>3, TakeFirst
  <2>5. \A x \in Conns : <<"wire", x>> \notin T => Range(wire'[x]) = Range(wire[x])
    BY <2>3
  <2>6. \A p \in Places : p \notin T => Held'[p] = Held[p]
    BY <1>w, <2>1, <2>2, <2>5, HeldSame DEF SameCarried
  <2>7. /\ Held'[<<"wire", c>>] \subseteq Held[<<"wire", c>>]
        /\ Held[<<"wire", c>>] \subseteq Held'[<<"wire", c>>] \cup dropped'
    BY <2>1, <2>4, HeldAt, HeldAtNext
  <2> QED BY <2>6, <2>7 DEF HeldStep, Loses

<1>7. ASSUME NEW c \in Conns, Lookup(c)
      PROVE  HeldStep
  <2> DEFINE src == <<"wire", c>>
             dst == <<"job", c>>
             m == Head(wire[c])
  <2>1. /\ chan' = chan /\ queue' = queue /\ inbox' = inbox /\ drained' = drained
    BY <1>7 DEF Lookup
  <2>2. /\ wire[c] # <<>> /\ wire' = [wire EXCEPT ![c] = Tail(@)] /\ job[c] = Idle
    BY <1>7 DEF Lookup, NextCommand
  <2>3. /\ wire'[c] = Tail(wire[c])
        /\ \A x \in Conns : x # c => wire'[x] = wire[x]
    BY <1>t, <2>2
  <2>4. m \in Msgs /\ m \in Range(wire[c]) /\ Range(wire'[c]) = Range(wire[c]) \ {m}
    BY <1>t, <1>o, <2>2, <2>3, TakeFirst
  <2>5. /\ job'[c].stage \in {"push", "queue"} /\ job'[c].msg = m
        /\ \A x \in Conns : x # c => job'[x] = job[x]
    BY <1>7, <1>t DEF Lookup
  <2> HIDE DEF m
  <2>6. Waiting(c) = {} /\ Waiting(c)' = {m} BY <2>2, <2>5 DEF Waiting, Idle, At
  <2>7. src \in Places /\ dst \in Places /\ src # dst BY PlaceCases
  <2>8. \A x \in Conns :
          /\ <<"wire", x>> \notin {src, dst} => Range(wire'[x]) = Range(wire[x])
          /\ <<"job", x>> \notin {src, dst} => Waiting(x)' = Waiting(x)
    BY <1>w, <2>3, <2>5
  <2>9. \A p \in Places : p \notin {src, dst} => Held'[p] = Held[p]
    BY <2>1, <2>8, HeldSame
  <2>a. Held[src] = Range(wire[c]) /\ Held[dst] = {} BY <2>6, HeldAt
  <2>b. Held'[src] = Range(wire'[c]) /\ Held'[dst] = {m} BY <2>6, HeldAtNext
  <2>10. /\ m \in Held[src] /\ Held'[src] = Held[src] \ {m}
         /\ Held'[dst] = Held[dst] \cup {m}
    BY <2>4, <2>a, <2>b
  <2> HIDE DEF src, dst
  <2> QED BY <1>h, <2>4, <2>7, <2>9, <2>10, TransferOne
<1>8. ASSUME NEW c \in Conns, Push(c)
      PROVE  HeldStep
  <2>1. /\ inbox' = inbox /\ wire' = wire /\ queue' = queue /\ drained' = drained
    BY <1>8 DEF Push
  <2>2. PICK m \in Msgs, peer \in Conns :
          /\ job[c].stage = "push" /\ job[c].msg = m
          /\ \/ /\ job' = [job EXCEPT ![c] = At("echo_live", m)]
                /\ Carried(chan'[peer]) = Carried(chan[peer]) \cup {m}
             \/ /\ job' = [job EXCEPT ![c] = At("queue", m)]
                /\ Carried(chan'[peer]) = Carried(chan[peer])
          /\ \A x \in Conns : x # peer => Carried(chan'[x]) = Carried(chan[x])
    BY <1>8, PushEffect
  <2>3. Waiting(c) = {m} BY <2>2 DEF Waiting
  <2>4. CASE /\ job' = [job EXCEPT ![c] = At("echo_live", m)]
             /\ Carried(chan'[peer]) = Carried(chan[peer]) \cup {m}
    <3> DEFINE src == <<"job", c>>
               dst == <<"chan", peer>>
    <3>1. job'[c].stage = "echo_live" /\ \A x \in Conns : x # c => job'[x] = job[x]
      BY <1>t, <2>4 DEF At
    <3>2. Waiting(c)' = {} BY <1>i, <3>1
    <3>3. src \in Places /\ dst \in Places /\ src # dst BY PlaceCases
    <3>4. \A x \in Conns :
            /\ <<"chan", x>> \notin {src, dst} => Carried(chan'[x]) = Carried(chan[x])
            /\ <<"job", x>> \notin {src, dst} => Waiting(x)' = Waiting(x)
      BY <1>w, <2>2, <3>1
    <3>5. \A p \in Places : p \notin {src, dst} => Held'[p] = Held[p]
      BY <2>1, <3>4, HeldSame
    <3>a. Held[src] = {m} /\ Held[dst] = Carried(chan[peer]) BY <2>3, HeldAt
    <3>b. Held'[src] = {} /\ Held'[dst] = Carried(chan'[peer]) BY <3>2, HeldAtNext
    <3>6. /\ m \in Held[src] /\ Held'[src] = Held[src] \ {m}
          /\ Held'[dst] = Held[dst] \cup {m}
      BY <2>4, <3>a, <3>b
    <3> HIDE DEF src, dst
    <3> QED BY <1>h, <3>3, <3>5, <3>6, TransferOne
  <2>5. CASE /\ job' = [job EXCEPT ![c] = At("queue", m)]
             /\ Carried(chan'[peer]) = Carried(chan[peer])
    <3>1. job'[c] = At("queue", m) /\ \A x \in Conns : x # c => job'[x] = job[x]
      BY <1>t, <2>5
    <3>2. Waiting(c)' = {m} BY <3>1 DEF At, Waiting
    <3>3. \A x \in Conns : Waiting(x)' = Waiting(x) BY <1>w, <2>3, <3>1, <3>2
    <3>4. \A x \in Conns : Carried(chan'[x]) = Carried(chan[x]) BY <2>2, <2>5
    <3>5. \A p \in Places : Held'[p] = Held[p]
      BY <2>1, <3>3, <3>4, HeldUntouched
    <3> QED BY <1>l, <3>5
  <2> QED BY <2>2, <2>4, <2>5
<1>9. ASSUME NEW c \in Conns, Queue(c)
      PROVE  HeldStep
  <2> DEFINE m == job[c].msg
             src == <<"job", c>>
             dst == <<"queue", To[m]>>
  <2>1. /\ chan' = chan /\ wire' = wire /\ inbox' = inbox /\ drained' = drained
        /\ job[c].stage = "queue" /\ job' = [job EXCEPT ![c] = At("echo_queued", m)]
        /\ \/ queue' = queue /\ m \in Range(queue[To[m]])
           \/ queue' = [queue EXCEPT ![To[m]] = Append(@, m)]
           \/ queue' = queue /\ lost' = lost \cup {m}
    BY <1>9 DEF Queue
  <2>2. m \in Msgs BY <2>1 DEF LinkInv, LocalsInPhase, LocalsOf
  <2>m. Waiting(c) = {m} BY <2>1 DEF Waiting
  <2> HIDE DEF m
  <2>3. To[m] \in Users BY <2>2, RelayAssumption
  <2>4. job'[c].stage = "echo_queued" /\ \A x \in Conns : x # c => job'[x] = job[x]
    BY <1>t, <2>1 DEF At
  <2>5. Waiting(c)' = {} BY <1>i, <2>4
  <2>6. src \in Places /\ dst \in Places /\ src # dst BY <2>3, PlaceCases
  <2>7. \A x \in Conns : <<"job", x>> \notin {src, dst} => Waiting(x)' = Waiting(x)
    BY <1>w, <2>4
  <2>8. /\ Held[src] = {m} /\ Held'[src] = {}
        /\ Held[dst] = Range(queue[To[m]]) /\ Held'[dst] = Range(queue'[To[m]])
    BY <2>m, <2>3, <2>5, HeldAt, HeldAtNext
  <2>9. CASE queue' = queue /\ m \in Range(queue[To[m]])
    BY <1>h, <2>6, <2>8, <2>9 DEF OneHolder
  <2>10. CASE queue' = [queue EXCEPT ![To[m]] = Append(@, m)]
    <3>1. /\ queue'[To[m]] = Append(queue[To[m]], m)
          /\ \A u \in Users : u # To[m] => queue'[u] = queue[u]
      BY <1>t, <2>3, <2>10
    <3>2. Range(queue'[To[m]]) = Range(queue[To[m]]) \cup {m}
      BY <1>t, <2>2, <2>3, <3>1, AppendFacts
    <3>3. \A u \in Users : <<"queue", u>> \notin {src, dst} => Range(queue'[u]) = Range(queue[u])
      BY <3>1
    <3>4. \A p \in Places : p \notin {src, dst} => Held'[p] = Held[p]
      BY <2>1, <2>7, <3>3, HeldSame
    <3> HIDE DEF src, dst
    <3> QED BY <1>h, <2>2, <2>6, <2>8, <3>2, <3>4, TransferOne
  <2>11. CASE queue' = queue /\ lost' = lost \cup {m}
    <3>1. \A x \in Conns : <<"job", x>> \notin {src} => Waiting(x)' = Waiting(x)
      BY <1>w, <2>4
    <3>2. \A p \in Places : p \notin {src} => Held'[p] = Held[p]
      BY <2>1, <2>11, <3>1, HeldSame
    <3> HIDE DEF src, dst
    <3> QED BY <2>8, <2>11, <3>2 DEF HeldStep, Loses
  <2> QED BY <2>1, <2>9, <2>10, <2>11
<1>10. ASSUME NEW c \in Conns, Echo(c)
       PROVE  HeldStep
  <2>1. /\ inbox' = inbox /\ wire' = wire /\ queue' = queue /\ drained' = drained
        /\ job[c].stage \notin {"push", "queue"} /\ job' = [job EXCEPT ![c] = Idle]
    BY <1>10 DEF Echo
  <2>2. job'[c].stage = "idle" /\ \A x \in Conns : x # c => job'[x] = job[x]
    BY <1>t, <2>1 DEF Idle, At
  <2>3. Waiting(c) = {} /\ Waiting(c)' = {} BY <1>i, <2>1, <2>2 DEF Waiting
  <2>4. \A x \in Conns : Waiting(x)' = Waiting(x) BY <1>w, <2>2, <2>3
  <2>5. SameCarried BY <1>10, EchoEffect
  <2>6. \A p \in Places : Held'[p] = Held[p]
    BY <2>1, <2>4, <2>5, HeldUntouched DEF SameCarried
  <2> QED BY <1>l, <2>6
<1>11. ASSUME NEW c \in Conns, Forward(c)
       PROVE  HeldStep
  <2>1. job' = job /\ wire' = wire /\ queue' = queue /\ drained' = drained
    BY <1>11 DEF Forward
  <2>2. PICK e \in Event :
          /\ owner[c] \in Users /\ e.msg \in Msgs
          /\ e.kind = "message" =>
               /\ Carried(chan[c]) = Carried(chan'[c]) \cup {e.msg}
               /\ inbox' = [inbox EXCEPT ![owner[c]] = Append(@, e.msg)]
               /\ CarriedOnce(chan[c]) => e.msg \notin Carried(chan'[c])
          /\ e.kind # "message" => Carried(chan'[c]) = Carried(chan[c]) /\ inbox' = inbox
          /\ \A x \in Conns : x # c => chan'[x] = chan[x]
    BY <1>11, ForwardEffect
  <2>3. CASE e.kind # "message"
    <3>1. \A x \in Conns : Carried(chan'[x]) = Carried(chan[x]) BY <2>2, <2>3
    <3>2. \A p \in Places : Held'[p] = Held[p]
      BY <1>w, <2>1, <2>2, <2>3, <3>1, HeldUntouched
    <3> QED BY <1>l, <3>2
  <2>4. CASE e.kind = "message"
    <3> DEFINE src == <<"chan", c>>
               dst == <<"inbox", owner[c]>>
    <3>1. /\ Carried(chan'[c]) = Carried(chan[c]) \ {e.msg} /\ e.msg \in Carried(chan[c])
      BY <1>o, <2>2, <2>4
    <3>2. /\ inbox'[owner[c]] = Append(inbox[owner[c]], e.msg)
          /\ \A u \in Users : u # owner[c] => inbox'[u] = inbox[u]
      BY <1>t, <2>2, <2>4
    <3>3. Range(inbox'[owner[c]]) = Range(inbox[owner[c]]) \cup {e.msg}
      BY <1>t, <2>2, <3>2, AppendFacts
    <3>4. src \in Places /\ dst \in Places /\ src # dst BY <2>2, PlaceCases
    <3>5. /\ \A u \in Users : <<"inbox", u>> \notin {src, dst} => Range(inbox'[u]) = Range(inbox[u])
          /\ \A x \in Conns : <<"chan", x>> \notin {src, dst}
                                => Carried(chan'[x]) = Carried(chan[x])
      BY <2>2, <3>2
    <3>6. \A p \in Places : p \notin {src, dst} => Held'[p] = Held[p]
      BY <1>w, <2>1, <3>5, HeldSame
    <3>7. /\ e.msg \in Held[src] /\ Held'[src] = Held[src] \ {e.msg}
          /\ Held'[dst] = Held[dst] \cup {e.msg}
      BY <2>2, <3>1, <3>3, HeldAt, HeldAtNext
    <3> HIDE DEF src, dst
    <3> QED BY <1>h, <2>2, <3>4, <3>6, <3>7, TransferOne
  <2> QED BY <2>3, <2>4
<1>12. ASSUME NEW c \in Conns, ForwardToDeadSocket(c)
       PROVE  HeldStep
  <2> DEFINE T == {<<"chan", c>>}
  <2>1. /\ job' = job /\ queue' = queue /\ inbox' = inbox /\ drained' = drained
        /\ wire' = wire
    BY <1>12 DEF ForwardToDeadSocket
  <2>2. /\ Carried(chan'[c]) \subseteq Carried(chan[c])
        /\ Carried(chan[c]) \subseteq Carried(chan'[c]) \cup lost'
        /\ \A x \in Conns : x # c => chan'[x] = chan[x]
    BY <1>12, DeadSocketEffect
  <2>3. \A x \in Conns : <<"chan", x>> \notin T => Carried(chan'[x]) = Carried(chan[x])
    BY <2>2
  <2>4. \A p \in Places : p \notin T => Held'[p] = Held[p]
    BY <1>w, <2>1, <2>3, HeldSame
  <2>5. /\ Held'[<<"chan", c>>] \subseteq Held[<<"chan", c>>]
        /\ Held[<<"chan", c>>] \subseteq Held'[<<"chan", c>>] \cup lost'
    BY <2>2, HeldAt, HeldAtNext
  <2> QED BY <2>4, <2>5 DEF HeldStep, Loses
<1>13. ASSUME NEW c \in Conns, NEW m \in Msgs, Compose(c, m)
       PROVE  HeldStep
  <2> DEFINE dst == <<"wire", c>>
  <2>1. /\ job' = job /\ queue' = queue /\ inbox' = inbox /\ drained' = drained
        /\ chan' = chan /\ wire' = [wire EXCEPT ![c] = Append(@, m)] /\ m \notin Composed
    BY <1>13 DEF Compose, Composed
  <2>2. /\ wire'[c] = Append(wire[c], m)
        /\ \A x \in Conns : x # c => wire'[x] = wire[x]
    BY <1>t, <2>1
  <2>3. Range(wire'[c]) = Range(wire[c]) \cup {m} BY <1>t, <2>2, AppendFacts
  <2>4. \A x \in Conns : <<"wire", x>> \notin {dst} => Range(wire'[x]) = Range(wire[x])
    BY <2>2
  <2>5. \A p \in Places : p \notin {dst} => Held'[p] = Held[p]
    BY <1>w, <2>1, <2>4, HeldSame
  <2>6. Held'[dst] = Held[dst] \cup {m} /\ dst \in Places BY <2>3, HeldAt, HeldAtNext, PlaceCases
  <2>7. \A p \in Places : m \notin Held[p] BY <1>h, <2>1, HeldComposed
  <2> HIDE DEF dst
  <2>8. Moves({m}, dst) BY <2>5, <2>6, <2>7 DEF Moves
  <2> QED BY <2>6, <2>8 DEF HeldStep
<1>14. ASSUME NEW m \in Msgs, ComposeOffline(m)
       PROVE  HeldStep
  <2>1. /\ job' = job /\ queue' = queue /\ inbox' = inbox /\ drained' = drained
        /\ chan' = chan /\ wire' = wire
    BY <1>14 DEF ComposeOffline
  <2>2. \A p \in Places : Held'[p] = Held[p] BY <1>w, <2>1, HeldUntouched
  <2> QED BY <1>l, <2>2
<1>15. CASE RelayCrash
  <2> DEFINE T == {"wire", "job", "drained", "chan"} \X Conns
  <2>1. queue' = queue /\ inbox' = inbox BY <1>15 DEF RelayCrash
  <2>2. \A x \in Conns :
          /\ Carried(chan'[x]) = {} /\ Range(wire'[x]) = {} /\ Range(drained'[x]) = {}
          /\ job'[x] = Idle
          /\ Carried(chan[x]) \cup Range(wire[x]) \cup Range(drained[x]) \cup Waiting(x)
               \subseteq lost'
    BY <1>15, CrashEffect
  <2>3. \A x \in Conns : Waiting(x)' = {} BY <1>i, <2>2 DEF Idle, At
  <2>4. ASSUME NEW p \in Places
        PROVE  Held'[p] = Held[p] \/ (Held'[p] = {} /\ Held[p] \subseteq lost')
    <3>1. ASSUME NEW u \in Users, p = <<"queue", u>> \/ p = <<"inbox", u>>
          PROVE  Held'[p] = Held[p]
      <4>1. \/ Held[p] = Range(queue[u]) /\ Held'[p] = Range(queue'[u])
            \/ Held[p] = Range(inbox[u]) /\ Held'[p] = Range(inbox'[u])
        BY <3>1, HeldAt, HeldAtNext
      <4> QED BY <2>1, <4>1
    <3>2. ASSUME NEW x \in Conns, \/ p = <<"wire", x>> \/ p = <<"job", x>>
                                  \/ p = <<"drained", x>> \/ p = <<"chan", x>>
          PROVE  Held'[p] = {} /\ Held[p] \subseteq lost'
      <4>1. \/ Held[p] = Range(wire[x]) /\ Held'[p] = Range(wire'[x])
            \/ Held[p] = Waiting(x) /\ Held'[p] = Waiting(x)'
            \/ Held[p] = Range(drained[x]) /\ Held'[p] = Range(drained'[x])
            \/ Held[p] = Carried(chan[x]) /\ Held'[p] = Carried(chan'[x])
        BY <3>2, HeldAt, HeldAtNext
      <4> QED BY <2>2, <2>3, <4>1
    <3> QED BY <3>1, <3>2, PlaceCases
  <2> QED BY <2>4 DEF HeldStep, Loses
<1>16. ASSUME NEW c \in Conns, TaskStep(c)
       PROVE  HeldStep
  BY <1>1, <1>2, <1>3, <1>4, <1>5, <1>6, <1>7, <1>8, <1>9, <1>10, <1>16
     DEF TaskStep, Handling, ProfileCommand, Elsewhere, RelayReject, RelayEnterLoop, RelayHangUp, RelayUnregister,
         RelayAnnounceOffline
<1> QED BY <1>1, <1>11, <1>12, <1>13, <1>14, <1>15, <1>16
        DEF RelayNext, vars, RelayOpen, RelayDisconnect, ForwardStep

(***************************************************************************)
(* No step puts a message a second time in a place that has it.            *)
(***************************************************************************)
LEMMA NoRepeatsStep ==
    ASSUME RelayTypeOK, RegistryInv, LinkInv, PlaceInv, [RelayNext]_vars
    PROVE  NoRepeats'
<1>t. /\ wire \in [Conns -> Seq(Msgs)] /\ job \in [Conns -> Job]
      /\ queue \in [Users -> Seq(Msgs)] /\ drained \in [Conns -> Seq(Msgs)]
      /\ inbox \in [Users -> Seq(Msgs)]
  BY DEF RelayTypeOK
<1>h. OneHolder /\ ComposedOnly BY DEF PlaceInv
<1>o. /\ \A u \in Users : Once(queue[u]) /\ Once(inbox[u])
      /\ \A c \in Conns : Once(wire[c]) /\ Once(drained[c]) /\ CarriedOnce(chan[c])
  BY DEF PlaceInv, NoRepeats
<1>e. Once(<<>>) /\ CarriedOnce(<<>>) BY EmptyFacts
<1>a. ASSUME \A u \in Users : Once(queue'[u]),
             \A u \in Users : Once(inbox'[u]),
             \A c \in Conns : Once(wire'[c]),
             \A c \in Conns : Once(drained'[c]),
             \A c \in Conns : CarriedOnce(chan'[c])
      PROVE  NoRepeats'
  BY <1>a DEF NoRepeats
<1>k. KeepsOnce => \A c \in Conns : CarriedOnce(chan'[c]) BY <1>o DEF KeepsOnce
<1>1. CASE UNCHANGED relayVars BY <1>1, <1>a, <1>o DEF relayVars
<1>2. ASSUME NEW c \in Conns, TaskEnds(c)
      PROVE  NoRepeats'
  <2>1. queue' = queue /\ inbox' = inbox BY <1>2 DEF TaskEnds
  <2>2. /\ drained' = drained /\ KeepsOnce /\ wire'[c] = <<>>
        /\ \A x \in Conns : x # c => wire'[x] = wire[x]
    BY <1>2, TaskEndsEffect
  <2>3. \A x \in Conns : Once(wire'[x]) BY <1>e, <1>o, <2>2
  <2> QED BY <1>a, <1>k, <1>o, <2>1, <2>2, <2>3
<1>3. ASSUME NEW c \in Conns, RelayRegister(c)
      PROVE  NoRepeats'
  BY <1>3, <1>a, <1>o DEF RelayRegister
<1>4. ASSUME NEW c \in Conns, Drain(c)
      PROVE  NoRepeats'
  <2>1. chan' = chan /\ inbox' = inbox /\ wire' = wire BY <1>4 DEF Drain
  <2>2. owner[c] \in Users
    BY <1>4 DEF Drain, Snapshot, Goto, RegistryInv, ActiveOwned, Active
  <2>3. CASE queue' = queue /\ drained' = drained BY <1>a, <1>o, <2>1, <2>3
  <2>4. CASE /\ queue' = [queue EXCEPT ![owner[c]] = <<>>]
             /\ drained' = [drained EXCEPT ![c] = queue[owner[c]]]
    <3>1. /\ \A u \in Users : queue'[u] = queue[u] \/ queue'[u] = <<>>
          /\ \A x \in Conns : drained'[x] = drained[x] \/ drained'[x] = queue[owner[c]]
      BY <1>t, <2>2, <2>4
    <3>2. \A u \in Users : Once(queue'[u]) BY <1>e, <1>o, <3>1
    <3>3. \A x \in Conns : Once(drained'[x]) BY <1>o, <2>2, <3>1
    <3> QED BY <1>a, <1>o, <2>1, <3>2, <3>3
  <2> QED BY <1>4, <2>3, <2>4 DEF Drain, RowsFor
<1>5. ASSUME NEW c \in Conns, Replay(c)
      PROVE  NoRepeats'
  <2>1. inbox' = inbox /\ wire' = wire /\ queue' = queue BY <1>5 DEF Replay
  <2>2. PICK m \in Msgs :
          /\ drained[c] # <<>> /\ m = Head(drained[c])
          /\ drained' = [drained EXCEPT ![c] = Tail(@)]
          /\ m \notin Carried(chan[c]) => KeepsOnce
    BY <1>5, ReplayEffect
  <2>3. /\ drained'[c] = Tail(drained[c])
        /\ \A x \in Conns : x # c => drained'[x] = drained[x]
    BY <1>t, <2>2
  <2>4. m \in Range(drained[c]) /\ Once(Tail(drained[c]))
    BY <1>t, <1>o, <2>2, TakeFirst
  <2>5. \A x \in Conns : Once(drained'[x]) BY <1>o, <2>3, <2>4
  <2>6. m \notin Carried(chan[c])
    <3>1. m \in Held[<<"drained", c>>] /\ Held[<<"chan", c>>] = Carried(chan[c])
      BY <2>4, HeldAt
    <3>2. /\ <<"drained", c>> \in Places /\ <<"chan", c>> \in Places
          /\ <<"drained", c>> # <<"chan", c>>
      BY PlaceCases
    <3> QED BY <1>h, <3>1, <3>2 DEF OneHolder
  <2> QED BY <1>a, <1>k, <1>o, <2>1, <2>2, <2>5, <2>6
<1>6. ASSUME NEW c \in Conns, RefuseMessage(c)
      PROVE  NoRepeats'
  <2>1. queue' = queue /\ inbox' = inbox /\ drained' = drained BY <1>6 DEF RefuseMessage
  <2>2. wire[c] # <<>> /\ wire' = [wire EXCEPT ![c] = Tail(@)] /\ KeepsOnce
    BY <1>6, RefuseEffect
  <2>3. Once(Tail(wire[c])) BY <1>t, <1>o, <2>2, TakeFirst
  <2>4. \A x \in Conns : Once(wire'[x]) BY <1>t, <1>o, <2>2, <2>3
  <2> QED BY <1>a, <1>k, <1>o, <2>1, <2>2, <2>4
<1>7. ASSUME NEW c \in Conns, Lookup(c)
      PROVE  NoRepeats'
  <2>1. queue' = queue /\ inbox' = inbox /\ drained' = drained /\ chan' = chan
    BY <1>7 DEF Lookup
  <2>2. wire[c] # <<>> /\ wire' = [wire EXCEPT ![c] = Tail(@)]
    BY <1>7 DEF Lookup, NextCommand
  <2>3. Once(Tail(wire[c])) BY <1>t, <1>o, <2>2, TakeFirst
  <2>4. \A x \in Conns : Once(wire'[x]) BY <1>t, <1>o, <2>2, <2>3
  <2> QED BY <1>a, <1>o, <2>1, <2>4
<1>8. ASSUME NEW c \in Conns, Push(c)
      PROVE  NoRepeats'
  <2>1. /\ inbox' = inbox /\ wire' = wire /\ queue' = queue /\ drained' = drained
    BY <1>8 DEF Push
  <2>2. PICK m \in Msgs :
          /\ job[c].stage = "push" /\ job[c].msg = m
          /\ (\A x \in Conns : m \notin Carried(chan[x])) => KeepsOnce
    BY <1>8, PushEffect
  <2>3. ASSUME NEW x \in Conns PROVE m \notin Carried(chan[x])
    <3>1. Waiting(c) = {m} BY <2>2 DEF Waiting
    <3>2. m \in Held[<<"job", c>>] /\ Held[<<"chan", x>>] = Carried(chan[x])
      BY <3>1, HeldAt
    <3>3. /\ <<"job", c>> \in Places /\ <<"chan", x>> \in Places
          /\ <<"job", c>> # <<"chan", x>>
      BY PlaceCases
    <3> QED BY <1>h, <3>2, <3>3 DEF OneHolder
  <2> QED BY <1>a, <1>k, <1>o, <2>1, <2>2, <2>3
<1>9. ASSUME NEW c \in Conns, Queue(c)
      PROVE  NoRepeats'
  <2> DEFINE m == job[c].msg
  <2>1. /\ chan' = chan /\ wire' = wire /\ inbox' = inbox /\ drained' = drained
        /\ \/ queue' = queue
           \/ /\ queue' = [queue EXCEPT ![To[m]] = Append(@, m)]
              /\ m \notin Range(queue[To[m]])
    BY <1>9 DEF Queue
  <2>2. m \in Msgs BY <1>9 DEF Queue, LinkInv, LocalsInPhase, LocalsOf
  <2> HIDE DEF m
  <2>3. To[m] \in Users BY <2>2, RelayAssumption
  <2>4. CASE queue' = queue BY <1>a, <1>o, <2>1, <2>4
  <2>5. CASE /\ queue' = [queue EXCEPT ![To[m]] = Append(@, m)]
             /\ m \notin Range(queue[To[m]])
    <3>1. Once(Append(queue[To[m]], m)) BY <1>t, <1>o, <2>2, <2>3, <2>5, AppendFacts
    <3>2. \A u \in Users : Once(queue'[u]) BY <1>t, <1>o, <2>3, <2>5, <3>1
    <3> QED BY <1>a, <1>o, <2>1, <3>2
  <2> QED BY <2>1, <2>4, <2>5
<1>10. ASSUME NEW c \in Conns, Echo(c)
       PROVE  NoRepeats'
  <2>1. /\ inbox' = inbox /\ wire' = wire /\ queue' = queue /\ drained' = drained
    BY <1>10 DEF Echo
  <2>2. KeepsOnce BY <1>10, EchoEffect
  <2> QED BY <1>a, <1>k, <1>o, <2>1, <2>2
<1>11. ASSUME NEW c \in Conns, Forward(c)
       PROVE  NoRepeats'
  <2>1. wire' = wire /\ queue' = queue /\ drained' = drained BY <1>11 DEF Forward
  <2>2. PICK e \in Event :
          /\ owner[c] \in Users /\ e.msg \in Msgs
          /\ e.kind = "message" =>
               /\ Carried(chan[c]) = Carried(chan'[c]) \cup {e.msg}
               /\ inbox' = [inbox EXCEPT ![owner[c]] = Append(@, e.msg)]
          /\ e.kind # "message" => inbox' = inbox
          /\ KeepsOnce
    BY <1>11, ForwardEffect
  <2>3. \A u \in Users : Once(inbox'[u])
    <3>1. CASE e.kind # "message" BY <1>o, <2>2, <3>1
    <3>2. CASE e.kind = "message"
      <4>1. e.msg \in Carried(chan[c]) BY <2>2, <3>2
      <4>2. e.msg \in Held[<<"chan", c>>] /\ Held[<<"inbox", owner[c]>>] = Range(inbox[owner[c]])
        BY <2>2, <4>1, HeldAt
      <4>3. /\ <<"chan", c>> \in Places /\ <<"inbox", owner[c]>> \in Places
            /\ <<"chan", c>> # <<"inbox", owner[c]>>
        BY <2>2, PlaceCases
      <4>4. e.msg \notin Range(inbox[owner[c]]) BY <1>h, <4>2, <4>3 DEF OneHolder
      <4>5. Once(Append(inbox[owner[c]], e.msg)) BY <1>t, <1>o, <2>2, <4>4, AppendFacts
      <4> QED BY <1>t, <1>o, <2>2, <3>2, <4>5
    <3> QED BY <3>1, <3>2
  <2> QED BY <1>a, <1>k, <1>o, <2>1, <2>2, <2>3
<1>12. ASSUME NEW c \in Conns, ForwardToDeadSocket(c)
       PROVE  NoRepeats'
  <2>1. queue' = queue /\ inbox' = inbox /\ drained' = drained /\ wire' = wire
    BY <1>12 DEF ForwardToDeadSocket
  <2>2. KeepsOnce BY <1>12, DeadSocketEffect
  <2> QED BY <1>a, <1>k, <1>o, <2>1, <2>2
<1>13. ASSUME NEW c \in Conns, NEW m \in Msgs, Compose(c, m)
       PROVE  NoRepeats'
  <2>1. /\ queue' = queue /\ inbox' = inbox /\ drained' = drained
        /\ chan' = chan /\ wire' = [wire EXCEPT ![c] = Append(@, m)] /\ m \notin Composed
    BY <1>13 DEF Compose, Composed
  <2>2. m \notin Range(wire[c]) BY <1>h, <2>1 DEF ComposedOnly
  <2>3. Once(Append(wire[c], m)) BY <1>t, <1>o, <2>2, AppendFacts
  <2>4. \A x \in Conns : Once(wire'[x]) BY <1>t, <1>o, <2>1, <2>3
  <2> QED BY <1>a, <1>o, <2>1, <2>4
<1>14. ASSUME NEW m \in Msgs, ComposeOffline(m)
       PROVE  NoRepeats'
  BY <1>14, <1>a, <1>o DEF ComposeOffline
<1>15. CASE RelayCrash
  <2>1. queue' = queue /\ inbox' = inbox BY <1>15 DEF RelayCrash
  <2>2. \A x \in Conns : chan'[x] = <<>> /\ wire'[x] = <<>> /\ drained'[x] = <<>>
    BY <1>15, CrashEffect
  <2> QED BY <1>a, <1>e, <1>o, <2>1, <2>2
<1>16. ASSUME NEW c \in Conns, TaskStep(c)
       PROVE  NoRepeats'
  BY <1>1, <1>2, <1>3, <1>4, <1>5, <1>6, <1>7, <1>8, <1>9, <1>10, <1>16
     DEF TaskStep, Handling, ProfileCommand, Elsewhere, RelayReject, RelayEnterLoop, RelayHangUp, RelayUnregister,
         RelayAnnounceOffline
<1> QED BY <1>1, <1>11, <1>12, <1>13, <1>14, <1>15, <1>16
        DEF RelayNext, vars, RelayOpen, RelayDisconnect, ForwardStep

(***************************************************************************)
(* A bubble appears with its message in the socket, or not sent at all.    *)
(***************************************************************************)
LEMMA NewBubbles ==
    ASSUME RelayTypeOK, RegistryInv, LinkInv, ComposedOnly, [RelayNext]_vars
    PROVE  /\ lost \subseteq lost' /\ dropped \subseteq dropped'
           /\ \A m \in Msgs : bubble'[m] # "none" /\ bubble[m] = "none" =>
                m \in dropped' \/ \E p \in Places : m \in Held'[p]
<1> DEFINE Goal == /\ lost \subseteq lost' /\ dropped \subseteq dropped'
                   /\ \A m \in Msgs : bubble'[m] # "none" /\ bubble[m] = "none" =>
                        m \in dropped' \/ \E p \in Places : m \in Held'[p]
<1>t. /\ wire \in [Conns -> Seq(Msgs)] /\ bubble \in [Msgs -> {"none", "sent", "delivered"}]
  BY DEF RelayTypeOK
<1>1. CASE UNCHANGED relayVars BY <1>1 DEF relayVars
<1>2. ASSUME NEW c \in Conns, TaskEnds(c) PROVE Goal BY <1>2 DEF TaskEnds
<1>3. ASSUME NEW c \in Conns,
             RelayRegister(c) \/ Drain(c) \/ Replay(c) \/ RefuseMessage(c) \/ Lookup(c)
               \/ Push(c) \/ Queue(c) \/ Echo(c) \/ ForwardToDeadSocket(c)
      PROVE  Goal
  BY <1>3 DEF RelayRegister, Drain, Replay, RefuseMessage, Lookup, Push, Queue, Echo,
              ForwardToDeadSocket
<1>4. ASSUME NEW c \in Conns, Forward(c)
      PROVE  Goal
  <2>1. lost' = lost /\ dropped' = dropped BY <1>4 DEF Forward
  <2>2. PICK e \in Event :
          /\ e.msg \in Msgs
          /\ Mentioned(chan'[c]) \cup {e.msg} \subseteq Mentioned(chan[c])
          /\ bubble' = [bubble EXCEPT ![e.msg] =
                          IF SaysDelivered(e) THEN "delivered"
                          ELSE IF e.kind = "echo" THEN "sent" ELSE @]
    BY <1>4, ForwardEffect
  <2>3. bubble[e.msg] # "none" BY <2>2 DEF ComposedOnly, Composed
  <2>4. \A m \in Msgs : m # e.msg => bubble'[m] = bubble[m] BY <1>t, <2>2
  <2> QED BY <2>1, <2>3, <2>4
<1>5. ASSUME NEW c \in Conns, NEW m \in Msgs, Compose(c, m)
      PROVE  Goal
  <2>1. /\ lost' = lost /\ dropped' = dropped /\ bubble' = [bubble EXCEPT ![m] = "sent"]
        /\ wire'[c] = Append(wire[c], m)
    BY <1>5, <1>t DEF Compose
  <2>2. Range(wire'[c]) = Range(wire[c]) \cup {m} BY <1>t, <2>1, AppendFacts
  <2>3. m \in Held'[<<"wire", c>>] BY <2>2, HeldAtNext
  <2>4. \E p \in Places : m \in Held'[p] BY <2>3, PlaceCases
  <2>5. \A n \in Msgs : n # m => bubble'[n] = bubble[n] BY <1>t, <2>1
  <2> QED BY <2>1, <2>4, <2>5
<1>6. ASSUME NEW m \in Msgs, ComposeOffline(m)
      PROVE  Goal
  BY <1>6, <1>t DEF ComposeOffline
<1>7. CASE RelayCrash
  <2>1. lost \subseteq lost' BY <1>7, CrashEffect
  <2> QED BY <1>7, <2>1 DEF RelayCrash
<1>8. ASSUME NEW c \in Conns, TaskStep(c)
      PROVE  Goal
  BY <1>1, <1>2, <1>3, <1>8
     DEF TaskStep, Handling, ProfileCommand, Elsewhere, RelayReject, RelayEnterLoop, RelayHangUp, RelayUnregister,
         RelayAnnounceOffline
<1> QED BY <1>1, <1>3, <1>4, <1>5, <1>6, <1>7, <1>8
        DEF RelayNext, vars, RelayOpen, RelayDisconnect, ForwardStep

(***************************************************************************)
(* A message stays in one place, and every composed message in some place. *)
(***************************************************************************)
LEMMA PlaceStep ==
    ASSUME RelayTypeOK, RegistryInv, LinkInv, PlaceInv, [RelayNext]_vars
    PROVE  PlaceInv'
<1>1. OneHolder /\ Accounted /\ ComposedOnly BY DEF PlaceInv
<1>2. HeldStep BY StoresMove
<1>3. OneHolder' BY <1>1, <1>2, OneHolderKept
<1>4. Accounted' BY <1>1, <1>2, NewBubbles, AccountedKept
<1>5. ComposedOnly' BY <1>1, ComposedStep
<1>6. NoRepeats' BY NoRepeatsStep
<1> QED BY <1>3, <1>4, <1>5, <1>6 DEF PlaceInv

-----------------------------------------------------------------------------
(* The order of the queue's rows.                                          *)

(***************************************************************************)
(* Before, by its arguments; a message that was never queued comes before  *)
(* and after everything.                                                   *)
(***************************************************************************)
LEMMA BeforeSub ==
    ASSUME NEW r, NEW A, NEW B, NEW C, NEW D, Before(r, A, B), C \subseteq A, D \subseteq B
    PROVE  Before(r, C, D)
BY DEF Before

LEMMA BeforeUnion ==
    ASSUME NEW r, NEW A, NEW B, NEW C
    PROVE  /\ Before(r, A, C) /\ Before(r, B, C) => Before(r, A \cup B, C)
           /\ Before(r, C, A) /\ Before(r, C, B) => Before(r, C, A \cup B)
BY DEF Before

LEMMA BeforeNone ==
    ASSUME NEW r, NEW A PROVE Before(r, {}, A) /\ Before(r, A, {})
BY DEF Before

LEMMA BeforeNew ==
    ASSUME NEW r, NEW A, NEW m, m \notin Range(r)
    PROVE  Before(r, {m}, A) /\ Before(r, A, {m})
BY DEF Before, Range

LEMMA BeforeInsert ==
    ASSUME NEW r \in Seq(Msgs), NEW m \in Msgs, m \notin Range(r),
           NEW A, NEW B, m \notin A, Before(r, A, B)
    PROVE  Before(Append(r, m), A, B \cup {m})
<1> DEFINE t == Append(r, m)
           n == Len(r) + 1
<1>1. /\ n \in DOMAIN t /\ t[n] = m
      /\ \A i \in DOMAIN t : i # n => i \in DOMAIN r /\ t[i] = r[i] /\ i < n
  OBVIOUS
<1> HIDE DEF t, n
<1> SUFFICES ASSUME NEW k \in DOMAIN t, NEW l \in DOMAIN t, t[k] \in A, t[l] \in B \cup {m}
             PROVE  k < l
  BY DEF Before, t
<1>2. k # n BY <1>1
<1>3. CASE l = n BY <1>1, <1>2, <1>3
<1>4. CASE l # n
  <2>1. r[k] \in A /\ r[l] \in B BY <1>1, <1>2, <1>4 DEF Range
  <2> QED BY <1>1, <1>2, <1>4, <2>1 DEF Before
<1> QED BY <1>3, <1>4

(***************************************************************************)
(* Stores that keep the order of the rows, as they grow and shrink.        *)
(***************************************************************************)
LEMMA InOrderNone == \A r : InOrder(r, <<>>) /\ CarriedInOrder(r, <<>>)
BY DEF InOrder, CarriedInOrder

LEMMA InOrderAppend ==
    ASSUME NEW r, NEW s \in Seq(Msgs), NEW m \in Msgs,
           InOrder(r, s), Before(r, Range(s), {m})
    PROVE  InOrder(r, Append(s, m))
<1> DEFINE t == Append(s, m)
           n == Len(s) + 1
<1>1. /\ n \in DOMAIN t /\ t[n] = m
      /\ \A i \in DOMAIN t : i # n => i \in DOMAIN s /\ t[i] = s[i] /\ i < n
      /\ \A i \in DOMAIN t : ~ (i < i) /\ ~ (n < i)
  OBVIOUS
<1> HIDE DEF t, n
<1> SUFFICES ASSUME NEW i \in DOMAIN t, NEW j \in DOMAIN t, i < j
             PROVE  Before(r, {t[i]}, {t[j]})
  BY DEF InOrder, t
<1>2. i # n BY <1>1
<1>3. CASE j = n
  <2>1. {t[i]} \subseteq Range(s) /\ t[j] = m BY <1>1, <1>2, <1>3 DEF Range
  <2> QED BY <2>1, BeforeSub
<1>4. CASE j # n BY <1>1, <1>2, <1>4 DEF InOrder
<1> QED BY <1>3, <1>4

LEMMA InOrderTail ==
    ASSUME NEW r, NEW s \in Seq(Msgs), s # <<>>, InOrder(r, s)
    PROVE  InOrder(r, Tail(s)) /\ Before(r, {Head(s)}, Range(Tail(s)))
<1> DEFINE t == Tail(s)
<1>1. /\ 1 \in DOMAIN s /\ Head(s) = s[1]
      /\ \A i \in DOMAIN t : i + 1 \in DOMAIN s /\ t[i] = s[i + 1]
      /\ DOMAIN s \subseteq Nat /\ DOMAIN t \subseteq Nat \ {0}
  BY TailShape
<1> HIDE DEF t
<1>2. InOrder(r, t)
  <2> SUFFICES ASSUME NEW i \in DOMAIN t, NEW j \in DOMAIN t, i < j
               PROVE  Before(r, {t[i]}, {t[j]})
    BY DEF InOrder
  <2>1. i + 1 < j + 1 BY <1>1
  <2> QED BY <1>1, <2>1 DEF InOrder
<1>3. Before(r, {s[1]}, Range(t))
  <2>1. ASSUME NEW j \in DOMAIN t PROVE Before(r, {s[1]}, {t[j]})
    <3>1. 1 < j + 1 BY <1>1
    <3> QED BY <1>1, <3>1 DEF InOrder
  <2> QED BY <2>1 DEF Before, Range
<1> QED BY <1>1, <1>2, <1>3 DEF t

LEMMA InOrderInsert ==
    ASSUME NEW r \in Seq(Msgs), NEW m \in Msgs, m \notin Range(r),
           NEW s \in Seq(Msgs), m \notin Range(s), InOrder(r, s)
    PROVE  InOrder(Append(r, m), s)
<1> SUFFICES ASSUME NEW i \in DOMAIN s, NEW j \in DOMAIN s, i < j
             PROVE  Before(Append(r, m), {s[i]}, {s[j]})
  BY DEF InOrder
<1>1. Before(r, {s[i]}, {s[j]}) /\ m \notin {s[i]} BY DEF InOrder, Range
<1>2. Before(Append(r, m), {s[i]}, {s[j]} \cup {m}) BY <1>1, BeforeInsert
<1> QED BY <1>2, BeforeSub

LEMMA CarriedInOrderAppend ==
    ASSUME NEW r, NEW ch \in Seq(Event), NEW e \in Event, CarriedInOrder(r, ch),
           e.kind = "message" => Before(r, Carried(ch), {e.msg})
    PROVE  CarriedInOrder(r, Append(ch, e))
<1> DEFINE t == Append(ch, e)
           n == Len(ch) + 1
<1>1. /\ n \in DOMAIN t /\ t[n] = e
      /\ \A i \in DOMAIN t : i # n => i \in DOMAIN ch /\ t[i] = ch[i] /\ i < n
      /\ \A i \in DOMAIN t : ~ (i < i) /\ ~ (n < i)
  OBVIOUS
<1> HIDE DEF t, n
<1> SUFFICES ASSUME NEW i \in DOMAIN t, NEW j \in DOMAIN t, i < j,
                    t[i].kind = "message", t[j].kind = "message"
             PROVE  Before(r, {t[i].msg}, {t[j].msg})
  BY DEF CarriedInOrder, t
<1>2. i # n BY <1>1
<1>3. CASE j = n
  <2>1. {t[i].msg} \subseteq Carried(ch) /\ t[j] = e BY <1>1, <1>2, <1>3 DEF Carried
  <2> QED BY <2>1, BeforeSub
<1>4. CASE j # n BY <1>1, <1>2, <1>4 DEF CarriedInOrder
<1> QED BY <1>3, <1>4

LEMMA CarriedInOrderTail ==
    ASSUME NEW r, NEW ch \in Seq(Event), ch # <<>>, CarriedInOrder(r, ch)
    PROVE  /\ CarriedInOrder(r, Tail(ch))
           /\ Head(ch).kind = "message" => Before(r, {Head(ch).msg}, Carried(Tail(ch)))
<1> DEFINE t == Tail(ch)
<1>1. /\ 1 \in DOMAIN ch /\ Head(ch) = ch[1]
      /\ \A i \in DOMAIN t : i + 1 \in DOMAIN ch /\ t[i] = ch[i + 1]
      /\ DOMAIN ch \subseteq Nat /\ DOMAIN t \subseteq Nat \ {0}
  BY TailShape
<1> HIDE DEF t
<1>2. CarriedInOrder(r, t)
  <2> SUFFICES ASSUME NEW i \in DOMAIN t, NEW j \in DOMAIN t, i < j,
                      t[i].kind = "message", t[j].kind = "message"
               PROVE  Before(r, {t[i].msg}, {t[j].msg})
    BY DEF CarriedInOrder
  <2>1. i + 1 < j + 1 BY <1>1
  <2> QED BY <1>1, <2>1 DEF CarriedInOrder
<1>3. ASSUME ch[1].kind = "message"
      PROVE  Before(r, {ch[1].msg}, Carried(t))
  <2>1. ASSUME NEW j \in DOMAIN t, t[j].kind = "message"
        PROVE  Before(r, {ch[1].msg}, {t[j].msg})
    <3>1. 1 < j + 1 BY <1>1
    <3> QED BY <1>1, <1>3, <2>1, <3>1 DEF CarriedInOrder
  <2> QED BY <2>1 DEF Before, Carried
<1> QED BY <1>1, <1>2, <1>3 DEF t

LEMMA CarriedInOrderInsert ==
    ASSUME NEW r \in Seq(Msgs), NEW m \in Msgs, m \notin Range(r),
           NEW ch \in Seq(Event), m \notin Carried(ch), CarriedInOrder(r, ch)
    PROVE  CarriedInOrder(Append(r, m), ch)
<1> SUFFICES ASSUME NEW i \in DOMAIN ch, NEW j \in DOMAIN ch, i < j,
                    ch[i].kind = "message", ch[j].kind = "message"
             PROVE  Before(Append(r, m), {ch[i].msg}, {ch[j].msg})
  BY DEF CarriedInOrder
<1>1. Before(r, {ch[i].msg}, {ch[j].msg}) /\ m \notin {ch[i].msg} BY DEF CarriedInOrder, Carried
<1>2. Before(Append(r, m), {ch[i].msg}, {ch[j].msg} \cup {m}) BY <1>1, BeforeInsert
<1> QED BY <1>2, BeforeSub

LEMMA PushInOrder ==
    ASSUME NEW ch \in [Conns -> Seq(Event)], NEW d \in Conns, NEW e \in Event, NEW r,
           NEW x \in Conns, CarriedInOrder(r, ch[x]),
           e.kind = "message" => Before(r, Carried(ch[x]), {e.msg})
    PROVE  CarriedInOrder(r, PushTo(ch, d, e)[x])
<1>1. CASE x # d \/ ~ rx[d]
  <2>1. PushTo(ch, d, e)[x] = ch[x] BY <1>1, PushFacts
  <2> QED BY <2>1
<1>2. CASE x = d /\ rx[d]
  <2>1. PushTo(ch, d, e)[x] = Append(ch[x], e) /\ ch[x] \in Seq(Event) BY <1>2, PushFacts
  <2> QED BY <2>1, CarriedInOrderAppend
<1> QED BY <1>1, <1>2

(***************************************************************************)
(* What the actions do to the order of the messages in the channels.       *)
(***************************************************************************)
KeepsOrder == \A x \in Conns : CarriedInOrder(rows, chan[x]) => CarriedInOrder(rows, chan'[x])

LEMMA ReplayOrder ==
    ASSUME RelayTypeOK, LinkInv, NEW c \in Conns, Replay(c),
           Before(rows, Carried(chan[c]), {Head(drained[c])})
    PROVE  KeepsOrder
<1> DEFINE m == Head(drained[c])
           peer == clients[From[m]]
           msg == MessageEvent(m)
           receipt == ReceiptEvent(m)
           own == PushTo(chan, c, msg)
<1>1. drained[c] \in Seq(Msgs) /\ drained[c] # <<>> /\ chan \in [Conns -> Seq(Event)]
  BY DEF Replay, RelayTypeOK
<1>2. m \in Msgs BY <1>1, TailFacts
<1>3. peer \in Conns \cup {None}
  BY <1>2, RelayAssumption DEF RelayTypeOK, TypeOK
<1>4. /\ msg \in Event /\ msg.msg = m
      /\ receipt \in Event /\ receipt.kind # "message"
  BY <1>2, EventTypes DEF MessageEvent, ReceiptEvent
<1>5. chan' = IF peer = None THEN own ELSE PushTo(own, peer, receipt)
  BY DEF Replay
<1>6. Before(rows, Carried(chan[c]), {m}) OBVIOUS
<1> HIDE DEF m, peer, msg, receipt
<1>7. own \in [Conns -> Seq(Event)] BY <1>1, <1>4, PushFacts
<1>8. ASSUME NEW x \in Conns, CarriedInOrder(rows, chan[x])
      PROVE  CarriedInOrder(rows, own[x])
  <2>1. CASE x = c BY <1>1, <1>4, <1>6, <1>8, <2>1, PushInOrder
  <2>2. CASE x # c
    <3>1. own[x] = chan[x] BY <1>1, <1>4, <2>2, PushFacts
    <3> QED BY <1>8, <3>1
  <2> QED BY <2>1, <2>2
<1> HIDE DEF own
<1>9. \A x \in Conns : CarriedInOrder(rows, own[x]) => CarriedInOrder(rows, chan'[x])
  <2>1. CASE peer = None BY <1>5, <2>1
  <2>2. CASE peer # None
    <3>1. peer \in Conns /\ chan' = PushTo(own, peer, receipt) BY <1>3, <1>5, <2>2
    <3> QED BY <1>4, <1>7, <3>1, PushInOrder
  <2> QED BY <2>1, <2>2
<1> QED BY <1>8, <1>9 DEF KeepsOrder

LEMMA RefuseOrder ==
    ASSUME RelayTypeOK, NEW c \in Conns, RefuseMessage(c) PROVE KeepsOrder
<1> DEFINE e == ErrorEvent(Head(wire[c]))
<1>1. /\ wire[c] \in Seq(Msgs) /\ wire[c] # <<>>
      /\ chan' \in {chan, PushTo(chan, c, e)} /\ chan \in [Conns -> Seq(Event)]
  BY DEF RefuseMessage, NextCommand, RelayTypeOK
<1>2. Head(wire[c]) \in Msgs BY <1>1, TailFacts
<1>3. e \in Event /\ e.kind # "message" BY <1>2, EventTypes DEF ErrorEvent
<1> HIDE DEF e
<1>4. CASE chan' = chan BY <1>4 DEF KeepsOrder
<1>5. CASE chan' = PushTo(chan, c, e) BY <1>1, <1>3, <1>5, PushInOrder DEF KeepsOrder
<1> QED BY <1>1, <1>4, <1>5

LEMMA EchoOrder ==
    ASSUME RelayTypeOK, LinkInv, NEW c \in Conns, Echo(c) PROVE KeepsOrder
<1> DEFINE e == EchoEvent(job[c].msg, job[c].stage = "echo_live")
<1>1. chan' = PushTo(chan, c, e) /\ chan \in [Conns -> Seq(Event)]
  BY DEF Echo, RelayTypeOK
<1>2. job[c].msg \in Msgs BY DEF Echo, LinkInv, LocalsInPhase, LocalsOf
<1>3. e \in Event /\ e.kind # "message" BY <1>2, EventTypes DEF EchoEvent
<1> HIDE DEF e
<1> QED BY <1>1, <1>3, PushInOrder DEF KeepsOrder

LEMMA PushOrder ==
    ASSUME RelayTypeOK, LinkInv, NEW c \in Conns, Push(c), job[c].msg \notin Range(rows)
    PROVE  KeepsOrder
<1> DEFINE e == MessageEvent(job[c].msg)
<1>1. /\ chan' = PushTo(chan, job[c].peer, e) /\ chan \in [Conns -> Seq(Event)]
      /\ job[c].peer \in Conns /\ job[c].msg \in Msgs
  BY DEF Push, RelayTypeOK, LinkInv, LocalsInPhase, LocalsOf
<1>2. e \in Event /\ e.msg = job[c].msg BY <1>1, EventTypes DEF MessageEvent
<1>3. \A x \in Conns : Before(rows, Carried(chan[x]), {e.msg}) BY <1>2, BeforeNew
<1> HIDE DEF e
<1> QED BY <1>1, <1>2, <1>3, PushInOrder DEF KeepsOrder

LEMMA DrainedChannelOrder ==
    ASSUME RelayTypeOK, NEW c \in Conns, chan[c] # <<>>,
           \/ chan' = [chan EXCEPT ![c] = Tail(@)]
           \/ chan' = [chan EXCEPT ![c] = <<>>]
    PROVE  KeepsOrder
<1>1. chan \in [Conns -> Seq(Event)] /\ chan[c] \in Seq(Event) BY DEF RelayTypeOK
<1>2. /\ chan'[c] = Tail(chan[c]) \/ chan'[c] = <<>>
      /\ \A x \in Conns : x # c => chan'[x] = chan[x]
  BY <1>1
<1>3. CarriedInOrder(rows, chan[c]) => CarriedInOrder(rows, chan'[c])
  <2>1. CarriedInOrder(rows, chan[c]) => CarriedInOrder(rows, Tail(chan[c]))
    BY <1>1, CarriedInOrderTail
  <2>2. CarriedInOrder(rows, <<>>) BY InOrderNone
  <2> QED BY <1>2, <2>1, <2>2
<1> QED BY <1>2, <1>3 DEF KeepsOrder

(***************************************************************************)
(* A user has one open socket at a time.                                   *)
(***************************************************************************)
LEMMA OneOpenSocketStep ==
    ASSUME TypeOK, OneOpenSocket, [Next]_sessionVars PROVE OneOpenSocket'
<1>t. sock \in [Conns -> BOOLEAN] /\ owner \in [Conns -> Users \cup {None}] BY DEF TypeOK
<1>s. ASSUME owner' = owner, \A x \in Conns : sock'[x] => sock[x]
      PROVE  OneOpenSocket'
  BY <1>s DEF OneOpenSocket
<1>1. ASSUME NEW c \in Conns, NEW u \in Users, Open(c, u)
      PROVE  OneOpenSocket'
  <2>1. /\ owner' = [owner EXCEPT ![c] = u] /\ sock' = [sock EXCEPT ![c] = TRUE]
        /\ \A d \in Conns : owner[d] = u => ~ sock[d]
    BY <1>1, RelayAssumption DEF Open
  <2> QED BY <1>t, <2>1 DEF OneOpenSocket
<1>2. ASSUME NEW c \in Conns, Disconnect(c)
      PROVE  OneOpenSocket'
  BY <1>2, <1>s, <1>t DEF Disconnect
<1>3. ASSUME NEW c \in Conns, ServerStep(c)
      PROVE  OneOpenSocket'
  <2>1. CASE Reject(c) BY <1>s, <1>t, <2>1 DEF Reject
  <2>2. CASE ~ Reject(c)
    <3>1. owner' = owner /\ sock' = sock
      BY <1>3, <2>2
         DEF ServerStep, Authenticate, Register, SetOnline, AnnounceOnline, Snapshot,
             EnterLoop, StatusWrite, HangUp, Unregister, ClearPresence,
             AnnounceOffline
    <3> QED BY <1>s, <3>1
  <2> QED BY <2>1, <2>2
<1>4. ASSUME NEW c \in Conns, NEW s, StatusRead(c, s)
      PROVE  OneOpenSocket'
  BY <1>4, <1>s DEF StatusRead
<1>5. CASE Crash BY <1>5, <1>s DEF Crash
<1>6. CASE UNCHANGED sessionVars BY <1>6, <1>s DEF sessionVars
<1> QED BY <1>1, <1>2, <1>3, <1>4, <1>5, <1>6 DEF Next, MoodRead

(***************************************************************************)
(* A socket is opened once, before its connection has received anything.   *)
(***************************************************************************)
LEMMA SocketsStayClosed ==
    ASSUME TypeOK, [Next]_sessionVars, NEW d \in Conns, pc[d] # "idle", sock'[d]
    PROVE  sock[d]
<1>t. sock \in [Conns -> BOOLEAN] BY DEF TypeOK
<1>1. ASSUME NEW c \in Conns, NEW u \in Users, Open(c, u) PROVE sock[d]
  BY <1>1, <1>t DEF Open
<1>2. ASSUME NEW c \in Conns, Disconnect(c) PROVE sock[d]
  BY <1>2, <1>t DEF Disconnect
<1>3. ASSUME NEW c \in Conns, ServerStep(c) PROVE sock[d]
  BY <1>3, <1>t
     DEF ServerStep, Authenticate, Reject, Register, SetOnline, AnnounceOnline, Snapshot,
         EnterLoop, StatusWrite, HangUp, Unregister, ClearPresence,
         AnnounceOffline
<1>4. ASSUME NEW c \in Conns, NEW s, StatusRead(c, s) PROVE sock[d]
  BY <1>4 DEF StatusRead
<1>5. CASE Crash BY <1>5 DEF Crash
<1>6. CASE UNCHANGED sessionVars BY <1>6 DEF sessionVars
<1> QED BY <1>1, <1>2, <1>3, <1>4, <1>5, <1>6 DEF Next, MoodRead

(***************************************************************************)
(* Messages that were queued are past the stages before the queue.         *)
(***************************************************************************)
LEMMA RowsPastStep ==
    ASSUME RelayTypeOK, LinkInv, PlaceInv, RowsPast, [RelayNext]_vars
    PROVE  RowsPast'
<1>t. /\ wire \in [Conns -> Seq(Msgs)] /\ job \in [Conns -> Job] /\ rows \in Seq(Msgs)
  BY DEF RelayTypeOK
<1>w. \A x \in Conns : job'[x] = job[x] => Waiting(x)' = Waiting(x) BY DEF Waiting
<1>i. \A x \in Conns : job'[x].stage \notin {"push", "queue"} => Waiting(x)' = {} BY DEF Waiting
<1>a. ASSUME rows' = rows,
             \A x \in Conns : Range(wire'[x]) \cup Waiting(x)' \subseteq
                                  Range(wire[x]) \cup Waiting(x) \cup (Msgs \ Range(rows))
      PROVE  RowsPast'
  BY <1>a DEF RowsPast
<1>b. ASSUME rows' = rows, wire' = wire, job' = job
      PROVE  RowsPast'
  BY <1>b, <1>w, <1>a
<1>1. CASE UNCHANGED relayVars BY <1>1, <1>b DEF relayVars
<1>2. ASSUME NEW c \in Conns, TaskEnds(c)
      PROVE  RowsPast'
  <2>1. job' = job /\ rows' = rows BY <1>2 DEF TaskEnds
  <2>2. Range(wire'[c]) = {} /\ \A x \in Conns : x # c => wire'[x] = wire[x]
    BY <1>2, TaskEndsEffect
  <2> QED BY <1>a, <1>w, <2>1, <2>2
<1>3. ASSUME NEW c \in Conns,
             \/ RelayRegister(c) \/ Drain(c) \/ Replay(c)
             \/ Forward(c) \/ ForwardToDeadSocket(c)
      PROVE  RowsPast'
  BY <1>3, <1>b DEF RelayRegister, Drain, Replay, Forward, ForwardToDeadSocket
<1>4. ASSUME NEW c \in Conns, RefuseMessage(c) \/ Lookup(c)
      PROVE  RowsPast'
  <2>1. /\ wire[c] # <<>> /\ wire' = [wire EXCEPT ![c] = Tail(@)] /\ rows' = rows
    BY <1>4 DEF RefuseMessage, Lookup, NextCommand
  <2>2. /\ Range(wire[c]) = {Head(wire[c])} \cup Range(Tail(wire[c])) BY <1>t, <2>1, TailFacts
  <2>3. /\ wire'[c] = Tail(wire[c]) /\ \A x \in Conns : x # c => wire'[x] = wire[x]
    BY <1>t, <2>1
  <2>4. /\ \A x \in Conns : x # c => job'[x] = job[x]
        /\ job'[c] = job[c] \/ job'[c].msg = Head(wire[c])
    BY <1>4, <1>t DEF RefuseMessage, Lookup
  <2>5. Waiting(c)' \subseteq Waiting(c) \cup {Head(wire[c])} BY <2>4 DEF Waiting
  <2>6. \A x \in Conns : x # c => Waiting(x)' = Waiting(x) BY <1>w, <2>4
  <2> QED BY <1>a, <2>1, <2>2, <2>3, <2>5, <2>6
<1>5. ASSUME NEW c \in Conns, Push(c)
      PROVE  RowsPast'
  <2>1. wire' = wire /\ rows' = rows BY <1>5 DEF Push
  <2>2. PICK m \in Msgs :
          /\ job[c].stage = "push" /\ job[c].msg = m
          /\ \/ job' = [job EXCEPT ![c] = At("echo_live", m)]
             \/ job' = [job EXCEPT ![c] = At("queue", m)]
    BY <1>5, PushEffect
  <2>3. job'[c].msg = m /\ \A x \in Conns : x # c => job'[x] = job[x] BY <1>t, <2>2 DEF At
  <2>4. Waiting(c)' \subseteq Waiting(c) BY <2>2, <2>3 DEF Waiting
  <2> QED BY <1>a, <1>w, <2>1, <2>3, <2>4
<1>6. ASSUME NEW c \in Conns, Queue(c)
      PROVE  RowsPast'
  <2> DEFINE m == job[c].msg
  <2>1. /\ wire' = wire /\ job[c].stage = "queue" /\ job' = [job EXCEPT ![c] = At("echo_queued", m)]
        /\ rows' = rows \/ rows' = Append(rows, m)
    BY <1>6 DEF Queue
  <2>2. m \in Msgs BY <2>1 DEF LinkInv, LocalsInPhase, LocalsOf
  <2>3. Waiting(c) = {m} BY <2>1 DEF Waiting
  <2> HIDE DEF m
  <2>4. job'[c].stage = "echo_queued" /\ \A x \in Conns : x # c => job'[x] = job[x]
    BY <1>t, <2>1 DEF At
  <2>5. Waiting(c)' = {} /\ \A x \in Conns : x # c => Waiting(x)' = Waiting(x)
    BY <1>i, <1>w, <2>4
  <2>r. Range(Append(rows, m)) = Range(rows) \cup {m} BY <1>t, <2>2, AppendFacts
  <2>6. Range(rows') \subseteq Range(rows) \cup {m} BY <2>1, <2>r
  <2>7. ASSUME NEW x \in Conns PROVE m \notin Range(wire'[x]) \cup Waiting(x)'
    <3>1. /\ m \in Held[<<"job", c>>] /\ Held[<<"wire", x>>] = Range(wire[x])
          /\ Held[<<"job", x>>] = Waiting(x)
      BY <2>3, HeldAt
    <3>2. /\ <<"job", c>> \in Places /\ <<"wire", x>> \in Places /\ <<"job", x>> \in Places
          /\ <<"job", c>> # <<"wire", x>> /\ (x # c => <<"job", c>> # <<"job", x>>)
      BY PlaceCases
    <3>3. m \notin Range(wire[x]) /\ (x # c => m \notin Waiting(x))
      BY <3>1, <3>2 DEF PlaceInv, OneHolder
    <3> QED BY <2>1, <2>5, <3>3
  <2> QED BY <2>1, <2>5, <2>6, <2>7 DEF RowsPast
<1>7. ASSUME NEW c \in Conns, Echo(c)
      PROVE  RowsPast'
  <2>1. wire' = wire /\ rows' = rows /\ job' = [job EXCEPT ![c] = Idle] BY <1>7 DEF Echo
  <2>2. job'[c].stage = "idle" /\ \A x \in Conns : x # c => job'[x] = job[x]
    BY <1>t, <2>1 DEF Idle, At
  <2> QED BY <1>a, <1>i, <1>w, <2>1, <2>2
<1>8. ASSUME NEW c \in Conns, NEW m \in Msgs, Compose(c, m)
      PROVE  RowsPast'
  <2>1. /\ rows' = rows /\ job' = job /\ wire' = [wire EXCEPT ![c] = Append(@, m)]
        /\ m \notin Composed
    BY <1>8 DEF Compose, Composed
  <2>2. m \notin Range(rows) BY <2>1 DEF PlaceInv, ComposedOnly
  <2>3. Range(Append(wire[c], m)) = Range(wire[c]) \cup {m} BY <1>t, AppendFacts
  <2>4. \A x \in Conns : Range(wire'[x]) \subseteq Range(wire[x]) \cup {m} BY <1>t, <2>1, <2>3
  <2> QED BY <1>a, <1>w, <2>1, <2>2, <2>4
<1>9. ASSUME NEW m \in Msgs, ComposeOffline(m)
      PROVE  RowsPast'
  BY <1>9, <1>b DEF ComposeOffline
<1>10. CASE RelayCrash
  <2>1. rows' = rows BY <1>10 DEF RelayCrash
  <2>2. \A x \in Conns : Range(wire'[x]) = {} /\ job'[x] = Idle BY <1>10, CrashEffect
  <2>3. \A x \in Conns : Waiting(x)' = {} BY <1>i, <2>2 DEF Idle, At
  <2> QED BY <1>a, <2>1, <2>2, <2>3
<1>11. ASSUME NEW c \in Conns, TaskStep(c)
       PROVE  RowsPast'
  BY <1>1, <1>2, <1>3, <1>4, <1>5, <1>6, <1>7, <1>11
     DEF TaskStep, Handling, ProfileCommand, Elsewhere, RelayReject, RelayEnterLoop, RelayHangUp, RelayUnregister,
         RelayAnnounceOffline
<1> QED BY <1>1, <1>3, <1>8, <1>9, <1>10, <1>11
        DEF RelayNext, vars, RelayOpen, RelayDisconnect, ForwardStep

(***************************************************************************)
(* A step that only takes messages out of the server keeps them in order.  *)
(***************************************************************************)
LEMMA LinesShrink ==
    ASSUME RelayTypeOK, LinkInv, Lines, [Next]_sessionVars,
           rows' = rows, queue' = queue, inbox' = inbox, KeepsOrder,
           \A x \in Conns : Carried(chan'[x]) \subseteq Carried(chan[x]),
           \A x \in Conns : drained'[x] = drained[x] \/ drained'[x] = <<>>
    PROVE  Lines'
<1>1. \A u \in Users : UserLine(u)' BY DEF Lines, UserLine
<1>2. ASSUME NEW x \in Conns PROVE ConnLine(x)'
  <2> DEFINE C == Carried(chan[x])
             D == Range(drained[x])
             CC == Carried(chan'[x])
             DD == Range(drained'[x])
  <2>1. /\ CarriedInOrder(rows, chan[x]) /\ InOrder(rows, drained[x]) /\ Before(rows, C, D)
        /\ owner[x] \in Users =>
             /\ Before(rows, C \cup D, Range(queue[owner[x]]))
             /\ sock[x] => Before(rows, Range(inbox[owner[x]]), C \cup D)
    BY DEF Lines, ConnLine
  <2>2. CC \subseteq C /\ DD \subseteq D BY EmptyFacts
  <2>3. InOrder(rows, drained'[x]) BY <2>1, InOrderNone
  <2>4. CarriedInOrder(rows, chan'[x]) BY <2>1 DEF KeepsOrder
  <2>5. Before(rows, CC, DD) BY <2>1, <2>2, BeforeSub
  <2>6. ASSUME owner'[x] \in Users
        PROVE  /\ Before(rows, CC \cup DD, Range(queue[owner'[x]]))
               /\ sock'[x] => Before(rows, Range(inbox[owner'[x]]), CC \cup DD)
    <3>1. CASE pc[x] = "idle"
      <4>1. chan[x] = <<>> /\ drained[x] = <<>>
        BY <3>1 DEF LinkInv, ChannelsLinked, Unlinked, LocalsInPhase, LocalsOf
      <4>2. CC \cup DD = {} BY <2>2, <4>1, EmptyFacts
      <4> HIDE DEF CC, DD
      <4> QED BY <4>2, BeforeNone
    <3>2. CASE pc[x] # "idle"
      <4>1. owner'[x] = owner[x] BY <3>2, OwnersStay DEF RelayTypeOK
      <4>2. sock'[x] => sock[x] BY <3>2, SocketsStayClosed DEF RelayTypeOK
      <4>3. CC \cup DD \subseteq C \cup D BY <2>2
      <4> HIDE DEF C, D, CC, DD
      <4>4. Before(rows, CC \cup DD, Range(queue[owner'[x]])) BY <2>1, <2>6, <4>1, <4>3, BeforeSub
      <4>5. sock'[x] => Before(rows, Range(inbox[owner'[x]]), CC \cup DD)
        BY <2>1, <2>6, <4>1, <4>2, <4>3, BeforeSub
      <4> QED BY <4>4, <4>5
    <3> QED BY <3>1, <3>2
  <2> QED BY <2>3, <2>4, <2>5, <2>6 DEF ConnLine
<1> QED BY <1>1, <1>2 DEF Lines

(***************************************************************************)
(* The drain hands the rows over in the order of the queue.                *)
(***************************************************************************)
LEMMA LinesDrain ==
    ASSUME RelayTypeOK, RegistryInv, LinkInv, Lines, NEW c \in Conns, Drain(c),
           queue' = [queue EXCEPT ![owner[c]] = <<>>],
           drained' = [drained EXCEPT ![c] = queue[owner[c]]]
    PROVE  Lines'
<1> DEFINE o == owner[c]
<1>t. queue \in [Users -> Seq(Msgs)] /\ drained \in [Conns -> Seq(Msgs)] BY DEF RelayTypeOK
<1>1. /\ chan' = chan /\ inbox' = inbox /\ rows' = rows /\ owner' = owner /\ sock' = sock
  BY DEF Drain, Snapshot
<1>2. o \in Users
  BY DEF Drain, Snapshot, Goto, RegistryInv, ActiveOwned, Active
<1>3. /\ queue'[o] = <<>> /\ \A u \in Users : u # o => queue'[u] = queue[u]
      /\ drained'[c] = queue[o] /\ \A x \in Conns : x # c => drained'[x] = drained[x]
  BY <1>t, <1>2
<1>4. /\ InOrder(rows, queue[o]) /\ InOrder(rows, inbox[o])
      /\ Before(rows, Range(inbox[o]), Range(queue[o]))
  BY <1>2 DEF Lines, UserLine
<1>5. Range(queue'[o]) = {} BY <1>3, EmptyFacts
<1> HIDE DEF o
<1>6. ASSUME NEW u \in Users PROVE UserLine(u)'
  <2>1. CASE u # o BY <1>1, <1>3, <2>1 DEF Lines, UserLine
  <2>2. CASE u = o
    <3>1. InOrder(rows, queue'[o]) BY <1>3, InOrderNone
    <3>2. Before(rows, Range(inbox[o]), Range(queue'[o])) BY <1>5, BeforeNone
    <3> QED BY <1>1, <1>4, <2>2, <3>1, <3>2 DEF UserLine
  <2> QED BY <2>1, <2>2
<1>7. ASSUME NEW x \in Conns PROVE ConnLine(x)'
  <2>1. /\ CarriedInOrder(rows, chan[x]) /\ InOrder(rows, drained[x])
        /\ Before(rows, Carried(chan[x]), Range(drained[x]))
        /\ owner[x] \in Users =>
             /\ Before(rows, Carried(chan[x]) \cup Range(drained[x]), Range(queue[owner[x]]))
             /\ sock[x] => Before(rows, Range(inbox[owner[x]]),
                                        Carried(chan[x]) \cup Range(drained[x]))
    BY DEF Lines, ConnLine
  <2>2. CASE x # c
    <3>1. drained'[x] = drained[x] BY <1>3, <2>2
    <3>2. ASSUME owner[x] \in Users
          PROVE  Before(rows, Carried(chan[x]) \cup Range(drained[x]), Range(queue'[owner[x]]))
      <4>1. CASE owner[x] = o BY <1>5, <4>1, BeforeNone
      <4>2. CASE owner[x] # o BY <1>3, <2>1, <3>2, <4>2
      <4> QED BY <4>1, <4>2
    <3> QED BY <1>1, <2>1, <3>1, <3>2 DEF ConnLine
  <2>3. CASE x = c
    <3>1. owner[x] = o /\ drained'[x] = queue[o] BY <1>3, <2>3 DEF o
    <3>2. Before(rows, Carried(chan[x]), Range(queue[o]))
      <4>1. Before(rows, Carried(chan[x]) \cup Range(drained[x]), Range(queue[o]))
        BY <1>2, <2>1, <3>1
      <4> QED BY <4>1, BeforeSub
    <3>3. Before(rows, Carried(chan[x]) \cup Range(queue[o]), Range(queue'[o]))
      BY <1>5, BeforeNone
    <3>4. sock[x] => Before(rows, Range(inbox[o]), Carried(chan[x]) \cup Range(queue[o]))
      <4>1. sock[x] => Before(rows, Range(inbox[o]), Carried(chan[x]) \cup Range(drained[x]))
        BY <1>2, <2>1, <3>1
      <4>2. sock[x] => Before(rows, Range(inbox[o]), Carried(chan[x])) BY <4>1, BeforeSub
      <4> QED BY <1>4, <4>2, BeforeUnion
    <3> QED BY <1>1, <1>4, <2>1, <3>1, <3>2, <3>3, <3>4 DEF ConnLine
  <2> QED BY <2>2, <2>3
<1> QED BY <1>6, <1>7 DEF Lines

(***************************************************************************)
(* The replay loop pushes them in that order.                              *)
(***************************************************************************)
LEMMA LinesReplay ==
    ASSUME RelayTypeOK, LinkInv, Lines, NEW c \in Conns, Replay(c)
    PROVE  Lines'
<1>t. drained \in [Conns -> Seq(Msgs)] BY DEF RelayTypeOK
<1>1. /\ queue' = queue /\ inbox' = inbox /\ rows' = rows /\ owner' = owner /\ sock' = sock
  BY DEF Replay, sessionVars
<1>2. PICK m \in Msgs :
        /\ drained[c] # <<>> /\ m = Head(drained[c])
        /\ drained' = [drained EXCEPT ![c] = Tail(@)]
        /\ Carried(chan'[c]) = Carried(chan[c]) \cup {m}
        /\ \A x \in Conns : x # c => Carried(chan'[x]) = Carried(chan[x])
  BY ReplayEffect
<1>3. /\ drained'[c] = Tail(drained[c]) /\ \A x \in Conns : x # c => drained'[x] = drained[x]
  BY <1>t, <1>2
<1>4. Range(drained[c]) = {m} \cup Range(drained'[c]) BY <1>t, <1>2, <1>3, TailFacts
<1>5. /\ CarriedInOrder(rows, chan[c]) /\ InOrder(rows, drained[c])
      /\ Before(rows, Carried(chan[c]), Range(drained[c]))
  BY DEF Lines, ConnLine
<1>6. /\ InOrder(rows, drained'[c]) /\ Before(rows, {m}, Range(drained'[c]))
  BY <1>t, <1>2, <1>3, <1>5, InOrderTail
<1>7. KeepsOrder
  <2>1. Before(rows, Carried(chan[c]), {m}) BY <1>4, <1>5, BeforeSub
  <2> QED BY <1>2, <2>1, ReplayOrder
<1>8. Before(rows, Carried(chan'[c]), Range(drained'[c]))
  <2>1. Before(rows, Carried(chan[c]), Range(drained'[c])) BY <1>4, <1>5, BeforeSub
  <2>2. Before(rows, Carried(chan[c]) \cup {m}, Range(drained'[c])) BY <1>6, <2>1, BeforeUnion
  <2> QED BY <1>2, <2>2
<1>9. \A u \in Users : UserLine(u)' BY <1>1 DEF Lines, UserLine
<1>10. ASSUME NEW x \in Conns PROVE ConnLine(x)'
  <2>1. /\ CarriedInOrder(rows, chan[x]) /\ InOrder(rows, drained[x])
        /\ Before(rows, Carried(chan[x]), Range(drained[x]))
        /\ owner[x] \in Users =>
             /\ Before(rows, Carried(chan[x]) \cup Range(drained[x]), Range(queue[owner[x]]))
             /\ sock[x] => Before(rows, Range(inbox[owner[x]]),
                                        Carried(chan[x]) \cup Range(drained[x]))
    BY DEF Lines, ConnLine
  <2>2. Carried(chan'[x]) \cup Range(drained'[x]) = Carried(chan[x]) \cup Range(drained[x])
    <3>1. CASE x = c BY <1>2, <1>4, <3>1
    <3>2. CASE x # c BY <1>2, <1>3, <3>2
    <3> QED BY <3>1, <3>2
  <2>3. CarriedInOrder(rows, chan'[x]) BY <1>7, <2>1 DEF KeepsOrder
  <2>4. InOrder(rows, drained'[x]) /\ Before(rows, Carried(chan'[x]), Range(drained'[x]))
    <3>1. CASE x = c BY <1>6, <1>8, <3>1
    <3>2. CASE x # c BY <1>2, <1>3, <2>1, <3>2
    <3> QED BY <3>1, <3>2
  <2> QED BY <1>1, <2>1, <2>2, <2>3, <2>4 DEF ConnLine
<1> QED BY <1>9, <1>10 DEF Lines

(***************************************************************************)
(* A message that is delivered live was never queued: it may overtake.     *)
(***************************************************************************)
LEMMA LinesPush ==
    ASSUME RelayTypeOK, LinkInv, RowsPast, Lines, NEW c \in Conns, Push(c)
    PROVE  Lines'
<1>1. /\ queue' = queue /\ inbox' = inbox /\ rows' = rows /\ owner' = owner /\ sock' = sock
      /\ drained' = drained
  BY DEF Push, sessionVars
<1>2. PICK m \in Msgs :
        /\ job[c].stage = "push" /\ job[c].msg = m
        /\ \A x \in Conns : Carried(chan'[x]) \subseteq Carried(chan[x]) \cup {m}
  BY PushEffect
<1>3. m \notin Range(rows)
  <2>1. m \in Waiting(c) BY <1>2 DEF Waiting
  <2> QED BY <2>1 DEF RowsPast
<1>4. KeepsOrder BY <1>2, <1>3, PushOrder
<1>5. \A A : Before(rows, {m}, A) /\ Before(rows, A, {m}) BY <1>3, BeforeNew
<1>6. \A u \in Users : UserLine(u)' BY <1>1 DEF Lines, UserLine
<1>7. ASSUME NEW x \in Conns PROVE ConnLine(x)'
  <2> DEFINE C == Carried(chan[x])
             D == Range(drained[x])
             CC == Carried(chan'[x])
  <2>1. /\ CarriedInOrder(rows, chan[x]) /\ InOrder(rows, drained[x]) /\ Before(rows, C, D)
        /\ owner[x] \in Users =>
             /\ Before(rows, C \cup D, Range(queue[owner[x]]))
             /\ sock[x] => Before(rows, Range(inbox[owner[x]]), C \cup D)
    BY DEF Lines, ConnLine
  <2>2. CarriedInOrder(rows, chan'[x]) BY <1>4, <2>1 DEF KeepsOrder
  <2>3. CC \subseteq C \cup {m} /\ CC \cup D \subseteq (C \cup D) \cup {m} BY <1>2
  <2> HIDE DEF C, D, CC
  <2>4. Before(rows, CC, D)
    <3>1. Before(rows, C \cup {m}, D) BY <1>5, <2>1, BeforeUnion
    <3> QED BY <2>3, <3>1, BeforeSub
  <2>5. ASSUME owner[x] \in Users
        PROVE  Before(rows, CC \cup D, Range(queue[owner[x]]))
    <3>1. Before(rows, (C \cup D) \cup {m}, Range(queue[owner[x]]))
      BY <1>5, <2>1, <2>5, BeforeUnion
    <3> QED BY <2>3, <3>1, BeforeSub
  <2>6. ASSUME owner[x] \in Users, sock[x]
        PROVE  Before(rows, Range(inbox[owner[x]]), CC \cup D)
    <3>1. Before(rows, Range(inbox[owner[x]]), (C \cup D) \cup {m})
      BY <1>5, <2>1, <2>6, BeforeUnion
    <3> QED BY <2>3, <3>1, BeforeSub
  <2> QED BY <1>1, <2>1, <2>2, <2>4, <2>5, <2>6 DEF ConnLine, C, D, CC
<1> QED BY <1>6, <1>7 DEF Lines

(***************************************************************************)
(* A new row comes after everything that is on its way or has arrived.     *)
(***************************************************************************)
LEMMA LinesQueue ==
    ASSUME RelayTypeOK, LinkInv, PlaceInv, RowsPast, Lines, NEW c \in Conns,
           job[c].stage = "queue", UNCHANGED <<sessionVars, chan, inbox, drained>>,
           queue' = [queue EXCEPT ![To[job[c].msg]] = Append(@, job[c].msg)],
           rows' = Append(rows, job[c].msg)
    PROVE  Lines'
<1> DEFINE m == job[c].msg
           o == To[m]
<1>t. /\ queue \in [Users -> Seq(Msgs)] /\ rows \in Seq(Msgs) /\ inbox \in [Users -> Seq(Msgs)]
      /\ drained \in [Conns -> Seq(Msgs)] /\ chan \in [Conns -> Seq(Event)]
  BY DEF RelayTypeOK
<1>1. /\ chan' = chan /\ inbox' = inbox /\ drained' = drained /\ owner' = owner /\ sock' = sock
      /\ rows' = Append(rows, m) /\ queue' = [queue EXCEPT ![o] = Append(@, m)]
  BY DEF sessionVars
<1>2. m \in Msgs BY DEF LinkInv, LocalsInPhase, LocalsOf
<1>3. o \in Users BY <1>2, RelayAssumption
<1>4. m \in Waiting(c) BY DEF Waiting
<1> HIDE DEF m, o
<1>5. m \notin Range(rows) BY <1>4 DEF RowsPast
<1>6. /\ \A u \in Users : m \notin Range(queue[u]) /\ m \notin Range(inbox[u])
      /\ \A x \in Conns : m \notin Range(drained[x]) /\ m \notin Carried(chan[x])
  <2>1. m \in Held[<<"job", c>>] /\ <<"job", c>> \in Places BY <1>4, HeldAt, PlaceCases
  <2>2. \A p \in Places : p # <<"job", c>> => m \notin Held[p]
    BY <2>1 DEF PlaceInv, OneHolder
  <2>3. ASSUME NEW u \in Users
        PROVE  m \notin Held[<<"queue", u>>] /\ m \notin Held[<<"inbox", u>>]
    <3>1. /\ <<"queue", u>> \in Places /\ <<"queue", u>> # <<"job", c>>
          /\ <<"inbox", u>> \in Places /\ <<"inbox", u>> # <<"job", c>>
      BY PlaceCases
    <3> QED BY <2>2, <3>1
  <2>4. ASSUME NEW x \in Conns
        PROVE  m \notin Held[<<"drained", x>>] /\ m \notin Held[<<"chan", x>>]
    <3>1. /\ <<"drained", x>> \in Places /\ <<"drained", x>> # <<"job", c>>
          /\ <<"chan", x>> \in Places /\ <<"chan", x>> # <<"job", c>>
      BY PlaceCases
    <3> QED BY <2>2, <3>1
  <2> QED BY <2>3, <2>4, HeldAt
<1>7. /\ queue'[o] = Append(queue[o], m)
      /\ \A u \in Users : u # o => queue'[u] = queue[u]
  BY <1>t, <1>1, <1>3
<1>8. \A u \in Users : Range(queue'[u]) \subseteq Range(queue[u]) \cup {m}
  <2>1. Range(Append(queue[o], m)) = Range(queue[o]) \cup {m} BY <1>t, <1>2, <1>3, AppendFacts
  <2> QED BY <1>7, <2>1
<1>9. ASSUME NEW A, NEW B, m \notin A, Before(rows, A, B)
      PROVE  Before(rows', A, B \cup {m})
  BY <1>t, <1>1, <1>2, <1>5, <1>9, BeforeInsert
<1>10. ASSUME NEW s \in Seq(Msgs), m \notin Range(s), InOrder(rows, s)
       PROVE  InOrder(rows', s)
  BY <1>t, <1>1, <1>2, <1>5, <1>10, InOrderInsert
<1>11. ASSUME NEW u \in Users PROVE UserLine(u)'
  <2>1. /\ InOrder(rows, queue[u]) /\ InOrder(rows, inbox[u])
        /\ Before(rows, Range(inbox[u]), Range(queue[u]))
    BY DEF Lines, UserLine
  <2>2. InOrder(rows', queue[u]) /\ InOrder(rows', inbox[u]) BY <1>t, <1>6, <1>10, <2>1
  <2>3. Before(rows', Range(inbox[u]), Range(queue[u]) \cup {m}) BY <1>6, <1>9, <2>1
  <2>4. Before(rows', Range(inbox[u]), Range(queue'[u])) BY <1>8, <2>3, BeforeSub
  <2>5. InOrder(rows', queue'[u])
    <3>1. CASE u # o BY <1>7, <2>2, <3>1
    <3>2. CASE u = o
      <4>1. Before(rows', Range(queue[u]), {} \cup {m})
        <5>1. Before(rows, Range(queue[u]), {}) BY BeforeNone
        <5> QED BY <1>6, <1>9, <5>1
      <4>2. Before(rows', Range(queue[u]), {m}) BY <4>1
      <4>3. InOrder(rows', Append(queue[u], m)) BY <1>t, <1>2, <2>2, <4>2, InOrderAppend
      <4> QED BY <1>7, <3>2, <4>3
    <3> QED BY <3>1, <3>2
  <2> QED BY <1>1, <2>2, <2>4, <2>5 DEF UserLine
<1>12. ASSUME NEW x \in Conns PROVE ConnLine(x)'
  <2> DEFINE C == Carried(chan[x])
             D == Range(drained[x])
  <2>1. /\ CarriedInOrder(rows, chan[x]) /\ InOrder(rows, drained[x]) /\ Before(rows, C, D)
        /\ owner[x] \in Users =>
             /\ Before(rows, C \cup D, Range(queue[owner[x]]))
             /\ sock[x] => Before(rows, Range(inbox[owner[x]]), C \cup D)
    BY DEF Lines, ConnLine
  <2>2. CarriedInOrder(rows', chan[x])
    BY <1>t, <1>1, <1>2, <1>5, <1>6, <2>1, CarriedInOrderInsert
  <2>3. InOrder(rows', drained[x]) BY <1>t, <1>6, <1>10, <2>1
  <2>4. m \notin C /\ m \notin D /\ m \notin C \cup D BY <1>6
  <2> HIDE DEF C, D
  <2>5. Before(rows', C, D)
    <3>1. Before(rows', C, D \cup {m}) BY <1>9, <2>1, <2>4
    <3> QED BY <3>1, BeforeSub
  <2>6. ASSUME owner[x] \in Users
        PROVE  Before(rows', C \cup D, Range(queue'[owner[x]]))
    <3>1. Before(rows', C \cup D, Range(queue[owner[x]]) \cup {m}) BY <1>9, <2>1, <2>4, <2>6
    <3> QED BY <1>8, <2>6, <3>1, BeforeSub
  <2>7. ASSUME owner[x] \in Users, sock[x]
        PROVE  Before(rows', Range(inbox[owner[x]]), C \cup D)
    <3>1. Before(rows', Range(inbox[owner[x]]), (C \cup D) \cup {m}) BY <1>6, <1>9, <2>1, <2>7
    <3> QED BY <3>1, BeforeSub
  <2> QED BY <1>1, <2>2, <2>3, <2>5, <2>6, <2>7 DEF ConnLine, C, D
<1> QED BY <1>11, <1>12 DEF Lines

(***************************************************************************)
(* The browser gets what is first on its one open socket: everything the   *)
(* server still has for it comes later.                                    *)
(***************************************************************************)
LEMMA LinesForward ==
    ASSUME RelayTypeOK, RegistryInv, LinkInv, OneOpenSocket, Lines, NEW c \in Conns, Forward(c)
    PROVE  Lines'
<1> DEFINE o == owner[c]
<1>t. /\ inbox \in [Users -> Seq(Msgs)] /\ chan \in [Conns -> Seq(Event)] BY DEF RelayTypeOK
<1>1. /\ queue' = queue /\ drained' = drained /\ rows' = rows /\ owner' = owner /\ sock' = sock
      /\ sock[c]
  BY DEF Forward, sessionVars
<1>2. PICK e \in Event :
        /\ owner[c] \in Users /\ e.msg \in Msgs
        /\ chan[c] # <<>> /\ e = Head(chan[c])
        /\ chan' = [chan EXCEPT ![c] = Tail(@)]
        /\ e.kind = "message" =>
             /\ Carried(chan[c]) = Carried(chan'[c]) \cup {e.msg}
             /\ inbox' = [inbox EXCEPT ![owner[c]] = Append(@, e.msg)]
        /\ e.kind # "message" => Carried(chan'[c]) = Carried(chan[c]) /\ inbox' = inbox
        /\ \A x \in Conns : x # c => chan'[x] = chan[x]
  BY ForwardEffect
<1>3. KeepsOrder BY <1>2, DrainedChannelOrder
<1>4. CASE e.kind # "message"
  <2>1. inbox' = inbox BY <1>2, <1>4
  <2>2. \A x \in Conns : Carried(chan'[x]) \subseteq Carried(chan[x]) BY <1>2, <1>4
  <2>3. [Next]_sessionVars BY <1>1 DEF Forward
  <2> QED BY <1>1, <1>3, <2>1, <2>2, <2>3, LinesShrink
<1>5. CASE e.kind = "message"
  <2> DEFINE m == e.msg
  <2>1. /\ o \in Users /\ m \in Msgs /\ Carried(chan[c]) = Carried(chan'[c]) \cup {m}
        /\ inbox' = [inbox EXCEPT ![o] = Append(@, m)] /\ owner[c] = o
    BY <1>2, <1>5
  <2>2. /\ inbox'[o] = Append(inbox[o], m) /\ \A u \in Users : u # o => inbox'[u] = inbox[u]
    BY <1>t, <2>1
  <2>3. Range(inbox'[o]) = Range(inbox[o]) \cup {m} BY <1>t, <2>1, <2>2, AppendFacts
  <2>4. /\ CarriedInOrder(rows, chan[c]) /\ InOrder(rows, drained[c])
        /\ Before(rows, Carried(chan[c]), Range(drained[c]))
        /\ Before(rows, Carried(chan[c]) \cup Range(drained[c]), Range(queue[o]))
        /\ Before(rows, Range(inbox[o]), Carried(chan[c]) \cup Range(drained[c]))
    BY <1>1, <2>1 DEF Lines, ConnLine
  <2>5. Before(rows, {m}, Carried(chan'[c]))
    <3>1. chan[c] \in Seq(Event) /\ chan'[c] = Tail(chan[c]) BY <1>t, <1>2
    <3>2. Before(rows, {Head(chan[c]).msg}, Carried(Tail(chan[c])))
      BY <1>2, <1>5, <2>4, <3>1, CarriedInOrderTail
    <3> QED BY <1>2, <3>1, <3>2
  <2> HIDE DEF m, o
  <2>6. ASSUME NEW u \in Users PROVE UserLine(u)'
    <3>1. /\ InOrder(rows, queue[u]) /\ InOrder(rows, inbox[u])
          /\ Before(rows, Range(inbox[u]), Range(queue[u]))
      BY DEF Lines, UserLine
    <3>2. CASE u # o BY <1>1, <2>2, <3>1, <3>2 DEF UserLine
    <3>3. CASE u = o
      <4>1. Before(rows, Range(inbox[o]), {m})
        BY <2>1, <2>4, BeforeSub
      <4>2. InOrder(rows, inbox'[o]) BY <1>t, <2>1, <2>2, <3>1, <3>3, <4>1, InOrderAppend
      <4>3. Before(rows, {m}, Range(queue[o])) BY <2>1, <2>4, BeforeSub
      <4>4. Before(rows, Range(inbox[o]) \cup {m}, Range(queue[o]))
        BY <3>1, <3>3, <4>3, BeforeUnion
      <4> QED BY <1>1, <2>3, <3>1, <3>3, <4>2, <4>4 DEF UserLine
    <3> QED BY <3>2, <3>3
  <2>7. ASSUME NEW x \in Conns PROVE ConnLine(x)'
    <3>1. /\ CarriedInOrder(rows, chan[x]) /\ InOrder(rows, drained[x])
          /\ Before(rows, Carried(chan[x]), Range(drained[x]))
          /\ owner[x] \in Users =>
               /\ Before(rows, Carried(chan[x]) \cup Range(drained[x]), Range(queue[owner[x]]))
               /\ sock[x] => Before(rows, Range(inbox[owner[x]]),
                                          Carried(chan[x]) \cup Range(drained[x]))
      BY DEF Lines, ConnLine
    <3>2. CarriedInOrder(rows, chan'[x]) BY <1>3, <3>1 DEF KeepsOrder
    <3>3. CASE x # c
      <4>1. chan'[x] = chan[x] BY <1>2, <3>3
      <4>2. ASSUME owner[x] \in Users, sock[x] PROVE inbox'[owner[x]] = inbox[owner[x]]
        <5>1. owner[x] # o BY <1>1, <2>1, <3>3, <4>2 DEF OneOpenSocket
        <5> QED BY <2>2, <4>2, <5>1
      <4> QED BY <1>1, <3>1, <4>1, <4>2 DEF ConnLine
    <3>4. CASE x = c
      <4>1. Before(rows, Carried(chan'[c]), Range(drained[c])) BY <2>1, <2>4, BeforeSub
      <4>2. Before(rows, Carried(chan'[c]) \cup Range(drained[c]), Range(queue[o]))
        BY <2>1, <2>4, BeforeSub
      <4>3. Before(rows, Range(inbox[o]), Carried(chan'[c]) \cup Range(drained[c]))
        BY <2>1, <2>4, BeforeSub
      <4>4. Before(rows, {m}, Range(drained[c])) BY <2>1, <2>4, BeforeSub
      <4>5. Before(rows, {m}, Carried(chan'[c]) \cup Range(drained[c]))
        BY <2>5, <4>4, BeforeUnion
      <4>6. Before(rows, Range(inbox'[o]), Carried(chan'[c]) \cup Range(drained[c]))
        <5>1. Before(rows, Range(inbox[o]) \cup {m}, Carried(chan'[c]) \cup Range(drained[c]))
          BY <4>3, <4>5, BeforeUnion
        <5> QED BY <2>3, <5>1
      <4> QED BY <1>1, <2>1, <3>1, <3>2, <3>4, <4>1, <4>2, <4>6 DEF ConnLine
    <3> QED BY <3>3, <3>4
  <2> QED BY <2>6, <2>7 DEF Lines
<1> QED BY <1>4, <1>5

(***************************************************************************)
(* Every step keeps queued messages in the order of their rows.            *)
(***************************************************************************)
LEMMA OrderStep ==
    ASSUME RelayTypeOK, RegistryInv, LinkInv, PlaceInv, OrderInv, [RelayNext]_vars
    PROVE  OrderInv'
<1>o. OneOpenSocket /\ RowsPast /\ Lines BY DEF OrderInv
<1>n. [Next]_sessionVars BY RelayStepsAreSessionSteps
<1>p. OneOpenSocket' BY <1>n, <1>o, OneOpenSocketStep DEF RelayTypeOK
<1>r. RowsPast' BY <1>o, RowsPastStep
<1>a. ASSUME rows' = rows, queue' = queue, inbox' = inbox, drained' = drained, SameCarried,
             KeepsOrder
      PROVE  Lines'
  <2>1. \A x \in Conns : Carried(chan'[x]) \subseteq Carried(chan[x]) BY <1>a DEF SameCarried
  <2> QED BY <1>a, <1>n, <1>o, <2>1, LinesShrink
<1>b. ASSUME rows' = rows, queue' = queue, inbox' = inbox, drained' = drained, chan' = chan
      PROVE  Lines'
  <2>1. SameCarried /\ KeepsOrder BY <1>b DEF SameCarried, KeepsOrder
  <2> QED BY <1>a, <1>b, <2>1
<1>1. ASSUME UNCHANGED relayVars
      PROVE  Lines'
  BY <1>1, <1>b DEF relayVars
<1>2. ASSUME NEW c \in Conns, TaskEnds(c)
      PROVE  Lines'
  <2>1. rows' = rows /\ queue' = queue /\ inbox' = inbox BY <1>2 DEF TaskEnds
  <2>2. /\ drained' = drained /\ chan'[c] = <<>> /\ Carried(chan'[c]) = {}
        /\ \A x \in Conns : x # c => chan'[x] = chan[x]
    BY <1>2, TaskEndsEffect
  <2>3. KeepsOrder BY <2>2, InOrderNone DEF KeepsOrder
  <2>4. \A x \in Conns : Carried(chan'[x]) \subseteq Carried(chan[x]) BY <2>2
  <2> QED BY <1>n, <1>o, <2>1, <2>2, <2>3, <2>4, LinesShrink
<1>3. ASSUME NEW c \in Conns, RelayRegister(c) \/ Lookup(c)
      PROVE  Lines'
  BY <1>3, <1>b DEF RelayRegister, Lookup
<1>4. ASSUME NEW c \in Conns, Drain(c)
      PROVE  Lines'
  <2>1. CASE queue' = queue /\ drained' = drained BY <1>4, <1>b, <2>1 DEF Drain
  <2>2. CASE /\ queue' = [queue EXCEPT ![owner[c]] = <<>>]
             /\ drained' = [drained EXCEPT ![c] = queue[owner[c]]]
    BY <1>4, <1>o, <2>2, LinesDrain
  <2> QED BY <1>4, <2>1, <2>2 DEF Drain, RowsFor
<1>5. ASSUME NEW c \in Conns, Replay(c)
      PROVE  Lines'
  BY <1>5, <1>o, LinesReplay
<1>6. ASSUME NEW c \in Conns, RefuseMessage(c)
      PROVE  Lines'
  <2>1. rows' = rows /\ queue' = queue /\ inbox' = inbox /\ drained' = drained
    BY <1>6 DEF RefuseMessage
  <2>2. SameCarried BY <1>6, RefuseEffect
  <2>3. KeepsOrder BY <1>6, RefuseOrder
  <2> QED BY <1>a, <2>1, <2>2, <2>3
<1>7. ASSUME NEW c \in Conns, Push(c)
      PROVE  Lines'
  BY <1>7, <1>o, LinesPush
<1>8. ASSUME NEW c \in Conns, Queue(c)
      PROVE  Lines'
  <2>1. /\ job[c].stage = "queue" /\ UNCHANGED <<sessionVars, chan, inbox, drained>>
        /\ \/ queue' = queue /\ rows' = rows
           \/ /\ queue' = [queue EXCEPT ![To[job[c].msg]] = Append(@, job[c].msg)]
              /\ rows' = Append(rows, job[c].msg)
    BY <1>8 DEF Queue
  <2>2. CASE queue' = queue /\ rows' = rows BY <1>b, <2>1, <2>2
  <2>3. CASE /\ queue' = [queue EXCEPT ![To[job[c].msg]] = Append(@, job[c].msg)]
             /\ rows' = Append(rows, job[c].msg)
    BY <1>o, <2>1, <2>3, LinesQueue
  <2> QED BY <2>1, <2>2, <2>3
<1>9. ASSUME NEW c \in Conns, Echo(c)
      PROVE  Lines'
  <2>1. rows' = rows /\ queue' = queue /\ inbox' = inbox /\ drained' = drained
    BY <1>9 DEF Echo
  <2>2. SameCarried BY <1>9, EchoEffect
  <2>3. KeepsOrder BY <1>9, EchoOrder
  <2> QED BY <1>a, <2>1, <2>2, <2>3
<1>10. ASSUME NEW c \in Conns, Forward(c)
       PROVE  Lines'
  BY <1>10, <1>o, LinesForward
<1>11. ASSUME NEW c \in Conns, ForwardToDeadSocket(c)
       PROVE  Lines'
  <2>1. /\ rows' = rows /\ queue' = queue /\ inbox' = inbox /\ drained' = drained
        /\ chan[c] # <<>>
        /\ \/ chan' = [chan EXCEPT ![c] = Tail(@)]
           \/ chan' = [chan EXCEPT ![c] = <<>>]
    BY <1>11 DEF ForwardToDeadSocket
  <2>2. /\ Carried(chan'[c]) \subseteq Carried(chan[c])
        /\ \A x \in Conns : x # c => chan'[x] = chan[x]
    BY <1>11, DeadSocketEffect
  <2>3. KeepsOrder BY <2>1, DrainedChannelOrder
  <2>4. \A x \in Conns : Carried(chan'[x]) \subseteq Carried(chan[x]) BY <2>2
  <2> QED BY <1>n, <1>o, <2>1, <2>3, <2>4, LinesShrink
<1>12. ASSUME NEW c \in Conns, NEW m \in Msgs, Compose(c, m)
       PROVE  Lines'
  BY <1>12, <1>b DEF Compose
<1>13. ASSUME NEW m \in Msgs, ComposeOffline(m)
       PROVE  Lines'
  BY <1>13, <1>b DEF ComposeOffline
<1>14. ASSUME RelayCrash
       PROVE  Lines'
  <2>1. rows' = rows /\ queue' = queue /\ inbox' = inbox BY <1>14 DEF RelayCrash
  <2>2. \A x \in Conns : drained'[x] = <<>> /\ chan'[x] = <<>> /\ Carried(chan'[x]) = {}
    BY <1>14, CrashEffect
  <2>3. KeepsOrder BY <2>2, InOrderNone DEF KeepsOrder
  <2> QED BY <1>n, <1>o, <2>1, <2>2, <2>3, LinesShrink
<1>15. ASSUME NEW c \in Conns, TaskStep(c)
       PROVE  Lines'
  BY <1>1, <1>2, <1>3, <1>4, <1>5, <1>6, <1>7, <1>8, <1>9, <1>15
     DEF TaskStep, Handling, ProfileCommand, Elsewhere, RelayReject, RelayEnterLoop, RelayHangUp, RelayUnregister,
         RelayAnnounceOffline
<1>16. Lines'
  BY <1>1, <1>10, <1>11, <1>12, <1>13, <1>14, <1>15
     DEF RelayNext, vars, RelayOpen, RelayDisconnect, ForwardStep
<1> QED BY <1>p, <1>r, <1>16 DEF OrderInv

-----------------------------------------------------------------------------
(* The theorems.                                                           *)

RelayInv ==
    RelayTypeOK /\ RegistryInv /\ LinkInv /\ PromisesKept /\ PlaceInv /\ OrderInv

LEMMA RelayInvInit == RelayInit => RelayInv
<1> SUFFICES ASSUME RelayInit PROVE RelayInv
  OBVIOUS
<1>1. TypeOK /\ RegistryInv BY InitInv DEF RelayInit, RegistryInv
<1>2. RelayTypeOK
  <2>1. Idle \in Job BY DEF Idle, At, Job
  <2> QED BY <1>1, <2>1 DEF RelayInit, RelayTypeOK
<1>3. /\ \A c \in Conns : /\ wire[c] = <<>> /\ job[c] = Idle /\ chan[c] = <<>>
                          /\ drained[c] = <<>> /\ ~ rx[c] /\ pc[c] = "idle" /\ ~ sock[c]
      /\ \A u \in Users : queue[u] = <<>> /\ inbox[u] = <<>>
      /\ \A m \in Msgs : bubble[m] = "none"
      /\ rows = <<>>
  BY DEF RelayInit, Init
<1>4. /\ Range(<<>>) = {} /\ Carried(<<>>) = {} /\ Promised(<<>>) = {} /\ Mentioned(<<>>) = {}
      /\ Once(<<>>) /\ CarriedOnce(<<>>)
  BY EmptyFacts, PromiseNone
<1>5. Idle.stage = "idle" BY DEF Idle, At
<1>6. LinkInv
  BY <1>3, <1>4, <1>5 DEF LinkInv, ChannelsLinked, Settling, LocalsInPhase, LocalsOf, Addressed
<1>7. PromisesKept BY <1>3, <1>4, <1>5 DEF PromisesKept
<1>8. PlaceInv
  <2>1. \A c \in Conns : Waiting(c) = {} BY <1>3, <1>5 DEF Waiting
  <2>u. \A u \in Users : Held[<<"queue", u>>] = {} /\ Held[<<"inbox", u>>] = {}
    <3>1. \A u \in Users : Range(queue[u]) = {} /\ Range(inbox[u]) = {} BY <1>3, <1>4
    <3> TAKE u \in Users
    <3>2. Held[<<"queue", u>>] = Range(queue[u]) /\ Held[<<"inbox", u>>] = Range(inbox[u])
      BY HeldAt
    <3> QED BY <3>1, <3>2
  <2>c. \A c \in Conns : /\ Held[<<"wire", c>>] = {} /\ Held[<<"job", c>>] = {}
                         /\ Held[<<"drained", c>>] = {} /\ Held[<<"chan", c>>] = {}
    <3>1. \A c \in Conns : Range(wire[c]) = {} /\ Range(drained[c]) = {} /\ Carried(chan[c]) = {}
      BY <1>3, <1>4
    <3> TAKE c \in Conns
    <3>2. /\ Held[<<"wire", c>>] = Range(wire[c]) /\ Held[<<"job", c>>] = Waiting(c)
          /\ Held[<<"drained", c>>] = Range(drained[c]) /\ Held[<<"chan", c>>] = Carried(chan[c])
      BY HeldAt
    <3> QED BY <2>1, <3>1, <3>2
  <2>2. \A p \in Places : Held[p] = {} BY <2>u, <2>c, PlaceCases
  <2>3. OneHolder /\ Accounted BY <1>3, <2>2 DEF OneHolder, Accounted
  <2>4. ComposedOnly BY <1>3, <1>4, <1>5 DEF ComposedOnly
  <2>5. NoRepeats BY <1>3, <1>4 DEF NoRepeats
  <2> QED BY <2>3, <2>4, <2>5 DEF PlaceInv
<1>9. OrderInv
  <2>1. OneOpenSocket BY <1>3 DEF OneOpenSocket
  <2>2. RowsPast BY <1>3, <1>4 DEF RowsPast
  <2>3. \A A, B : Before(rows, A, B) BY <1>3 DEF Before
  <2>4. Lines BY <1>3, <2>3, InOrderNone DEF Lines, UserLine, ConnLine
  <2> QED BY <2>1, <2>2, <2>4 DEF OrderInv
<1> QED BY <1>1, <1>2, <1>6, <1>7, <1>8, <1>9 DEF RelayInv

(***************************************************************************)
(* The invariant holds initially and after every step.                     *)
(***************************************************************************)
LEMMA RelayInvStep == RelayInv /\ [RelayNext]_vars => RelayInv'
<1> SUFFICES ASSUME RelayInv, [RelayNext]_vars PROVE RelayInv'
  OBVIOUS
<1>0. RelayTypeOK /\ RegistryInv /\ LinkInv /\ PromisesKept /\ PlaceInv /\ OrderInv
  BY DEF RelayInv
<1>1. RelayTypeOK' BY <1>0, RelayTypeStep
<1>2. RegistryInv' BY <1>0, RelayStepsAreSessionSteps, RegistryStep
<1>3. LinkInv' BY <1>0, ChannelStep, LocalsStep, AddressStep DEF LinkInv
<1>4. PromisesKept' BY <1>0, PromiseStep
<1>5. PlaceInv' BY <1>0, PlaceStep
<1>6. OrderInv' BY <1>0, OrderStep
<1> QED BY <1>1, <1>2, <1>3, <1>4, <1>5, <1>6 DEF RelayInv

LEMMA RelayInvariant == RelaySpec => []RelayInv
BY RelayInvInit, RelayInvStep, PTL DEF RelaySpec

(***************************************************************************)
(* The relay's variables keep their types: in particular a job, a queue or *)
(* a channel never holds anything but messages and events of messages.     *)
(***************************************************************************)
THEOREM RelayTypeCorrect == RelaySpec => []RelayTypeOK
<1>1. RelayInv => RelayTypeOK BY DEF RelayInv
<1> QED BY <1>1, RelayInvariant, PTL

(***************************************************************************)
(* The delivered tick comes after the hand-over, for any number of users,  *)
(* connections and messages: the echo's flag of handle_command and the     *)
(* receipt of the replay loop say nothing that is not so.                  *)
(***************************************************************************)
THEOREM TickNeverEarly == RelaySpec => []TickAfterHandover
<1>1. RelayInv => TickAfterHandover
  BY DEF RelayInv, PromisesKept, HandedOver, TickAfterHandover
<1> QED BY <1>1, RelayInvariant, PTL

(***************************************************************************)
(* No composed message falls through the cracks between the socket, the    *)
(* command, the channel, the queue and the replay loop.                    *)
(***************************************************************************)
THEOREM NothingUnaccounted == RelaySpec => []EveryMessageAccountedFor
<1>1. RelayInv => EveryMessageAccountedFor
  <2> SUFFICES ASSUME RelayInv, NEW m \in Msgs, bubble[m] # "none", m \notin lost \cup dropped
               PROVE  InTransit(m) \/ m \in Range(inbox[To[m]])
    BY DEF EveryMessageAccountedFor
  <2>1. PICK p \in Places : m \in Held[p] BY DEF RelayInv, PlaceInv, Accounted
  <2>2. Addressed BY DEF RelayInv, LinkInv
  <2>3. ASSUME NEW u \in Users, p = <<"queue", u>>
        PROVE  InTransit(m)
    <3>1. m \in Range(queue[u]) BY <2>1, <2>3, HeldAt
    <3>2. To[m] = u BY <2>2, <3>1 DEF Addressed
    <3> QED BY <3>1, <3>2 DEF InTransit
  <2>4. ASSUME NEW u \in Users, p = <<"inbox", u>>
        PROVE  m \in Range(inbox[To[m]])
    <3>1. m \in Range(inbox[u]) BY <2>1, <2>4, HeldAt
    <3>2. To[m] = u BY <2>2, <3>1 DEF Addressed
    <3> QED BY <3>1, <3>2
  <2>5. ASSUME NEW c \in Conns, \/ p = <<"wire", c>> \/ p = <<"job", c>>
                                \/ p = <<"drained", c>> \/ p = <<"chan", c>>
        PROVE  InTransit(m)
    <3>1. \/ Held[p] = Range(wire[c]) \/ Held[p] = Waiting(c)
          \/ Held[p] = Range(drained[c]) \/ Held[p] = Carried(chan[c])
      BY <2>5, HeldAt
    <3> QED BY <2>1, <3>1 DEF InTransit
  <2> QED BY <2>3, <2>4, <2>5, PlaceCases
<1> QED BY <1>1, RelayInvariant, PTL

(***************************************************************************)
(* A copy of a message is an index of a place that holds it.               *)
(***************************************************************************)
LEMMA CopyFacts ==
    ASSUME NEW m \in Msgs, NEW x \in Copies(m)
    PROVE  \/ \E u \in Users : \E i \in DOMAIN queue[u] :
                x = <<"queue", u, i>> /\ queue[u][i] = m
           \/ \E u \in Users : \E i \in DOMAIN inbox[u] :
                x = <<"inbox", u, i>> /\ inbox[u][i] = m
           \/ \E c \in Conns : \E i \in DOMAIN wire[c] :
                x = <<"wire", c, i>> /\ wire[c][i] = m
           \/ \E c \in Conns : \E i \in DOMAIN drained[c] :
                x = <<"drained", c, i>> /\ drained[c][i] = m
           \/ \E c \in Conns : \E i \in DOMAIN chan[c] :
                x = <<"chan", c, i>> /\ chan[c][i].kind = "message" /\ chan[c][i].msg = m
           \/ \E c \in Conns : x = <<"job", c, 1>> /\ m \in Waiting(c)
<1> DEFINE Hits(seq) == {i \in DOMAIN seq : seq[i] = m}
           Events(c) == {i \in DOMAIN chan[c] : chan[c][i].kind = "message" /\ chan[c][i].msg = m}
           OfUser(u) == {<<"queue", u, i>> : i \in Hits(queue[u])}
                          \cup {<<"inbox", u, i>> : i \in Hits(inbox[u])}
           OfConn(c) == {<<"wire", c, i>> : i \in Hits(wire[c])}
                          \cup {<<"chan", c, i>> : i \in Events(c)}
                          \cup {<<"drained", c, i>> : i \in Hits(drained[c])}
                          \cup {<<"job", c, i>> : i \in {j \in {1} : m \in Waiting(c)}}
<1>1. Copies(m) = (UNION {OfUser(u) : u \in Users}) \cup (UNION {OfConn(c) : c \in Conns})
  BY DEF Copies
<1>2. \/ \E u \in Users : x \in OfUser(u)
      \/ \E c \in Conns : x \in OfConn(c)
  <2> DEFINE U == {OfUser(u) : u \in Users}
             V == {OfConn(c) : c \in Conns}
  <2>1. x \in (UNION U) \cup (UNION V) BY <1>1
  <2>2. (\A S \in U : \E u \in Users : S = OfUser(u)) /\ (\A S \in V : \E c \in Conns : S = OfConn(c))
    BY Zenon
  <2> HIDE DEF U, V
  <2>3. (\E S \in U : x \in S) \/ (\E S \in V : x \in S) BY <2>1
  <2>4. ASSUME NEW S \in U, x \in S PROVE \E u \in Users : x \in OfUser(u)
    <3>1. PICK u \in Users : S = OfUser(u) BY <2>2
    <3> QED BY <2>4, <3>1, Zenon
  <2>5. ASSUME NEW S \in V, x \in S PROVE \E c \in Conns : x \in OfConn(c)
    <3>1. PICK c \in Conns : S = OfConn(c) BY <2>2
    <3> QED BY <2>5, <3>1, Zenon
  <2> HIDE DEF OfUser, OfConn
  <2> QED BY <2>3, <2>4, <2>5
<1> HIDE DEF OfUser, OfConn
<1>3. ASSUME NEW u \in Users, x \in OfUser(u)
      PROVE  \/ \E i \in DOMAIN queue[u] : x = <<"queue", u, i>> /\ queue[u][i] = m
             \/ \E i \in DOMAIN inbox[u] : x = <<"inbox", u, i>> /\ inbox[u][i] = m
  BY <1>3 DEF OfUser
<1>4. ASSUME NEW c \in Conns, x \in OfConn(c)
      PROVE  \/ \E i \in DOMAIN wire[c] : x = <<"wire", c, i>> /\ wire[c][i] = m
             \/ \E i \in DOMAIN drained[c] : x = <<"drained", c, i>> /\ drained[c][i] = m
             \/ \E i \in DOMAIN chan[c] :
                  x = <<"chan", c, i>> /\ chan[c][i].kind = "message" /\ chan[c][i].msg = m
             \/ x = <<"job", c, 1>> /\ m \in Waiting(c)
  BY <1>4 DEF OfConn
<1> QED BY <1>2, <1>3, <1>4

LEMMA CopyPlace ==
    ASSUME NEW m \in Msgs, NEW x \in Copies(m)
    PROVE  \E p \in Places : p = <<x[1], x[2]>> /\ m \in Held[p]
<1> DEFINE Goal == \E p \in Places : p = <<x[1], x[2]>> /\ m \in Held[p]
<1>1. ASSUME NEW u \in Users, NEW i \in DOMAIN queue[u], x = <<"queue", u, i>>, queue[u][i] = m
      PROVE  Goal
  <2>1. m \in Range(queue[u]) BY <1>1 DEF Range
  <2>2. m \in Held[<<"queue", u>>] /\ <<"queue", u>> \in Places BY <2>1, HeldAt, PlaceCases
  <2> QED BY <1>1, <2>2
<1>2. ASSUME NEW u \in Users, NEW i \in DOMAIN inbox[u], x = <<"inbox", u, i>>, inbox[u][i] = m
      PROVE  Goal
  <2>1. m \in Range(inbox[u]) BY <1>2 DEF Range
  <2>2. m \in Held[<<"inbox", u>>] /\ <<"inbox", u>> \in Places BY <2>1, HeldAt, PlaceCases
  <2> QED BY <1>2, <2>2
<1>3. ASSUME NEW c \in Conns, NEW i \in DOMAIN wire[c], x = <<"wire", c, i>>, wire[c][i] = m
      PROVE  Goal
  <2>1. m \in Range(wire[c]) BY <1>3 DEF Range
  <2>2. m \in Held[<<"wire", c>>] /\ <<"wire", c>> \in Places BY <2>1, HeldAt, PlaceCases
  <2> QED BY <1>3, <2>2
<1>4. ASSUME NEW c \in Conns, NEW i \in DOMAIN drained[c], x = <<"drained", c, i>>,
             drained[c][i] = m
      PROVE  Goal
  <2>1. m \in Range(drained[c]) BY <1>4 DEF Range
  <2>2. m \in Held[<<"drained", c>>] /\ <<"drained", c>> \in Places BY <2>1, HeldAt, PlaceCases
  <2> QED BY <1>4, <2>2
<1>5. ASSUME NEW c \in Conns, NEW i \in DOMAIN chan[c], x = <<"chan", c, i>>,
             chan[c][i].kind = "message", chan[c][i].msg = m
      PROVE  Goal
  <2>1. m \in Carried(chan[c]) BY <1>5 DEF Carried
  <2>2. m \in Held[<<"chan", c>>] /\ <<"chan", c>> \in Places BY <2>1, HeldAt, PlaceCases
  <2> QED BY <1>5, <2>2
<1>6. ASSUME NEW c \in Conns, x = <<"job", c, 1>>, m \in Waiting(c)
      PROVE  Goal
  <2>1. m \in Held[<<"job", c>>] /\ <<"job", c>> \in Places BY <1>6, HeldAt, PlaceCases
  <2> QED BY <1>6, <2>1
<1> QED BY <1>1, <1>2, <1>3, <1>4, <1>5, <1>6, CopyFacts

LEMMA OneCopy ==
    ASSUME OneHolder, NoRepeats, NEW m \in Msgs, NEW x \in Copies(m), NEW y \in Copies(m)
    PROVE  x = y
<1>1. x[1] = y[1] /\ x[2] = y[2]
  <2>1. PICK p \in Places : p = <<x[1], x[2]>> /\ m \in Held[p] BY CopyPlace
  <2>2. PICK q \in Places : q = <<y[1], y[2]>> /\ m \in Held[q] BY CopyPlace
  <2>3. p = q BY <2>1, <2>2 DEF OneHolder
  <2> QED BY <2>1, <2>2, <2>3
<1>2. \A u \in Users : Once(queue[u]) /\ Once(inbox[u]) BY DEF NoRepeats
<1>3. \A c \in Conns : Once(wire[c]) /\ Once(drained[c]) /\ CarriedOnce(chan[c])
  BY DEF NoRepeats
<1>4. ASSUME NEW z \in Copies(m)
      PROVE  /\ z = <<z[1], z[2], z[3]>>
             /\ z[1] \in {"queue", "inbox", "wire", "drained", "chan", "job"}
             /\ z[1] = "queue" => z[2] \in Users /\ z[3] \in DOMAIN queue[z[2]]
                                    /\ queue[z[2]][z[3]] = m
             /\ z[1] = "inbox" => z[2] \in Users /\ z[3] \in DOMAIN inbox[z[2]]
                                    /\ inbox[z[2]][z[3]] = m
             /\ z[1] = "wire" => z[2] \in Conns /\ z[3] \in DOMAIN wire[z[2]]
                                    /\ wire[z[2]][z[3]] = m
             /\ z[1] = "drained" => z[2] \in Conns /\ z[3] \in DOMAIN drained[z[2]]
                                    /\ drained[z[2]][z[3]] = m
             /\ z[1] = "chan" => /\ z[2] \in Conns /\ z[3] \in DOMAIN chan[z[2]]
                                 /\ chan[z[2]][z[3]].kind = "message"
                                 /\ chan[z[2]][z[3]].msg = m
             /\ z[1] = "job" => z[3] = 1
  <2>1. ASSUME NEW u, NEW i, z = <<"queue", u, i>> PROVE z[1] = "queue" /\ z[2] = u /\ z[3] = i
    BY <2>1
  <2>2. ASSUME NEW u, NEW i, z = <<"inbox", u, i>> PROVE z[1] = "inbox" /\ z[2] = u /\ z[3] = i
    BY <2>2
  <2>3. ASSUME NEW c, NEW i, z = <<"wire", c, i>> PROVE z[1] = "wire" /\ z[2] = c /\ z[3] = i
    BY <2>3
  <2>4. ASSUME NEW c, NEW i, z = <<"drained", c, i>>
        PROVE  z[1] = "drained" /\ z[2] = c /\ z[3] = i
    BY <2>4
  <2>5. ASSUME NEW c, NEW i, z = <<"chan", c, i>> PROVE z[1] = "chan" /\ z[2] = c /\ z[3] = i
    BY <2>5
  <2>6. ASSUME NEW c, NEW i, z = <<"job", c, i>> PROVE z[1] = "job" /\ z[2] = c /\ z[3] = i
    BY <2>6
  <2> QED BY <2>1, <2>2, <2>3, <2>4, <2>5, <2>6, CopyFacts
<1>5. x[3] = y[3]
  <2>1. CASE x[1] = "queue"
    <3>1. /\ x[2] \in Users /\ x[3] \in DOMAIN queue[x[2]] /\ queue[x[2]][x[3]] = m BY <1>4, <2>1
    <3>2. y[3] \in DOMAIN queue[x[2]] /\ queue[x[2]][y[3]] = m BY <1>1, <1>4, <2>1
    <3> QED BY <1>2, <3>1, <3>2 DEF Once
  <2>2. CASE x[1] = "inbox"
    <3>1. /\ x[2] \in Users /\ x[3] \in DOMAIN inbox[x[2]] /\ inbox[x[2]][x[3]] = m BY <1>4, <2>2
    <3>2. y[3] \in DOMAIN inbox[x[2]] /\ inbox[x[2]][y[3]] = m BY <1>1, <1>4, <2>2
    <3> QED BY <1>2, <3>1, <3>2 DEF Once
  <2>3. CASE x[1] = "wire"
    <3>1. /\ x[2] \in Conns /\ x[3] \in DOMAIN wire[x[2]] /\ wire[x[2]][x[3]] = m BY <1>4, <2>3
    <3>2. y[3] \in DOMAIN wire[x[2]] /\ wire[x[2]][y[3]] = m BY <1>1, <1>4, <2>3
    <3> QED BY <1>3, <3>1, <3>2 DEF Once
  <2>4. CASE x[1] = "drained"
    <3>1. /\ x[2] \in Conns /\ x[3] \in DOMAIN drained[x[2]] /\ drained[x[2]][x[3]] = m BY <1>4, <2>4
    <3>2. y[3] \in DOMAIN drained[x[2]] /\ drained[x[2]][y[3]] = m BY <1>1, <1>4, <2>4
    <3> QED BY <1>3, <3>1, <3>2 DEF Once
  <2>5. CASE x[1] = "chan"
    <3>1. /\ x[2] \in Conns /\ x[3] \in DOMAIN chan[x[2]]
          /\ chan[x[2]][x[3]].kind = "message" /\ chan[x[2]][x[3]].msg = m
      BY <1>4, <2>5
    <3>2. /\ y[3] \in DOMAIN chan[x[2]]
          /\ chan[x[2]][y[3]].kind = "message" /\ chan[x[2]][y[3]].msg = m
      BY <1>1, <1>4, <2>5
    <3> QED BY <1>3, <3>1, <3>2 DEF CarriedOnce
  <2>6. CASE x[1] = "job" BY <1>1, <1>4, <2>6
  <2> QED BY <1>4, <2>1, <2>2, <2>3, <2>4, <2>5, <2>6
<1> QED BY <1>1, <1>4, <1>5

(***************************************************************************)
(* A message is in one place at most, over any number of reconnects,       *)
(* races of the live push with the queue, and crashes: the addressee never *)
(* gets it twice.                                                          *)
(***************************************************************************)
THEOREM NoSecondCopy == RelaySpec => []AtMostOneCopy
<1>1. RelayInv => AtMostOneCopy
  <2> SUFFICES ASSUME RelayInv, NEW m \in Msgs PROVE Cardinality(Copies(m)) <= 1
    BY DEF AtMostOneCopy
  <2>1. \A x, y \in Copies(m) : x = y BY OneCopy DEF RelayInv, PlaceInv
  <2>2. CASE Copies(m) = {} BY <2>2, FS_EmptySet
  <2>3. ASSUME NEW x \in Copies(m) PROVE Cardinality(Copies(m)) <= 1
    <3>1. Copies(m) = {x} BY <2>1, <2>3
    <3>2. Cardinality({x}) = 1 BY FS_Singleton
    <3> QED BY <3>1, <3>2
  <2> QED BY <2>2, <2>3
<1> QED BY <1>1, RelayInvariant, PTL

(***************************************************************************)
(* Queued messages arrive in the order of their rows, over any number of   *)
(* reconnects of the addressee and whatever is delivered live in between.  *)
(***************************************************************************)
THEOREM ReplayKeepsOrder == RelaySpec => []ReplayInOrder
<1>1. RelayInv => ReplayInOrder
  BY DEF RelayInv, OrderInv, Lines, UserLine, InOrder, Before, ReplayInOrder
<1> QED BY <1>1, RelayInvariant, PTL
=============================================================================
