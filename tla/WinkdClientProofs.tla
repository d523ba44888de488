-------------------------- MODULE WinkdClientProofs --------------------------
(***************************************************************************)
(* Proofs about WinkdClient, for any number of sockets, timers and lost    *)
(* connections.                                                            *)
(***************************************************************************)
EXTENDS WinkdClient, TLAPS

(***************************************************************************)
(* As long as no call of connect overtook an older socket or timer, there  *)
(* is one socket, it is the client's if it is in use, and a timer runs     *)
(* only when that socket has gone.                                         *)
(***************************************************************************)
OneSocket == \A s, t \in Socks : phase[s] # "free" /\ phase[t] # "free" => s = t
InUse == \A s \in Socks : phase[s] \in {"connecting", "open"} => ws = s
FreshLinks == \A s \in Socks : phase[s] \in {"free", "connecting"} => link[s] = "none"
Heard == \A s \in Socks : phase[s] = "open" /\ link[s] = "ready" => authenticated
OneTimer == loose = 0 /\ (timer => AllClosed)

Orderly == OneSocket /\ InUse /\ Heard /\ OneTimer
ClientInv ==
    /\ TypeOK /\ FreshLinks
    /\ ~ hasty => Orderly
    /\ NoRetryAfterRefusal /\ DisconnectSticks

-----------------------------------------------------------------------------
(***************************************************************************)
(* The fields, sockets and timers keep their types; the delay stays one of *)
(* the six values of the back-off.                                         *)
(***************************************************************************)
LEMMA TypeStep == TypeOK /\ [Next]_vars => TypeOK'
<1> SUFFICES ASSUME TypeOK, [Next]_vars PROVE TypeOK'
  OBVIOUS
<1> USE WinkdClientAssumption DEF TypeOK, Phases, Links, fields, history
<1>1. ASSUME NEW s \in Socks, connect(s) PROVE TypeOK'
  <2>1. hasty' \in BOOLEAN BY <1>1 DEF connect
  <2> QED BY <1>1, <2>1 DEF connect, NewSocket, IsOpen
<1>2. ASSUME NEW s \in Socks, Step(s) PROVE TypeOK'
  <2>1. CASE onopen(s) BY <2>1 DEF onopen
  <2>2. CASE Accept(s) BY <2>2 DEF Accept
  <2>3. CASE Reject(s) BY <2>3 DEF Reject
  <2>4. CASE AuthTimeout(s) BY <2>4 DEF AuthTimeout
  <2>5. CASE onmessage(s) BY <2>5 DEF onmessage
  <2>6. CASE onclose(s)
    <3>1. timer' \in BOOLEAN /\ refused' \in BOOLEAN
      BY <2>6 DEF onclose, scheduleReconnect
    <3>2. loose' \in 0..MaxLoose
      <4>1. loose' = loose \/ (loose' = loose + 1 /\ loose' <= MaxLoose)
        BY <2>6 DEF onclose, scheduleReconnect
      <4> QED BY <4>1
    <3> QED BY <2>6, <3>1, <3>2 DEF onclose
  <2> QED BY <1>2, <2>1, <2>2, <2>3, <2>4, <2>5, <2>6 DEF Step
<1>3. ASSUME NEW s \in Socks, Lose(s) PROVE TypeOK'
  BY <1>3 DEF Lose
<1>4. ASSUME NEW s \in Socks, TimerFires(s) \/ LooseTimerFires(s) PROVE TypeOK'
  <2>1. Retry(s) BY <1>4 DEF TimerFires, LooseTimerFires
  <2>2. hasty' \in BOOLEAN BY <2>1 DEF Retry
  <2>3. delay' \in {1, 2, 4, 8, 16, 30} BY <2>1 DEF Retry
  <2>4. timer' \in BOOLEAN /\ loose' \in 0..MaxLoose
    <3>1. timer' \in BOOLEAN BY <1>4 DEF TimerFires, LooseTimerFires
    <3>2. loose' = loose \/ (loose > 0 /\ loose' = loose - 1)
      BY <1>4 DEF TimerFires, LooseTimerFires
    <3> QED BY <3>1, <3>2
  <2>5. ws' \in Socks \cup {NoSock} /\ authenticated' \in BOOLEAN /\ phase' \in [Socks -> Phases]
    BY <2>1 DEF Retry, NewSocket
  <2> QED BY <2>1, <2>2, <2>3, <2>4, <2>5 DEF Retry
<1>5. CASE disconnect
  <2>1. parting' \in BOOLEAN BY <1>5 DEF disconnect
  <2>2. phase' \in [Socks -> Phases] BY <1>5 DEF disconnect
  <2> QED BY <1>5, <2>1, <2>2 DEF disconnect
<1>6. CASE Revoke BY <1>6 DEF Revoke
<1>7. CASE UNCHANGED vars BY <1>7 DEF vars
<1> QED BY <1>1, <1>2, <1>3, <1>4, <1>5, <1>6, <1>7 DEF Next, Timers

(***************************************************************************)
(* Calls, events, timers and the server keep the client orderly until      *)
(* connect runs beside an older socket or a pending timer.                 *)
(***************************************************************************)
LEMMA ClientStep == ClientInv /\ [Next]_vars => ClientInv'
<1> SUFFICES ASSUME ClientInv, [Next]_vars
             PROVE  /\ FreshLinks' /\ (~ hasty' => Orderly')
                    /\ NoRetryAfterRefusal' /\ DisconnectSticks'
  BY TypeStep DEF ClientInv
<1> DEFINE Goal == /\ FreshLinks' /\ (~ hasty' => Orderly')
                   /\ NoRetryAfterRefusal' /\ DisconnectSticks'
<1> USE WinkdClientAssumption
    DEF ClientInv, TypeOK, FreshLinks, Orderly, OneSocket, InUse, Heard, OneTimer, AllClosed,
        NoTimer, NoRetryAfterRefusal, DisconnectSticks, fields, history
<1>1. ASSUME NEW s \in Socks, connect(s) PROVE Goal
  BY <1>1 DEF connect, NewSocket, IsOpen
<1>2. ASSUME NEW s \in Socks, Step(s) PROVE Goal
  <2>1. CASE onopen(s)
    <3>1. /\ phase[s] = "connecting" /\ phase' = [phase EXCEPT ![s] = "open"]
          /\ link' = IF ws # NoSock /\ phase'[ws] = "open" /\ link[ws] = "none"
                     THEN [link EXCEPT ![ws] = "asked"] ELSE link
          /\ UNCHANGED <<ws, authenticated, timer, loose, history>>
      BY <2>1 DEF onopen
    <3>2. \A t \in Socks : link'[t] = link[t] \/ (link'[t] = "asked" /\ phase'[t] = "open")
      BY <3>1
    <3>3. FreshLinks' BY <3>1, <3>2
    <3>4. \A t \in Socks : phase'[t] = "free" <=> phase[t] = "free" BY <3>1
    <3>5. ~ hasty => OneSocket' /\ InUse' /\ OneTimer' BY <3>1, <3>4
    <3>6. ~ hasty => Heard'
      <4> SUFFICES ASSUME ~ hasty, NEW t \in Socks, phase'[t] = "open", link'[t] = "ready"
                   PROVE  authenticated
        BY <3>1
      <4>1. link[t] = "ready" BY <3>2
      <4>2. phase[t] \notin {"free", "connecting"} BY <4>1
      <4> QED BY <3>1, <4>1, <4>2
    <3> QED BY <3>1, <3>3, <3>4, <3>5, <3>6
  <2>2. CASE Accept(s) BY <2>2 DEF Accept
  <2>3. CASE Reject(s) BY <2>3 DEF Reject
  <2>4. CASE AuthTimeout(s) BY <2>4 DEF AuthTimeout
  <2>5. CASE onmessage(s) BY <2>5 DEF onmessage
  <2>6. CASE onclose(s) BY <2>6 DEF onclose, scheduleReconnect
  <2> QED BY <1>2, <2>1, <2>2, <2>3, <2>4, <2>5, <2>6 DEF Step
<1>3. ASSUME NEW s \in Socks, Lose(s) PROVE Goal
  BY <1>3 DEF Lose
<1>4. ASSUME NEW s \in Socks, TimerFires(s) PROVE Goal
  BY <1>4 DEF TimerFires, Retry, NewSocket, IsOpen
<1>5. ASSUME NEW s \in Socks, LooseTimerFires(s) PROVE Goal
  BY <1>5 DEF LooseTimerFires, Retry, NewSocket, IsOpen
<1>6. CASE disconnect BY <1>6 DEF disconnect
<1>7. CASE Revoke BY <1>7 DEF Revoke
<1>8. CASE UNCHANGED vars BY <1>8 DEF vars
<1> QED BY <1>1, <1>2, <1>3, <1>4, <1>5, <1>6, <1>7, <1>8 DEF Next, Timers

(***************************************************************************)
(* A new client has neither socket nor timer.                              *)
(***************************************************************************)
LEMMA InitInv == Init => ClientInv
<1> SUFFICES ASSUME Init PROVE ClientInv
  OBVIOUS
<1> USE WinkdClientAssumption DEF Init
<1>1. TypeOK
  <2>1. /\ phase \in [Socks -> Phases] /\ link \in [Socks -> Links]
        /\ loose \in 0..MaxLoose /\ lost \in 0..MaxLost /\ delay \in {1, 2, 4, 8, 16, 30}
        /\ ws \in Socks \cup {NoSock}
    BY DEF Phases, Links
  <2>2. /\ authenticated \in BOOLEAN /\ timer \in BOOLEAN /\ valid \in BOOLEAN
        /\ wanted \in BOOLEAN /\ refused \in BOOLEAN /\ parting \in BOOLEAN /\ hasty \in BOOLEAN
    OBVIOUS
  <2> QED BY <2>1, <2>2 DEF TypeOK
<1>2. FreshLinks /\ Orderly
  BY DEF FreshLinks, Orderly, OneSocket, InUse, Heard, OneTimer, AllClosed
<1>3. NoRetryAfterRefusal /\ DisconnectSticks
  BY DEF NoRetryAfterRefusal, DisconnectSticks, AllClosed, NoTimer
<1> QED BY <1>1, <1>2, <1>3 DEF ClientInv

-----------------------------------------------------------------------------
(***************************************************************************)
(* Types of the client's fields; the back-off never leaves 1, 2, 4, 8, 16, *)
(* 30 seconds (client.ts 20-26, 113-118).                                  *)
(***************************************************************************)
THEOREM ClientTypes == Spec => []TypeOK
<1>1. Init => TypeOK BY InitInv DEF ClientInv
<1> QED BY <1>1, TypeStep, PTL DEF Spec

(***************************************************************************)
(* A connection that the server accepted is heard and can be written to,   *)
(* unless connect was called beside an older socket or timer (client.ts    *)
(* 33-72).                                                                 *)
(***************************************************************************)
THEOREM ClientNeverDeaf == Spec => []NeverDeaf
<1>1. ClientInv => NeverDeaf
  BY WinkdClientAssumption DEF ClientInv, TypeOK, NeverDeaf, Deaf, IsOpen, Orderly, Heard
<1> QED BY <1>1, InitInv, ClientStep, PTL DEF Spec

(***************************************************************************)
(* After a refusal, and after a disconnect when every socket had closed,   *)
(* the client leaves the server alone until it is told to connect          *)
(* (client.ts 63-84).                                                      *)
(***************************************************************************)
THEOREM ClientStaysAway == Spec => []StaysAway
<1>1. ClientInv => StaysAway BY DEF ClientInv, StaysAway
<1> QED BY <1>1, InitInv, ClientStep, PTL DEF Spec
=============================================================================
