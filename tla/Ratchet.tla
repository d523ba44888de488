------------------------------ MODULE Ratchet -------------------------------
(***************************************************************************)
(* End-to-end sessions: SignalSessionManager of                            *)
(* packages/core/src/encryption/session.ts (X3DH set-up and the Double     *)
(* Ratchet) over the key store of keystore.ts, with the cryptography of    *)
(* crypto.ts taken symbolically.                                           *)
(*                                                                         *)
(* A key pair is a number and dh(a, b) the set {a, b}, which both ends can *)
(* compute.  A root or chain key is the path of inputs it was derived      *)
(* from, and a message key is a chain key's path with the number of times  *)
(* the chain was advanced: a message decrypts exactly under an equal key.  *)
(***************************************************************************)
EXTENDS Naturals, Sequences, FiniteSets

CONSTANTS
    MaxSkip,     \* MAX_SKIP: keys one call may skip (500 in the code)
    MaxSent,     \* bound: messages each party encrypts
    MaxOverlaps  \* bound: calls begun while another of the same manager is in flight

ASSUME RatchetAssumption ==
    MaxSkip \in Nat /\ MaxSent \in Nat /\ MaxOverlaps \in Nat

Alice == "alice"
Bob == "bob"
Parties == {Alice, Bob}
Peer(p) == IF p = Alice THEN Bob ELSE Alice

VARIABLES
    session,   \* Parties -> the stored RatchetSession, or NoSession
    opk,       \* whether Bob's key store still has its one-time pre-key
    calls,     \* Parties -> calls between their load and their store
    net,       \* messages on their way
    sent,      \* Parties -> number of messages encrypted
    fresh,     \* the next key pair
    used,      \* history: the keys messages were encrypted under, in order
    opened,    \* history: messages decrypted
    failed,    \* history: messages whose decrypt threw, with the reason
    overlaps,  \* history: calls begun while another of the same manager was in flight
    crossed    \* history: whether a message overtook one of an earlier ratchet step

vars == <<session, opk, calls, net, sent, fresh, used, opened, failed, overlaps, crossed>>

-----------------------------------------------------------------------------
(* Keys.                                                                   *)

BobSignedPreKey == 0
NoChain == <<>>

dh(a, b) == {a, b}

(***************************************************************************)
(* x3dh and x3dhRespond give the same secret when both mixed the one-time  *)
(* pre-key in, or both did not.                                            *)
(***************************************************************************)
x3dh(withOpk) == <<withOpk>>

kdfRootKey(root, out) == Append(root, out)
MessageKey(chain, steps) == [chain |-> chain, steps |-> steps]

-----------------------------------------------------------------------------
(* Sessions.                                                               *)

NoSession == [none |-> TRUE]

(***************************************************************************)
(* initSessionFromBundle: Alice ratchets once against Bob's signed         *)
(* pre-key.  The root key and the chain key come out of the same step.     *)
(***************************************************************************)
InitiatorSession(withOpk) ==
    LET root == kdfRootKey(x3dh(withOpk), dh(fresh, BobSignedPreKey))
    IN  [none |-> FALSE, rootKey |-> root,
         sendChain |-> root, sendCount |-> 0, prevSendCount |-> 0,
         recvChain |-> NoChain, recvSteps |-> 0, recvCount |-> 0,
         ours |-> fresh, theirs |-> BobSignedPreKey,
         skipped |-> << >>, pending |-> TRUE, withOpk |-> withOpk]

(***************************************************************************)
(* initSessionFromPreKey: Bob uses the one-time pre-key if he still has    *)
(* it, and ratchets twice against the key in Alice's header.               *)
(***************************************************************************)
ResponderSession(m) ==
    LET root1 == kdfRootKey(x3dh(m.withOpk /\ opk), dh(BobSignedPreKey, m.rk))
        root2 == kdfRootKey(root1, dh(fresh, m.rk))
    IN  [none |-> FALSE, rootKey |-> root2,
         sendChain |-> root2, sendCount |-> 0, prevSendCount |-> 0,
         recvChain |-> root1, recvSteps |-> 0, recvCount |-> 0,
         ours |-> fresh, theirs |-> m.rk,
         skipped |-> << >>, pending |-> FALSE, withOpk |-> FALSE]

(***************************************************************************)
(* skipMessageKeys: store the keys up to target under the header key they  *)
(* will be asked for with.  TooFar is its throw.                           *)
(***************************************************************************)
TooFar(s, target) == s.recvChain # NoChain /\ target > s.recvCount + MaxSkip

skipMessageKeys(s, target) ==
    IF s.recvChain = NoChain \/ s.recvCount >= target THEN s
    ELSE LET new == {<<s.theirs, i>> : i \in s.recvCount..(target - 1)}
             key(i) == MessageKey(s.recvChain, s.recvSteps + (i - s.recvCount))
         IN  [s EXCEPT !.skipped = [x \in new \cup DOMAIN @ |-> IF x \in new THEN key(x[2]) ELSE @[x]],
                       !.recvSteps = @ + (target - s.recvCount), !.recvCount = target]

(***************************************************************************)
(* A variant of DHRatchet that goes on counting in the new chain.          *)
(***************************************************************************)
DHRatchetKeepingCount(s, m, new) ==
    LET root1 == kdfRootKey(s.rootKey, dh(s.ours, m.rk))
        root2 == kdfRootKey(root1, dh(new, m.rk))
    IN  [s EXCEPT !.recvChain = root1, !.recvSteps = 0,
                  !.sendChain = root2, !.prevSendCount = s.sendCount, !.sendCount = 0,
                  !.rootKey = root2, !.ours = new, !.theirs = m.rk]

(***************************************************************************)
(* The DH ratchet step of decrypt, with new as the fresh key pair.         *)
(***************************************************************************)
DHRatchet(s, m, new) ==
    LET root1 == kdfRootKey(s.rootKey, dh(s.ours, m.rk))
        root2 == kdfRootKey(root1, dh(new, m.rk))
    IN  [s EXCEPT !.recvChain = root1, !.recvSteps = 0, !.recvCount = 0,
                  !.sendChain = root2, !.prevSendCount = s.sendCount, !.sendCount = 0,
                  !.rootKey = root2, !.ours = new, !.theirs = m.rk]

(***************************************************************************)
(* decrypt from the header on: the error it throws before storing, or the  *)
(* session it stores and the key it then tries.                            *)
(***************************************************************************)
Throw(why) == [error |-> why, session |-> NoSession, key |-> MessageKey(NoChain, 0)]
Result(s, key) == [error |-> "none", session |-> s, key |-> key]

(***************************************************************************)
(* Variants of TakeKey: the skipped key stays in the cache; the count runs *)
(* one ahead.                                                              *)
(***************************************************************************)
TakeKeyKeepingSkipped(s, m) ==
    LET at == <<m.rk, m.n>>
        ahead == skipMessageKeys(s, m.n)
    IN  IF at \in DOMAIN s.skipped THEN Result(s, s.skipped[at])
        ELSE IF TooFar(s, m.n) THEN Throw("skip")
        ELSE IF ahead.recvChain = NoChain THEN Throw("chain")
        ELSE Result([ahead EXCEPT !.recvSteps = @ + 1, !.recvCount = m.n + 1],
                    MessageKey(ahead.recvChain, ahead.recvSteps))

TakeKeyCountingTwice(s, m) ==
    LET ahead == skipMessageKeys(s, m.n)
    IN  IF TooFar(s, m.n) THEN Throw("skip")
        ELSE IF ahead.recvChain = NoChain THEN Throw("chain")
        ELSE Result([ahead EXCEPT !.recvSteps = @ + 1, !.recvCount = m.n + 2],
                    MessageKey(ahead.recvChain, ahead.recvSteps))

TakeKey(s, m) ==
    LET at == <<m.rk, m.n>>
        ahead == skipMessageKeys(s, m.n)
    IN  IF at \in DOMAIN s.skipped
        THEN Result([s EXCEPT !.skipped = [x \in DOMAIN @ \ {at} |-> @[x]]], s.skipped[at])
        ELSE IF TooFar(s, m.n) THEN Throw("skip")
        ELSE IF ahead.recvChain = NoChain THEN Throw("chain")
        ELSE Result([ahead EXCEPT !.recvSteps = @ + 1, !.recvCount = m.n + 1],
                    MessageKey(ahead.recvChain, ahead.recvSteps))

Receive(s, m, new) ==
    IF s.theirs = m.rk THEN TakeKey(s, m)
    ELSE IF TooFar(s, m.pn) THEN Throw("skip")
    ELSE TakeKey(DHRatchet(skipMessageKeys(s, m.pn), m, new), m)

-----------------------------------------------------------------------------
Init ==
    /\ session = [p \in Parties |-> NoSession]
    /\ opk = TRUE
    /\ calls = [p \in Parties |-> {}]
    /\ net = {}
    /\ sent = [p \in Parties |-> 0]
    /\ fresh = 1
    /\ used = <<>>
    /\ opened = {}
    /\ failed = {}
    /\ overlaps = 0
    /\ crossed = FALSE

(***************************************************************************)
(* Alice fetched Bob's bundle, with or without a one-time pre-key, and its *)
(* signature was good.                                                     *)
(***************************************************************************)
initSessionFromBundle(withOpk) ==
    /\ session[Alice].none
    /\ session' = [session EXCEPT ![Alice] = InitiatorSession(withOpk)]
    /\ fresh' = fresh + 1
    /\ UNCHANGED <<opk, calls, net, sent, used, opened, failed, overlaps, crossed>>

(***************************************************************************)
(* A call of encrypt or decrypt loads the session, works on its copy       *)
(* across many awaits, and stores it back.  Another call may start in      *)
(* between: the manager has no lock.                                       *)
(***************************************************************************)
Begin(p, call) ==
    /\ calls[p] # {} => overlaps < MaxOverlaps
    /\ calls' = [calls EXCEPT ![p] = @ \cup {call}]
    /\ overlaps' = IF calls[p] = {} THEN overlaps ELSE overlaps + 1

Finish(p, call) ==
    /\ call \in calls[p]
    /\ calls' = [calls EXCEPT ![p] = @ \ {call}]

(***************************************************************************)
(* encrypt advances the sending chain of its copy; the initiator's first   *)
(* message is a type-1 one and carries the X3DH parameters.                *)
(***************************************************************************)
Message(p, s) ==
    [from |-> p, num |-> sent[p], first |-> s.pending /\ s.sendCount = 0,
     withOpk |-> s.withOpk, rk |-> s.ours, n |-> s.sendCount, pn |-> s.prevSendCount,
     key |-> MessageKey(s.sendChain, s.sendCount)]

(***************************************************************************)
(* A variant of Advanced that stores the old chain position.               *)
(***************************************************************************)
NotAdvanced(s) == [s EXCEPT !.pending = FALSE]

Advanced(s) ==
    [s EXCEPT !.sendCount = @ + 1, !.pending = @ /\ s.sendCount # 0]

encrypt(p) ==
    LET s == session[p]
    IN  /\ ~ s.none /\ s.sendChain # NoChain
        /\ sent[p] < MaxSent
        /\ Begin(p, [kind |-> "encrypt", msg |-> Message(p, s),
                     result |-> Result(Advanced(s), Message(p, s).key)])
        /\ sent' = [sent EXCEPT ![p] = @ + 1]
        /\ UNCHANGED <<session, opk, net, fresh, used, opened, failed, crossed>>

encryptStores(p, call) ==
    /\ call.kind = "encrypt"
    /\ Finish(p, call)
    /\ session' = [session EXCEPT ![p] = call.result.session]
    /\ net' = net \cup {call.msg}
    /\ used' = Append(used, call.result.key)
    /\ UNCHANGED <<opk, sent, fresh, opened, failed, overlaps, crossed>>

-----------------------------------------------------------------------------
(***************************************************************************)
(* The network hands messages over in any order.  m overtakes what its     *)
(* sender encrypted before it and is still on its way.                     *)
(***************************************************************************)
Overtaken(m) == {o \in net : o.from = m.from /\ o.num < m.num}
Crosses(m) == \E o \in Overtaken(m) : o.rk # m.rk

Lose(m) ==
    /\ m \in net
    /\ net' = net \ {m}
    /\ UNCHANGED <<session, opk, calls, sent, fresh, used, opened, failed, overlaps, crossed>>

(***************************************************************************)
(* decrypt of a type-1 message makes, and stores, a session first.         *)
(***************************************************************************)
decrypt(m) ==
    LET p == Peer(m.from)
        base == IF m.first THEN ResponderSession(m) ELSE session[p]
        result == IF base.none THEN Throw("no session") ELSE Receive(base, m, fresh + 1)
    IN  /\ m \in net
        /\ Begin(p, [kind |-> "decrypt", msg |-> m, result |-> result])
        /\ net' = net \ {m}
        /\ session' = IF m.first THEN [session EXCEPT ![p] = base] ELSE session
        /\ opk' = (opk /\ ~ (m.first /\ m.withOpk))
        /\ fresh' = fresh + 2
        /\ crossed' = (crossed \/ Crosses(m))
        /\ UNCHANGED <<sent, used, opened, failed>>

(***************************************************************************)
(* Authenticated encryption: a ciphertext opens under its own key only.    *)
(***************************************************************************)
aesGcmDecrypt(key, m) == key = m.key

(***************************************************************************)
(* The copy is stored before the ciphertext is tried.                      *)
(***************************************************************************)
decryptStores(p, call) ==
    /\ call.kind = "decrypt" /\ call.result.error = "none"
    /\ Finish(p, call)
    /\ session' = [session EXCEPT ![p] = call.result.session]
    /\ IF aesGcmDecrypt(call.result.key, call.msg)
       THEN opened' = opened \cup {call.msg} /\ UNCHANGED failed
       ELSE failed' = failed \cup {[msg |-> call.msg, why |-> "key"]} /\ UNCHANGED opened
    /\ UNCHANGED <<opk, net, sent, fresh, used, overlaps, crossed>>

decryptThrows(p, call) ==
    /\ call.kind = "decrypt" /\ call.result.error # "none"
    /\ Finish(p, call)
    /\ failed' = failed \cup {[msg |-> call.msg, why |-> call.result.error]}
    /\ UNCHANGED <<session, opk, net, sent, fresh, used, opened, overlaps, crossed>>

Next ==
    \/ \E withOpk \in BOOLEAN : initSessionFromBundle(withOpk)
    \/ \E p \in Parties : encrypt(p)
    \/ \E m \in net : decrypt(m) \/ Lose(m)
    \/ \E p \in Parties : \E call \in calls[p] :
          encryptStores(p, call) \/ decryptStores(p, call) \/ decryptThrows(p, call)

Spec == Init /\ [][Next]_vars

-----------------------------------------------------------------------------
TypeOK ==
    /\ \A p \in Parties : session[p].none \/
          /\ session[p].sendCount <= MaxSent /\ session[p].recvCount <= MaxSent
          /\ session[p].ours \in 0..fresh /\ session[p].theirs \in 0..fresh
          /\ \A x \in DOMAIN session[p].skipped : x \in (0..fresh) \X (0..MaxSent)
    /\ opk \in BOOLEAN
    /\ sent \in [Parties -> 0..MaxSent]
    /\ fresh \in Nat
    /\ Len(used) <= sent[Alice] + sent[Bob]
    /\ overlaps \in 0..MaxOverlaps /\ crossed \in BOOLEAN

(***************************************************************************)
(* What README.md 35 claims of messages "arriving out of sequence": they   *)
(* "can still be decrypted without breaking the ratchet chain".  decrypt   *)
(* then fails only by its own limit on skipped keys, or because the        *)
(* message that sets the session up has not come.                          *)
(***************************************************************************)
DecryptsUnlessSkipLimit == \A f \in failed : f.why \in {"skip", "no session"}

(***************************************************************************)
(* The two ends derive the same keys through any number of ratchet steps,  *)
(* lost messages and messages reordered within a step: decrypt takes a     *)
(* wrong key only after two calls of one manager overlapped, or a message  *)
(* overtook one of an earlier ratchet step.                                *)
(***************************************************************************)
EndsAgree == overlaps = 0 /\ ~ crossed => DecryptsUnlessSkipLimit

(***************************************************************************)
(* Key rotation across the chains of both ends: no two messages, of one    *)
(* party or of both, are encrypted under one key, in any order of          *)
(* delivery, unless two calls of one manager overlapped: both then load    *)
(* the same chain position, as nothing in encrypt keeps them apart.        *)
(***************************************************************************)
KeyPerMessage == overlaps = 0 => \A i, j \in DOMAIN used : used[i] = used[j] => i = j

(***************************************************************************)
(* Forward secrecy (README.md 31): once a message is decrypted its key is  *)
(* neither in the receiver's skipped cache nor ahead of its chain, in any  *)
(* order of delivery, unless a call that overlapped another put an older   *)
(* copy of the session back.                                               *)
(***************************************************************************)
UsedKeysForgotten ==
    overlaps = 0 =>
        \A m \in opened :
            LET s == session[Peer(m.from)]
            IN  /\ \A x \in DOMAIN s.skipped : s.skipped[x] # m.key
                /\ s.recvChain = m.key.chain => s.recvSteps > m.key.steps
=============================================================================
