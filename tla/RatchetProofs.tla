--------------------------- MODULE RatchetProofs -----------------------------
(***************************************************************************)
(* Proofs about Ratchet, for any limit on skipped keys and any number of   *)
(* messages: what a party keeps and what it derives, and that both ends    *)
(* derive the same.                                                        *)
(***************************************************************************)
EXTENDS Ratchet, FiniteSetTheorems, SequenceTheorems, TLAPS

-----------------------------------------------------------------------------
(* Types.                                                                  *)

Path == Seq(BOOLEAN \cup SUBSET Nat)
Key == [chain : Path, steps : Nat]
Caches == UNION {[D -> Key] : D \in SUBSET (Nat \X Nat)}
SessionType ==
    [none : {FALSE}, rootKey : Path,
     sendChain : Path, sendCount : Nat, prevSendCount : Nat,
     recvChain : Path, recvSteps : Nat, recvCount : Nat,
     ours : Nat, theirs : Nat,
     skipped : Caches, pending : BOOLEAN, withOpk : BOOLEAN]
MsgType ==
    [from : Parties, num : Nat, first : BOOLEAN, withOpk : BOOLEAN,
     rk : Nat, n : Nat, pn : Nat, key : Key]
ResultType ==
    [error : {"none", "skip", "chain", "no session"},
     session : {NoSession} \cup SessionType, key : Key]
CallType == [kind : {"encrypt", "decrypt"}, msg : MsgType, result : ResultType]

-----------------------------------------------------------------------------
(* The operators of the model.                                             *)

LEMMA KeyType ==
    ASSUME NEW c \in Path, NEW i \in Nat
    PROVE  MessageKey(c, i) \in Key /\ MessageKey(c, i).chain = c /\ MessageKey(c, i).steps = i
  BY DEF MessageKey, Key

LEMMA CacheFacts ==
    ASSUME NEW f \in Caches
    PROVE  /\ DOMAIN f \subseteq Nat \X Nat /\ \A x \in DOMAIN f : f[x] \in Key
           /\ f = [x \in DOMAIN f |-> f[x]]
  BY DEF Caches

LEMMA CacheType ==
    ASSUME NEW D \in SUBSET (Nat \X Nat), NEW f \in [D -> Key]
    PROVE  f \in Caches
  BY DEF Caches

LEMMA RootFacts ==
    ASSUME NEW c \in Path, NEW a \in Nat, NEW b \in Nat
    PROVE  /\ kdfRootKey(c, dh(a, b)) \in Path
           /\ Len(kdfRootKey(c, dh(a, b))) = Len(c) + 1
           /\ kdfRootKey(c, dh(a, b))[Len(c) + 1] = {a, b}
           /\ kdfRootKey(c, dh(a, b)) # NoChain
<1>1. {a, b} \in BOOLEAN \cup SUBSET Nat  OBVIOUS
<1>2. Append(c, {a, b}) \in Path /\ Len(Append(c, {a, b})) = Len(c) + 1 /\ Append(c, {a, b})[Len(c) + 1] = {a, b}
  BY <1>1 DEF Path
<1>3. Len(c) \in Nat  BY DEF Path
<1>4. Append(c, {a, b}) # <<>>
  <2>1. Len(<<>>) = 0  OBVIOUS
  <2>2. Len(Append(c, {a, b})) # 0  BY <1>2, <1>3
  <2> QED  BY <2>1, <2>2
<1> QED  BY <1>2, <1>4 DEF kdfRootKey, dh, NoChain

(***************************************************************************)
(* skipMessageKeys changes the receiving position and the cache only.      *)
(***************************************************************************)
SameSending(s, t) ==
    /\ t.rootKey = s.rootKey /\ t.sendChain = s.sendChain /\ t.sendCount = s.sendCount
    /\ t.prevSendCount = s.prevSendCount /\ t.ours = s.ours
    /\ t.pending = s.pending /\ t.withOpk = s.withOpk

LEMMA SkipFacts ==
    ASSUME NEW s \in SessionType, NEW target \in Nat
    PROVE  LET t == skipMessageKeys(s, target)
               new == {<<s.theirs, i>> : i \in s.recvCount..(target - 1)}
           IN  /\ t \in SessionType
               /\ SameSending(s, t) /\ t.recvChain = s.recvChain /\ t.theirs = s.theirs
               /\ s.recvChain = NoChain \/ s.recvCount >= target => t = s
               /\ s.recvChain # NoChain /\ s.recvCount < target =>
                    /\ t.recvCount = target /\ t.recvSteps = s.recvSteps + (target - s.recvCount)
                    /\ DOMAIN t.skipped = new \cup DOMAIN s.skipped
                    /\ \A x \in new : t.skipped[x] = MessageKey(s.recvChain, s.recvSteps + (x[2] - s.recvCount))
                    /\ \A x \in DOMAIN s.skipped \ new : t.skipped[x] = s.skipped[x]
<1> DEFINE t == skipMessageKeys(s, target)
           new == {<<s.theirs, i>> : i \in s.recvCount..(target - 1)}
           cache == [x \in new \cup DOMAIN s.skipped |->
                        IF x \in new THEN MessageKey(s.recvChain, s.recvSteps + (x[2] - s.recvCount))
                        ELSE s.skipped[x]]
<1>0. /\ s.recvChain \in Path /\ s.recvCount \in Nat /\ s.recvSteps \in Nat /\ s.theirs \in Nat
      /\ s.skipped \in Caches
  BY DEF SessionType
<1>1. CASE s.recvChain = NoChain \/ s.recvCount >= target
  <2>1. t = s  BY <1>1 DEF skipMessageKeys
  <2>2. ~ (s.recvChain # NoChain /\ s.recvCount < target)  BY <1>0, <1>1
  <2> QED  BY <2>1, <2>2 DEF SameSending
<1>2. CASE ~ (s.recvChain = NoChain \/ s.recvCount >= target)
  <2>1. t = [s EXCEPT !.skipped = cache, !.recvSteps = s.recvSteps + (target - s.recvCount), !.recvCount = target]
    BY <1>2 DEF skipMessageKeys, SessionType
  <2>2. \A x \in new : x \in Nat \X Nat /\ x[2] \in Nat /\ x[2] - s.recvCount \in Nat
    BY <1>0
  <2>3. cache \in Caches
    <3>1. DOMAIN s.skipped \subseteq Nat \X Nat /\ \A x \in DOMAIN s.skipped : s.skipped[x] \in Key
      BY <1>0, CacheFacts
    <3>2. \A x \in new : MessageKey(s.recvChain, s.recvSteps + (x[2] - s.recvCount)) \in Key
      BY <1>0, <2>2, KeyType
    <3>3. new \cup DOMAIN s.skipped \in SUBSET (Nat \X Nat)  BY <2>2, <3>1
    <3>4. cache \in [new \cup DOMAIN s.skipped -> Key]  BY <3>1, <3>2
    <3> QED  BY <3>3, <3>4, CacheType
  <2>4. s.recvSteps + (target - s.recvCount) \in Nat  BY <1>0, <1>2
  <2> HIDE DEF cache, t
  <2>5. /\ t \in SessionType
        /\ SameSending(s, t) /\ t.recvChain = s.recvChain /\ t.theirs = s.theirs
        /\ t.recvCount = target /\ t.recvSteps = s.recvSteps + (target - s.recvCount)
        /\ t.skipped = cache
    BY <2>1, <2>3, <2>4 DEF SessionType, SameSending
  <2>6. /\ DOMAIN cache = new \cup DOMAIN s.skipped
        /\ \A x \in new : cache[x] = MessageKey(s.recvChain, s.recvSteps + (x[2] - s.recvCount))
        /\ \A x \in DOMAIN s.skipped \ new : cache[x] = s.skipped[x]
    BY DEF cache
  <2> QED  BY <1>2, <2>5, <2>6 DEF t
<1> QED  BY <1>1, <1>2

(***************************************************************************)
(* DHRatchet starts a new chain in each direction.                         *)
(***************************************************************************)
LEMMA RatchetFacts ==
    ASSUME NEW s \in SessionType, NEW m \in MsgType, NEW new \in Nat
    PROVE  LET t == DHRatchet(s, m, new)
               root == kdfRootKey(s.rootKey, dh(s.ours, m.rk))
           IN  /\ t \in SessionType
               /\ t.recvChain = root /\ t.recvSteps = 0 /\ t.recvCount = 0
               /\ t.rootKey = kdfRootKey(root, dh(new, m.rk)) /\ t.sendChain = t.rootKey
               /\ t.prevSendCount = s.sendCount /\ t.sendCount = 0
               /\ t.ours = new /\ t.theirs = m.rk
               /\ t.skipped = s.skipped /\ t.pending = s.pending /\ t.withOpk = s.withOpk
<1> DEFINE t == DHRatchet(s, m, new)
           root == kdfRootKey(s.rootKey, dh(s.ours, m.rk))
           root2 == kdfRootKey(root, dh(new, m.rk))
<1>0. s.rootKey \in Path /\ s.ours \in Nat /\ m.rk \in Nat  BY DEF SessionType, MsgType
<1>1. root \in Path  BY <1>0, RootFacts
<1>2. root2 \in Path  BY <1>0, <1>1, RootFacts
<1>3. t = [s EXCEPT !.recvChain = root, !.recvSteps = 0, !.recvCount = 0,
                    !.sendChain = root2, !.prevSendCount = s.sendCount, !.sendCount = 0,
                    !.rootKey = root2, !.ours = new, !.theirs = m.rk]
  BY DEF DHRatchet
<1> HIDE DEF t, root, root2
<1>4. /\ t \in SessionType
      /\ t.recvChain = root /\ t.recvSteps = 0 /\ t.recvCount = 0
      /\ t.rootKey = root2 /\ t.sendChain = t.rootKey
      /\ t.prevSendCount = s.sendCount /\ t.sendCount = 0
      /\ t.ours = new /\ t.theirs = m.rk
      /\ t.skipped = s.skipped /\ t.pending = s.pending /\ t.withOpk = s.withOpk
  BY <1>0, <1>1, <1>2, <1>3 DEF SessionType
<1> QED  BY <1>4 DEF t, root, root2


(***************************************************************************)
(* TakeKey takes a cached key out of the cache, or the next one of the     *)
(* chain after the keys it skips, or it throws.                            *)
(***************************************************************************)
Cached(s, m, r) ==
    LET at == <<m.rk, m.n>>
        t == r.session
    IN  /\ at \in DOMAIN s.skipped /\ r.key = s.skipped[at]
        /\ SameSending(s, t) /\ t.theirs = s.theirs /\ t.recvChain = s.recvChain
        /\ t.recvSteps = s.recvSteps /\ t.recvCount = s.recvCount
        /\ DOMAIN t.skipped = DOMAIN s.skipped \ {at}
        /\ \A x \in DOMAIN t.skipped : t.skipped[x] = s.skipped[x]

Derived(s, m, r) ==
    LET ahead == skipMessageKeys(s, m.n)
        t == r.session
    IN  /\ <<m.rk, m.n>> \notin DOMAIN s.skipped /\ s.recvChain # NoChain
        /\ r.key = MessageKey(s.recvChain, ahead.recvSteps)
        /\ SameSending(s, t) /\ t.theirs = s.theirs /\ t.recvChain = s.recvChain
        /\ t.recvSteps = ahead.recvSteps + 1 /\ t.recvCount = m.n + 1
        /\ t.skipped = ahead.skipped

Thrown(s, m, r) ==
    /\ <<m.rk, m.n>> \notin DOMAIN s.skipped
    /\ \/ r = Throw("skip") /\ m.n > s.recvCount + MaxSkip
       \/ r = Throw("chain") /\ s.recvChain = NoChain

LEMMA ThrowType ==
    ASSUME NEW e \in {"skip", "chain", "no session"}
    PROVE  Throw(e) \in ResultType /\ Throw(e).error = e
<1>1. NoChain \in Path
  BY EmptySeq DEF NoChain, Path
<1>2. MessageKey(NoChain, 0) \in Key  BY <1>1, KeyType
<1> QED  BY <1>2 DEF Throw, ResultType

LEMMA ResultFacts ==
    ASSUME NEW s \in SessionType, NEW k \in Key
    PROVE  /\ Result(s, k) \in ResultType /\ Result(s, k).error = "none"
           /\ Result(s, k).session = s /\ Result(s, k).key = k
  BY DEF Result, ResultType

LEMMA TakeFacts ==
    ASSUME NEW s \in SessionType, NEW m \in MsgType
    PROVE  LET r == TakeKey(s, m)
           IN  /\ r \in ResultType
               /\ \/ r.error = "none" /\ r.session \in SessionType /\ (Cached(s, m, r) \/ Derived(s, m, r))
                  \/ r.error # "none" /\ Thrown(s, m, r)
<1> DEFINE r == TakeKey(s, m)
           at == <<m.rk, m.n>>
           ahead == skipMessageKeys(s, m.n)
<1>0. /\ s.skipped \in Caches /\ s.recvChain \in Path /\ s.recvSteps \in Nat
      /\ m.rk \in Nat /\ m.n \in Nat /\ at \in Nat \X Nat
  BY DEF SessionType, MsgType
<1>1. CASE at \in DOMAIN s.skipped
  <2> DEFINE cache == [x \in DOMAIN s.skipped \ {at} |-> s.skipped[x]]
             t == [s EXCEPT !.skipped = cache]
  <2>1. DOMAIN s.skipped \subseteq Nat \X Nat /\ \A x \in DOMAIN s.skipped : s.skipped[x] \in Key
    BY <1>0, CacheFacts
  <2>2. cache \in Caches
    <3>1. DOMAIN s.skipped \ {at} \in SUBSET (Nat \X Nat) /\ cache \in [DOMAIN s.skipped \ {at} -> Key]
      BY <2>1
    <3> QED  BY <3>1, CacheType
  <2>3. r = Result(t, s.skipped[at])  BY <1>1 DEF TakeKey, SessionType
  <2>4. DOMAIN cache = DOMAIN s.skipped \ {at} /\ \A x \in DOMAIN cache : cache[x] = s.skipped[x]
    OBVIOUS
  <2> HIDE DEF cache
  <2>5. /\ t \in SessionType /\ t.skipped = cache
        /\ SameSending(s, t) /\ t.theirs = s.theirs /\ t.recvChain = s.recvChain
        /\ t.recvSteps = s.recvSteps /\ t.recvCount = s.recvCount
    BY <2>2 DEF SessionType, SameSending
  <2> HIDE DEF t, r
  <2>6. /\ r \in ResultType /\ r.error = "none" /\ r.session = t /\ r.key = s.skipped[at]
    BY <1>1, <2>1, <2>3, <2>5, ResultFacts
  <2>7. Cached(s, m, r)  BY <1>1, <2>4, <2>5, <2>6 DEF Cached
  <2> QED  BY <2>5, <2>6, <2>7 DEF r
<1>2. CASE at \notin DOMAIN s.skipped
  <2>1. CASE TooFar(s, m.n)
    <3>1. r = Throw("skip")  BY <1>2, <2>1 DEF TakeKey
    <3>2. m.n > s.recvCount + MaxSkip  BY <2>1 DEF TooFar
    <3> QED  BY <1>2, <3>1, <3>2, ThrowType DEF Thrown
  <2>2. CASE ~ TooFar(s, m.n) /\ ahead.recvChain = NoChain
    <3>1. r = Throw("chain")  BY <1>2, <2>2 DEF TakeKey
    <3>2. s.recvChain = NoChain  BY <1>0, <2>2, SkipFacts
    <3> QED  BY <1>2, <3>1, <3>2, ThrowType DEF Thrown
  <2>3. CASE ~ TooFar(s, m.n) /\ ahead.recvChain # NoChain
    <3> DEFINE t == [ahead EXCEPT !.recvSteps = ahead.recvSteps + 1, !.recvCount = m.n + 1]
               k == MessageKey(ahead.recvChain, ahead.recvSteps)
    <3>1. /\ ahead \in SessionType /\ SameSending(s, ahead) /\ ahead.theirs = s.theirs
          /\ ahead.recvChain = s.recvChain
      BY <1>0, SkipFacts
    <3> HIDE DEF ahead
    <3>2. r = Result(t, k)  BY <1>2, <2>3, <3>1 DEF TakeKey, ahead, SessionType
    <3>3. ahead.recvSteps \in Nat /\ k \in Key  BY <1>0, <3>1, KeyType DEF SessionType
    <3>4. /\ t \in SessionType
          /\ SameSending(ahead, t) /\ t.theirs = ahead.theirs /\ t.recvChain = ahead.recvChain
          /\ t.recvSteps = ahead.recvSteps + 1 /\ t.recvCount = m.n + 1 /\ t.skipped = ahead.skipped
      <4>1. PICK i \in Nat : i = ahead.recvSteps + 1  BY <3>3
      <4>2. PICK j \in Nat : j = m.n + 1  BY <1>0
      <4>3. t = [ahead EXCEPT !.recvSteps = i, !.recvCount = j]  BY <4>1, <4>2
      <4> HIDE DEF t
      <4>4. t \in SessionType  BY <3>1, <4>3 DEF SessionType
      <4>5. /\ SameSending(ahead, t) /\ t.theirs = ahead.theirs /\ t.recvChain = ahead.recvChain
            /\ t.recvSteps = i /\ t.recvCount = j /\ t.skipped = ahead.skipped
        BY <3>1, <4>3 DEF SessionType, SameSending
      <4> QED  BY <4>1, <4>2, <4>4, <4>5
    <3> HIDE DEF t, k, r
    <3>5. r \in ResultType /\ r.error = "none" /\ r.session = t /\ r.key = k
      BY <3>2, <3>3, <3>4, ResultFacts
    <3>6. SameSending(s, t)  BY <3>1, <3>4 DEF SameSending
    <3>7. Derived(s, m, r)
      BY <1>2, <2>3, <3>1, <3>4, <3>5, <3>6 DEF Derived, ahead, k
    <3> QED  BY <3>4, <3>5, <3>7 DEF r
  <2> QED  BY <2>1, <2>2, <2>3
<1> QED  BY <1>1, <1>2

(***************************************************************************)
(* decrypt takes the key from the session as it is, or from the one after  *)
(* a ratchet step.                                                         *)
(***************************************************************************)
Stepped(s, m, new) == DHRatchet(skipMessageKeys(s, m.pn), m, new)

LEMMA ReceiveFacts ==
    ASSUME NEW s \in SessionType, NEW m \in MsgType, NEW new \in Nat
    PROVE  /\ Receive(s, m, new) \in ResultType
           /\ s.theirs = m.rk => Receive(s, m, new) = TakeKey(s, m)
           /\ s.theirs # m.rk =>
                \/ Receive(s, m, new) = Throw("skip")
                \/ Receive(s, m, new) = TakeKey(Stepped(s, m, new), m)
           /\ Stepped(s, m, new) \in SessionType
           /\ Receive(s, m, new).error = "none" => Receive(s, m, new).session \in SessionType
<1>0. m.pn \in Nat  BY DEF MsgType
<1>1. skipMessageKeys(s, m.pn) \in SessionType  BY <1>0, SkipFacts
<1>2. Stepped(s, m, new) \in SessionType  BY <1>1, RatchetFacts DEF Stepped
<1>3. CASE s.theirs = m.rk
  <2>1. Receive(s, m, new) = TakeKey(s, m)  BY <1>3 DEF Receive
  <2> QED  BY <1>2, <1>3, <2>1, TakeFacts
<1>4. CASE s.theirs # m.rk
  <2>1. \/ Receive(s, m, new) = Throw("skip")
        \/ Receive(s, m, new) = TakeKey(Stepped(s, m, new), m)
    BY <1>4 DEF Receive, Stepped
  <2> QED  BY <1>2, <1>4, <2>1, TakeFacts, ThrowType
<1> QED  BY <1>3, <1>4

-----------------------------------------------------------------------------
(* The two ends' sessions.                                                 *)

LEMMA InitiatorFacts ==
    ASSUME NEW w \in BOOLEAN, fresh \in Nat
    PROVE  LET s == InitiatorSession(w)
           IN  /\ s \in SessionType
               /\ s.rootKey = kdfRootKey(x3dh(w), dh(fresh, BobSignedPreKey)) /\ s.sendChain = s.rootKey
               /\ Len(s.rootKey) = 2 /\ s.rootKey[2] = {fresh, 0}
               /\ s.sendCount = 0 /\ s.prevSendCount = 0
               /\ s.recvChain = NoChain /\ s.recvSteps = 0 /\ s.recvCount = 0
               /\ s.ours = fresh /\ s.theirs = 0 /\ DOMAIN s.skipped = {} /\ s.pending
               /\ s.withOpk = w
<1> DEFINE root == kdfRootKey(x3dh(w), dh(fresh, BobSignedPreKey))
           s == InitiatorSession(w)
<1>1. x3dh(w) \in Path /\ Len(x3dh(w)) = 1  BY DEF x3dh, Path
<1>2. root \in Path /\ Len(root) = 2 /\ root[2] = {fresh, 0}
  <2>1. BobSignedPreKey = 0 /\ 0 \in Nat  BY DEF BobSignedPreKey
  <2>2. root \in Path /\ Len(root) = Len(x3dh(w)) + 1 /\ root[Len(x3dh(w)) + 1] = {fresh, 0}
    BY ONLY <1>1, <2>1, RootFacts, fresh \in Nat
  <2> HIDE DEF root
  <2>3. Len(x3dh(w)) + 1 = 2  BY <1>1
  <2> QED  BY <2>2, <2>3
<1>3. << >> \in Path  BY EmptySeq DEF Path
<1>4. << >> \in Caches /\ DOMAIN << >> = {}
  <2>1. DOMAIN << >> = {}  OBVIOUS
  <2>2. << >> \in [{} -> Key]  OBVIOUS
  <2> QED  BY <2>1, <2>2, CacheType
<1>5. s = [none |-> FALSE, rootKey |-> root,
           sendChain |-> root, sendCount |-> 0, prevSendCount |-> 0,
           recvChain |-> << >>, recvSteps |-> 0, recvCount |-> 0,
           ours |-> fresh, theirs |-> 0,
           skipped |-> << >>, pending |-> TRUE, withOpk |-> w]
  BY DEF InitiatorSession, NoChain, BobSignedPreKey
<1> HIDE DEF root, s
<1>6. s \in SessionType  BY <1>2, <1>3, <1>4, <1>5 DEF SessionType
<1>7. /\ s.rootKey = root /\ s.sendChain = s.rootKey
      /\ s.sendCount = 0 /\ s.prevSendCount = 0
      /\ s.recvChain = NoChain /\ s.recvSteps = 0 /\ s.recvCount = 0
      /\ s.ours = fresh /\ s.theirs = 0 /\ s.skipped = << >> /\ s.pending /\ s.withOpk = w
  BY <1>5 DEF NoChain
<1> QED  BY <1>2, <1>4, <1>6, <1>7 DEF root, s

LEMMA ResponderFacts ==
    ASSUME NEW m \in MsgType, fresh \in Nat, opk \in BOOLEAN
    PROVE  LET s == ResponderSession(m)
               root == kdfRootKey(x3dh(m.withOpk /\ opk), dh(BobSignedPreKey, m.rk))
           IN  /\ s \in SessionType
               /\ s.recvChain = root /\ Len(root) = 2
               /\ s.rootKey = kdfRootKey(root, dh(fresh, m.rk)) /\ s.sendChain = s.rootKey
               /\ Len(s.rootKey) = 3 /\ s.rootKey[3] = {fresh, m.rk}
               /\ s.sendCount = 0 /\ s.prevSendCount = 0
               /\ s.recvSteps = 0 /\ s.recvCount = 0
               /\ s.ours = fresh /\ s.theirs = m.rk /\ DOMAIN s.skipped = {} /\ ~ s.pending
<1> DEFINE w == m.withOpk /\ opk
           root == kdfRootKey(x3dh(w), dh(BobSignedPreKey, m.rk))
           root2 == kdfRootKey(root, dh(fresh, m.rk))
           s == ResponderSession(m)
<1>0. m.rk \in Nat /\ w \in BOOLEAN  BY DEF MsgType
<1>1. x3dh(w) \in Path /\ Len(x3dh(w)) = 1  BY <1>0 DEF x3dh, Path
<1>2. root \in Path /\ Len(root) = 2
  <2>1. BobSignedPreKey = 0 /\ 0 \in Nat  BY DEF BobSignedPreKey
  <2>2. root \in Path /\ Len(root) = Len(x3dh(w)) + 1
    BY ONLY <1>0, <1>1, <2>1, RootFacts
  <2> HIDE DEF root, w
  <2> QED  BY <1>1, <2>2
<1>3. root2 \in Path /\ Len(root2) = 3 /\ root2[3] = {fresh, m.rk}
  <2> HIDE DEF root
  <2>1. root2 \in Path /\ Len(root2) = Len(root) + 1 /\ root2[Len(root) + 1] = {fresh, m.rk}
    BY ONLY <1>0, <1>2, RootFacts, fresh \in Nat
  <2> HIDE DEF root2
  <2>2. Len(root) + 1 = 3  BY <1>2
  <2> QED  BY <2>1, <2>2
<1>4. << >> \in Caches /\ DOMAIN << >> = {}
  <2>1. DOMAIN << >> = {}  OBVIOUS
  <2>2. << >> \in [{} -> Key]  OBVIOUS
  <2> QED  BY <2>1, <2>2, CacheType
<1>5. s = [none |-> FALSE, rootKey |-> root2,
           sendChain |-> root2, sendCount |-> 0, prevSendCount |-> 0,
           recvChain |-> root, recvSteps |-> 0, recvCount |-> 0,
           ours |-> fresh, theirs |-> m.rk,
           skipped |-> << >>, pending |-> FALSE, withOpk |-> FALSE]
  BY DEF ResponderSession
<1> HIDE DEF w, root, root2, s
<1>6. s \in SessionType  BY <1>0, <1>2, <1>3, <1>4, <1>5 DEF SessionType
<1>7. /\ s.rootKey = root2 /\ s.sendChain = s.rootKey
      /\ s.sendCount = 0 /\ s.prevSendCount = 0
      /\ s.recvChain = root /\ s.recvSteps = 0 /\ s.recvCount = 0
      /\ s.ours = fresh /\ s.theirs = m.rk /\ s.skipped = << >> /\ ~ s.pending
  BY <1>5
<1> QED  BY <1>2, <1>3, <1>4, <1>6, <1>7 DEF w, root, root2, s

LEMMA EncryptFacts ==
    ASSUME NEW p \in Parties, NEW s \in SessionType, sent[p] \in Nat
    PROVE  LET m == Message(p, s)
               t == Advanced(s)
           IN  /\ m \in MsgType /\ m.from = p /\ m.num = sent[p] /\ m.rk = s.ours
               /\ m.n = s.sendCount /\ m.pn = s.prevSendCount /\ m.withOpk = s.withOpk
               /\ m.key = MessageKey(s.sendChain, s.sendCount)
               /\ m.first <=> s.pending /\ s.sendCount = 0
               /\ t \in SessionType /\ t.sendCount = s.sendCount + 1
               /\ t.pending <=> s.pending /\ s.sendCount # 0
               /\ t.rootKey = s.rootKey /\ t.sendChain = s.sendChain
               /\ t.prevSendCount = s.prevSendCount /\ t.ours = s.ours /\ t.theirs = s.theirs
               /\ t.recvChain = s.recvChain /\ t.recvSteps = s.recvSteps /\ t.recvCount = s.recvCount
               /\ t.skipped = s.skipped /\ t.withOpk = s.withOpk
<1> DEFINE m == Message(p, s)
           t == Advanced(s)
           k == MessageKey(s.sendChain, s.sendCount)
           f == s.pending /\ s.sendCount = 0
           g == s.pending /\ s.sendCount # 0
<1>1. s.sendCount \in Nat /\ s.sendChain \in Path /\ s.ours \in Nat /\ s.prevSendCount \in Nat
  BY DEF SessionType
<1>2. k \in Key  BY <1>1, KeyType
<1>3. f \in BOOLEAN /\ g \in BOOLEAN /\ s.withOpk \in BOOLEAN  BY DEF SessionType
<1>4. m = [from |-> p, num |-> sent[p], first |-> f, withOpk |-> s.withOpk, rk |-> s.ours,
           n |-> s.sendCount, pn |-> s.prevSendCount, key |-> k]
  BY DEF Message
<1>5. t = [s EXCEPT !.sendCount = s.sendCount + 1, !.pending = g]
  BY DEF Advanced, SessionType
<1>6. s.sendCount + 1 \in Nat  BY <1>1
<1> HIDE DEF m, t, k, f, g
<1>7. m \in MsgType  BY <1>1, <1>2, <1>3, <1>4 DEF MsgType
<1>8. /\ m.from = p /\ m.num = sent[p] /\ m.rk = s.ours
      /\ m.n = s.sendCount /\ m.pn = s.prevSendCount /\ m.withOpk = s.withOpk
      /\ m.key = k /\ m.first = f
  BY <1>4
<1>9. t \in SessionType  BY <1>3, <1>5, <1>6 DEF SessionType
<1>10. /\ t.sendCount = s.sendCount + 1 /\ t.pending = g
       /\ t.rootKey = s.rootKey /\ t.sendChain = s.sendChain
       /\ t.prevSendCount = s.prevSendCount /\ t.ours = s.ours /\ t.theirs = s.theirs
       /\ t.recvChain = s.recvChain /\ t.recvSteps = s.recvSteps /\ t.recvCount = s.recvCount
       /\ t.skipped = s.skipped /\ t.withOpk = s.withOpk
  BY <1>5 DEF SessionType
<1> QED  BY <1>7, <1>8, <1>9, <1>10 DEF m, t, k, f, g

-----------------------------------------------------------------------------
(* Types and sizes, for any number of calls at a time.                     *)

(***************************************************************************)
(* A session with key pairs before f, and a message with such a key.       *)
(***************************************************************************)
Sized(s, f) ==
    /\ s.ours < f /\ s.theirs < f
    /\ s.sendCount <= MaxSent /\ s.prevSendCount <= MaxSent /\ s.recvCount <= MaxSent
    /\ \A x \in DOMAIN s.skipped : x[1] < f /\ x[2] <= MaxSent
MsgSized(m, f) == m.rk < f /\ m.n < MaxSent /\ m.pn <= MaxSent

LEMMA SizedSkip ==
    ASSUME NEW s \in SessionType, NEW f \in Nat, Sized(s, f), NEW target \in 0..MaxSent
    PROVE  Sized(skipMessageKeys(s, target), f)
<1> DEFINE t == skipMessageKeys(s, target)
           new == {<<s.theirs, i>> : i \in s.recvCount..(target - 1)}
<1>0. s.recvCount \in Nat /\ s.theirs \in Nat /\ MaxSent \in Nat  BY RatchetAssumption DEF SessionType
<1>1. CASE s.recvChain = NoChain \/ s.recvCount >= target
  BY <1>1, SkipFacts
<1>2. CASE s.recvChain # NoChain /\ s.recvCount < target
  <2>1. /\ SameSending(s, t) /\ t.theirs = s.theirs /\ t.recvCount = target
        /\ DOMAIN t.skipped = new \cup DOMAIN s.skipped
    BY <1>2, SkipFacts
  <2>2. \A x \in new : x[1] < f /\ x[2] <= MaxSent
    BY <1>0 DEF Sized
  <2> HIDE DEF t, new
  <2>3. \A x \in DOMAIN t.skipped : x[1] < f /\ x[2] <= MaxSent
    BY <2>1, <2>2 DEF Sized
  <2>4. Sized(t, f)  BY <1>0, <2>1, <2>3 DEF Sized, SameSending
  <2> QED  BY <2>4 DEF t
<1> QED  BY <1>0, <1>1, <1>2

LEMMA SizedTake ==
    ASSUME NEW s \in SessionType, NEW m \in MsgType, NEW f \in Nat, Sized(s, f), MsgSized(m, f),
           TakeKey(s, m).error = "none"
    PROVE  Sized(TakeKey(s, m).session, f) /\ TakeKey(s, m).session.sendCount = s.sendCount
<1> DEFINE r == TakeKey(s, m)
           t == r.session
<1>0. m.n \in 0..MaxSent /\ m.n + 1 <= MaxSent  BY RatchetAssumption DEF MsgType, MsgSized
<1>1. Cached(s, m, r) \/ Derived(s, m, r)  BY TakeFacts
<1> HIDE DEF r
<1>2. CASE Cached(s, m, r)
  <2>1. DOMAIN t.skipped \subseteq DOMAIN s.skipped /\ SameSending(s, t) /\ t.theirs = s.theirs
        /\ t.recvCount = s.recvCount
    BY <1>2 DEF Cached
  <2> HIDE DEF t
  <2> QED  BY <2>1 DEF Sized, SameSending, r, t
<1>3. CASE Derived(s, m, r)
  <2> DEFINE ahead == skipMessageKeys(s, m.n)
  <2>1. SameSending(s, t) /\ t.theirs = s.theirs /\ t.recvCount = m.n + 1 /\ t.skipped = ahead.skipped
    BY <1>3 DEF Derived
  <2>2. Sized(ahead, f)  BY <1>0, SizedSkip
  <2> HIDE DEF t, ahead
  <2>3. Sized(t, f)  BY <1>0, <2>1, <2>2 DEF Sized, SameSending
  <2> QED  BY <2>1, <2>3 DEF SameSending, r, t
<1> QED  BY <1>1, <1>2, <1>3

LEMMA SizedReceive ==
    ASSUME NEW s \in SessionType, NEW m \in MsgType, NEW f \in Nat, Sized(s, f), MsgSized(m, f),
           Receive(s, m, f + 1).error = "none"
    PROVE  Sized(Receive(s, m, f + 1).session, f + 2)
           /\ Receive(s, m, f + 1).session.sendCount <= s.sendCount
<1>0. /\ f + 1 \in Nat /\ f + 2 \in Nat /\ m.pn \in 0..MaxSent /\ m.rk \in Nat
      /\ s.sendCount \in Nat /\ MaxSent \in Nat /\ s.ours \in Nat /\ s.theirs \in Nat
  BY RatchetAssumption DEF SessionType, MsgType, MsgSized
<1>1. MsgSized(m, f + 2)  BY <1>0 DEF MsgSized
<1>2. CASE s.theirs = m.rk
  <2>1. Receive(s, m, f + 1) = TakeKey(s, m)  BY <1>0, <1>2, ReceiveFacts
  <2>2. Sized(s, f + 2)
    <3>1. \A x \in DOMAIN s.skipped : x[1] \in Nat  BY CacheFacts DEF SessionType
    <3> QED  BY <1>0, <3>1 DEF Sized
  <2>3. /\ Sized(TakeKey(s, m).session, f + 2)
        /\ TakeKey(s, m).session.sendCount = s.sendCount
    BY <1>0, <1>1, <2>1, <2>2, SizedTake
  <2> QED  BY <1>0, <2>1, <2>3
<1>3. CASE s.theirs # m.rk
  <2> DEFINE a == skipMessageKeys(s, m.pn)
             t == Stepped(s, m, f + 1)
  <2>1. Receive(s, m, f + 1) = TakeKey(t, m) /\ t \in SessionType
    <3>1. Receive(s, m, f + 1) # Throw("skip")  BY ThrowType
    <3> QED  BY <1>0, <1>3, <3>1, ReceiveFacts
  <2>2. a \in SessionType /\ a.sendCount = s.sendCount /\ Sized(a, f)
    <3>1. m.pn \in Nat  BY <1>0
    <3>2. a \in SessionType /\ SameSending(s, a)  BY <3>1, SkipFacts
    <3>3. Sized(a, f)  BY <1>0, SizedSkip
    <3> QED  BY <3>2, <3>3 DEF SameSending
  <2>3. /\ t.ours = f + 1 /\ t.theirs = m.rk /\ t.sendCount = 0 /\ t.prevSendCount = s.sendCount
        /\ t.recvCount = 0 /\ t.skipped = a.skipped
    <3>1. t = DHRatchet(a, m, f + 1)  BY DEF Stepped
    <3> HIDE DEF a, t
    <3>2. /\ t.ours = f + 1 /\ t.theirs = m.rk /\ t.sendCount = 0 /\ t.prevSendCount = a.sendCount
          /\ t.recvCount = 0 /\ t.skipped = a.skipped
      <4>1. PICK new \in Nat : new = f + 1  BY <1>0
      <4>2. t = DHRatchet(a, m, new)  BY <3>1, <4>1
      <4>3. /\ t.ours = new /\ t.theirs = m.rk /\ t.sendCount = 0 /\ t.prevSendCount = a.sendCount
            /\ t.recvCount = 0 /\ t.skipped = a.skipped
        BY ONLY <2>2, <4>2, RatchetFacts, m \in MsgType, new \in Nat
      <4> QED  BY <4>1, <4>3
    <3> QED  BY <2>2, <3>2
  <2> HIDE DEF a, t
  <2>4. \A x \in DOMAIN a.skipped : x[1] \in Nat  BY <2>2, CacheFacts DEF SessionType
  <2>5. Sized(t, f + 2)
    BY <1>0, <2>2, <2>3, <2>4 DEF Sized, MsgSized
  <2>6. Sized(TakeKey(t, m).session, f + 2) /\ TakeKey(t, m).session.sendCount = 0
    BY <1>0, <1>1, <2>1, <2>3, <2>5, SizedTake
  <2> QED  BY <1>0, <2>1, <2>6
<1> QED  BY <1>2, <1>3

-----------------------------------------------------------------------------
(* Copies of a session.                                                    *)

(***************************************************************************)
(* The sessions of a party: the stored one, and the ones its calls will    *)
(* store.                                                                  *)
(***************************************************************************)
Stores(c) == c.result.error = "none"
CopiesOf(s, C) == (IF s.none THEN {} ELSE {s}) \cup {c.result.session : c \in {d \in C : Stores(d)}}
Copies(p) == CopiesOf(session[p], calls[p])

LEMMA InCopies ==
    ASSUME NEW s, NEW C, NEW t
    PROVE  t \in CopiesOf(s, C) <=> (~ s.none /\ t = s) \/ \E c \in C : Stores(c) /\ t = c.result.session
  BY DEF CopiesOf

LEMMA CopiesBegin ==
    ASSUME NEW s, NEW C, NEW call
    PROVE  \A t \in CopiesOf(s, C \cup {call}) : t \in CopiesOf(s, C) \/ (Stores(call) /\ t = call.result.session)
  BY InCopies

LEMMA CopiesStore ==
    ASSUME NEW s, NEW C, NEW call \in C, Stores(call)
    PROVE  CopiesOf(call.result.session, C \ {call}) \subseteq CopiesOf(s, C)
  BY InCopies

LEMMA CopiesDrop ==
    ASSUME NEW s, NEW C, NEW call
    PROVE  CopiesOf(s, C \ {call}) \subseteq CopiesOf(s, C)
  BY InCopies

-----------------------------------------------------------------------------
CallOK(c) ==
    /\ Stores(c) => c.result.session \in SessionType
    /\ c.kind = "encrypt" => Stores(c)

RatchetTypes ==
    /\ session \in [Parties -> {NoSession} \cup SessionType]
    /\ opk \in BOOLEAN
    /\ calls \in [Parties -> SUBSET CallType]
    /\ \A p \in Parties : IsFiniteSet(calls[p]) /\ \A c \in calls[p] : CallOK(c)
    /\ net \in SUBSET MsgType /\ opened \in SUBSET MsgType
    /\ sent \in [Parties -> 0..MaxSent] /\ fresh \in Nat \ {0} /\ used \in Seq(Key)

Sizes ==
    /\ \A p \in Parties : \A s \in Copies(p) : Sized(s, fresh) /\ s.sendCount <= sent[p]
    /\ \A m \in net : MsgSized(m, fresh)
    /\ \A p \in Parties : \A c \in calls[p] : MsgSized(c.msg, fresh)

LEMMA Sides ==
    /\ Alice \in Parties /\ Bob \in Parties /\ Alice # Bob
    /\ \A p \in Parties : Peer(p) \in Parties /\ Peer(p) # p /\ Peer(Peer(p)) = p
                          /\ \A q \in Parties : q = p \/ q = Peer(p)
  BY DEF Alice, Bob, Parties, Peer

LEMMA StoredType ==
    ASSUME NEW s \in {NoSession} \cup SessionType
    PROVE  /\ s.none \in BOOLEAN /\ s.none <=> s = NoSession
           /\ ~ s.none => s \in SessionType
<1>1. NoSession.none = TRUE  BY DEF NoSession
<1>2. \A t \in SessionType : t.none = FALSE  BY DEF SessionType
<1> QED  BY <1>1, <1>2

LEMMA CopyType ==
    ASSUME RatchetTypes, NEW p \in Parties, NEW s \in Copies(p)
    PROVE  s \in SessionType
<1>1. (~ session[p].none /\ s = session[p]) \/ \E c \in calls[p] : Stores(c) /\ s = c.result.session
  BY InCopies DEF Copies
<1>2. session[p] \in {NoSession} \cup SessionType  BY DEF RatchetTypes
<1>3. \A c \in calls[p] : Stores(c) => c.result.session \in SessionType  BY DEF RatchetTypes, CallOK
<1> QED  BY <1>1, <1>2, <1>3, StoredType

-----------------------------------------------------------------------------
(* What the actions do to the copies.                                      *)

LEMMA BundleStep ==
    ASSUME RatchetTypes, NEW w \in BOOLEAN, initSessionFromBundle(w)
    PROVE  LET s == InitiatorSession(w)
           IN  /\ s \in SessionType
               /\ session' = [session EXCEPT ![Alice] = s]
               /\ \A p \in Parties : \A t \in Copies(p)' : t \in Copies(p) \/ (p = Alice /\ t = s)
<1> DEFINE s == InitiatorSession(w)
<1>1. s \in SessionType /\ ~ s.none
  <2>1. fresh \in Nat  BY DEF RatchetTypes
  <2>2. s \in SessionType  BY <2>1, InitiatorFacts
  <2> HIDE DEF s
  <2> QED  BY <2>2 DEF SessionType
<1>2. session' = [session EXCEPT ![Alice] = s] /\ calls' = calls  BY DEF initSessionFromBundle
<1> HIDE DEF s
<1>3. ASSUME NEW p \in Parties, NEW t \in Copies(p)'
      PROVE  t \in Copies(p) \/ (p = Alice /\ t = s)
  <2>1. t \in CopiesOf(session'[p], calls[p])  BY <1>2 DEF Copies
  <2>2. session'[p] = IF p = Alice THEN s ELSE session[p]  BY <1>2 DEF RatchetTypes
  <2> QED  BY <2>1, <2>2, InCopies DEF Copies
<1> QED  BY <1>1, <1>2, <1>3 DEF s

LEMMA EncryptStep ==
    ASSUME RatchetTypes, NEW p \in Parties, encrypt(p)
    PROVE  LET s == session[p]
               call == [kind |-> "encrypt", msg |-> Message(p, s), result |-> Result(Advanced(s), Message(p, s).key)]
           IN  /\ s \in SessionType /\ s \in Copies(p)
               /\ call \in CallType /\ CallOK(call) /\ Stores(call) /\ call.result.session = Advanced(s)
               /\ call.kind = "encrypt" /\ call.msg = Message(p, s) /\ call.result.key = Message(p, s).key
               /\ calls' = [calls EXCEPT ![p] = calls[p] \cup {call}]
               /\ \A q \in Parties : \A t \in Copies(q)' : t \in Copies(q) \/ (q = p /\ t = Advanced(s))
<1> DEFINE s == session[p]
           k == Message(p, s).key
           call == [kind |-> "encrypt", msg |-> Message(p, s), result |-> Result(Advanced(s), k)]
<1>1. s \in SessionType /\ ~ s.none  BY StoredType DEF RatchetTypes, encrypt
<1>2. s \in Copies(p)  BY <1>1, InCopies DEF Copies
<1>3. Message(p, s) \in MsgType /\ k \in Key /\ Advanced(s) \in SessionType
  <2>1. sent[p] \in Nat  BY DEF RatchetTypes
  <2>2. Message(p, s) \in MsgType /\ Advanced(s) \in SessionType  BY <1>1, <2>1, EncryptFacts
  <2> QED  BY <2>2 DEF MsgType
<1>4. calls' = [calls EXCEPT ![p] = calls[p] \cup {call}] /\ session' = session
  BY DEF encrypt, Begin, RatchetTypes
<1> HIDE DEF k
<1>5. /\ Result(Advanced(s), k) \in ResultType /\ Result(Advanced(s), k).error = "none"
      /\ Result(Advanced(s), k).session = Advanced(s) /\ Result(Advanced(s), k).key = k
  BY <1>3, ResultFacts
<1>6. /\ call \in CallType /\ Stores(call) /\ call.result.session = Advanced(s)
      /\ call.kind = "encrypt" /\ call.msg = Message(p, s) /\ call.result.key = k
  BY <1>3, <1>5 DEF CallType, Stores
<1>7. CallOK(call)  BY <1>3, <1>6 DEF CallOK
<1> HIDE DEF call
<1>8. ASSUME NEW q \in Parties, NEW t \in Copies(q)'
      PROVE  t \in Copies(q) \/ (q = p /\ t = Advanced(s))
  <2>1. t \in CopiesOf(session[q], calls'[q])  BY <1>4 DEF Copies
  <2>2. calls'[q] = IF q = p THEN calls[q] \cup {call} ELSE calls[q]  BY <1>4 DEF RatchetTypes
  <2>3. CASE q = p
    <3>1. t \in CopiesOf(session[q], calls[q] \cup {call})  BY <2>1, <2>2, <2>3
    <3>2. t \in CopiesOf(session[q], calls[q]) \/ t = call.result.session
      BY ONLY <3>1, CopiesBegin
    <3> QED  BY <1>6, <2>3, <3>2 DEF Copies
  <2>4. CASE q # p  BY <2>1, <2>2, <2>4 DEF Copies
  <2> QED  BY <2>3, <2>4
<1> QED  BY <1>1, <1>2, <1>4, <1>6, <1>7, <1>8 DEF k, call

(***************************************************************************)
(* A call that ends, and a lost message, leave no copy that was not there. *)
(***************************************************************************)
Ends ==
    \/ \E p \in Parties : \E call \in calls[p] :
          encryptStores(p, call) \/ decryptStores(p, call) \/ decryptThrows(p, call)
    \/ \E m \in net : Lose(m)
    \/ UNCHANGED vars

LEMMA EndStep ==
    ASSUME RatchetTypes, Ends
    PROVE  /\ \A p \in Parties : Copies(p)' \subseteq Copies(p) /\ calls'[p] \subseteq calls[p]
           /\ session' \in [Parties -> {NoSession} \cup SessionType]
           /\ calls' \in [Parties -> SUBSET CallType]
           /\ opk' = opk /\ sent' = sent /\ fresh' = fresh
<1>1. ASSUME NEW p \in Parties, NEW call \in calls[p],
             call.kind = "encrypt" \/ (call.kind = "decrypt" /\ call.result.error = "none"),
             Finish(p, call), session' = [session EXCEPT ![p] = call.result.session]
      PROVE  /\ \A q \in Parties : Copies(q)' \subseteq Copies(q) /\ calls'[q] \subseteq calls[q]
             /\ session' \in [Parties -> {NoSession} \cup SessionType]
             /\ calls' \in [Parties -> SUBSET CallType]
  <2>1. Stores(call) /\ call.result.session \in SessionType
    BY <1>1 DEF RatchetTypes, CallOK, Stores
  <2>2. calls' = [calls EXCEPT ![p] = calls[p] \ {call}]  BY <1>1 DEF Finish
  <2>3. ASSUME NEW q \in Parties PROVE Copies(q)' \subseteq Copies(q)
    <3>1. CASE q = p
      <4>1. session'[q] = call.result.session /\ calls'[q] = calls[q] \ {call}
        BY <1>1, <2>2, <3>1 DEF RatchetTypes
      <4>2. CopiesOf(call.result.session, calls[q] \ {call}) \subseteq CopiesOf(session[q], calls[q])
        BY ONLY <2>1, <3>1, call \in calls[p], CopiesStore
      <4> QED  BY <4>1, <4>2 DEF Copies
    <3>2. CASE q # p
      <4>1. session'[q] = session[q] /\ calls'[q] = calls[q]
        BY <1>1, <2>2, <3>2 DEF RatchetTypes
      <4> QED  BY <4>1 DEF Copies
    <3> QED  BY <3>1, <3>2
  <2> QED  BY <1>1, <2>1, <2>2, <2>3 DEF RatchetTypes
<1>2. CASE \E p \in Parties : \E call \in calls[p] : encryptStores(p, call) \/ decryptStores(p, call)
  <2>0. PICK p \in Parties : \E call \in calls[p] : encryptStores(p, call) \/ decryptStores(p, call)
    BY <1>2
  <2>1. PICK call \in calls[p] : encryptStores(p, call) \/ decryptStores(p, call)
    BY <2>0
  <2>2. /\ call.kind = "encrypt" \/ (call.kind = "decrypt" /\ call.result.error = "none")
        /\ Finish(p, call) /\ session' = [session EXCEPT ![p] = call.result.session]
        /\ opk' = opk /\ sent' = sent /\ fresh' = fresh
    BY <2>1 DEF encryptStores, decryptStores
  <2> QED  BY <1>1, <2>2
<1>3. CASE \E p \in Parties : \E call \in calls[p] : decryptThrows(p, call)
  <2>0. PICK p \in Parties : \E call \in calls[p] : decryptThrows(p, call)  BY <1>3
  <2>1. PICK call \in calls[p] : decryptThrows(p, call)  BY <2>0
  <2>2. /\ calls' = [calls EXCEPT ![p] = calls[p] \ {call}] /\ session' = session
        /\ opk' = opk /\ sent' = sent /\ fresh' = fresh
    BY <2>1 DEF decryptThrows, Finish
  <2>3. ASSUME NEW q \in Parties PROVE Copies(q)' \subseteq Copies(q)
    <3>1. calls'[q] = calls[q] \ {call} \/ calls'[q] = calls[q]  BY <2>2 DEF RatchetTypes
    <3> QED  BY <2>2, <3>1, CopiesDrop DEF Copies
  <2> QED  BY <2>2, <2>3 DEF RatchetTypes
<1>4. CASE (\E m \in net : Lose(m)) \/ UNCHANGED vars
  BY <1>4 DEF Lose, vars, Copies, RatchetTypes
<1> QED  BY <1>2, <1>3, <1>4 DEF Ends

(***************************************************************************)
(* decrypt: the session it starts from, and what its call will do.         *)
(***************************************************************************)
Base(m) == IF m.first THEN ResponderSession(m) ELSE session[Peer(m.from)]
Outcome(m) == IF Base(m).none THEN Throw("no session") ELSE Receive(Base(m), m, fresh + 1)
Call(m) == [kind |-> "decrypt", msg |-> m, result |-> Outcome(m)]

LEMMA DecryptStep ==
    ASSUME RatchetTypes, NEW m \in net, decrypt(m)
    PROVE  LET p == Peer(m.from)
           IN  /\ m \in MsgType /\ m.from \in Parties /\ p \in Parties /\ p # m.from
               /\ Base(m) \in {NoSession} \cup SessionType
               /\ m.first => Base(m) = ResponderSession(m) /\ Base(m) \in SessionType
               /\ ~ m.first => Base(m) = session[p]
               /\ session' = IF m.first THEN [session EXCEPT ![p] = Base(m)] ELSE session
               /\ Call(m) \in CallType /\ CallOK(Call(m))
               /\ Call(m).kind = "decrypt" /\ Call(m).msg = m /\ Call(m).result = Outcome(m)
               /\ Outcome(m) \in ResultType
               /\ Outcome(m).error = "none" =>
                    /\ Base(m) \in SessionType /\ Outcome(m) = Receive(Base(m), m, fresh + 1)
                    /\ Outcome(m).session \in SessionType
               /\ calls' = [calls EXCEPT ![p] = calls[p] \cup {Call(m)}]
               /\ net' = net \ {m} /\ opk' = (opk /\ ~ (m.first /\ m.withOpk)) /\ fresh' = fresh + 2
               /\ \A q \in Parties : \A t \in Copies(q)' :
                    \/ t \in Copies(q)
                    \/ q = p /\ m.first /\ t = Base(m)
                    \/ q = p /\ Outcome(m).error = "none" /\ t = Outcome(m).session
<1> DEFINE p == Peer(m.from)
<1>1. m \in MsgType /\ m.from \in Parties /\ p \in Parties /\ p # m.from
  <2>1. m \in MsgType  BY DEF RatchetTypes
  <2>2. m.from \in Parties  BY <2>1 DEF MsgType
  <2> QED  BY <2>1, <2>2, Sides
<1>2. fresh \in Nat /\ opk \in BOOLEAN /\ session[p] \in {NoSession} \cup SessionType
  BY <1>1 DEF RatchetTypes
<1>3. Base(m) \in {NoSession} \cup SessionType /\ (m.first => Base(m) = ResponderSession(m) /\ Base(m) \in SessionType)
      /\ (~ m.first => Base(m) = session[p])
  <2>1. ResponderSession(m) \in SessionType  BY <1>1, <1>2, ResponderFacts
  <2> QED  BY <1>2, <2>1 DEF Base
<1>4. /\ Outcome(m) \in ResultType
      /\ Outcome(m).error = "none" =>
           /\ Base(m) \in SessionType /\ Outcome(m) = Receive(Base(m), m, fresh + 1)
           /\ Outcome(m).session \in SessionType
  <2>1. CASE Base(m).none
    <3>1. Outcome(m) = Throw("no session")  BY <2>1 DEF Outcome
    <3> QED  BY <3>1, ThrowType
  <2>2. CASE ~ Base(m).none
    <3>1. Outcome(m) = Receive(Base(m), m, fresh + 1)  BY <2>2 DEF Outcome
    <3>2. Base(m) \in SessionType  BY <1>3, <2>2, StoredType
    <3>3. fresh + 1 \in Nat  BY <1>2
    <3> QED  BY <1>1, <3>1, <3>2, <3>3, ReceiveFacts
  <2> QED  BY <2>1, <2>2
<1>5. /\ Call(m) \in CallType /\ Call(m).kind = "decrypt" /\ Call(m).msg = m /\ Call(m).result = Outcome(m)
  BY <1>1, <1>4 DEF Call, CallType
<1>6. CallOK(Call(m))  BY <1>4, <1>5 DEF CallOK, Stores
<1>7. /\ calls' = [calls EXCEPT ![p] = calls[p] \cup {Call(m)}]
      /\ session' = IF m.first THEN [session EXCEPT ![p] = Base(m)] ELSE session
      /\ net' = net \ {m} /\ opk' = (opk /\ ~ (m.first /\ m.withOpk)) /\ fresh' = fresh + 2
  BY DEF decrypt, Begin, Base, Outcome, Call
<1>8. ASSUME NEW q \in Parties, NEW t \in Copies(q)'
      PROVE  \/ t \in Copies(q)
             \/ q = p /\ m.first /\ t = Base(m)
             \/ q = p /\ Outcome(m).error = "none" /\ t = Outcome(m).session
  <2> HIDE DEF p
  <2>1. t \in CopiesOf(session'[q], calls'[q])  BY DEF Copies
  <2>2. CASE q # p
    <3>1. session'[q] = session[q] /\ calls'[q] = calls[q]  BY <1>7, <2>2 DEF RatchetTypes
    <3> QED  BY <2>1, <3>1 DEF Copies
  <2>3. CASE q = p
    <3>1. calls'[q] = calls[q] \cup {Call(m)}  BY <1>7, <2>3 DEF RatchetTypes
    <3>2. session'[q] = session[q] \/ (m.first /\ session'[q] = Base(m))
      BY <1>7, <2>3 DEF RatchetTypes
    <3>3. t \in CopiesOf(session'[q], calls[q]) \/ (Stores(Call(m)) /\ t = Call(m).result.session)
      <4>1. t \in CopiesOf(session'[q], calls[q] \cup {Call(m)})  BY <2>1, <3>1
      <4> QED  BY ONLY <4>1, CopiesBegin
    <3>4. t \in CopiesOf(session'[q], calls[q]) => t \in Copies(q) \/ (m.first /\ t = Base(m))
      BY <3>2, InCopies DEF Copies
    <3> QED  BY <1>5, <2>3, <3>3, <3>4 DEF Stores
  <2> QED  BY <2>2, <2>3
<1> QED  BY <1>1, <1>3, <1>4, <1>5, <1>6, <1>7, <1>8

LEMMA NextCases ==
    ASSUME [Next]_vars
    PROVE  \/ \E w \in BOOLEAN : initSessionFromBundle(w)
           \/ \E p \in Parties : encrypt(p)
           \/ \E m \in net : decrypt(m)
           \/ Ends
  BY DEF Next, Ends

LEMMA RatchetTypesInit == Init => RatchetTypes /\ Sizes
<1> SUFFICES ASSUME Init PROVE RatchetTypes /\ Sizes  OBVIOUS
<1>1. \A p \in Parties : session[p] = NoSession /\ calls[p] = {}  BY DEF Init
<1>2. RatchetTypes
  <2>1. used \in Seq(Key)  BY EmptySeq DEF Init
  <2>2. sent \in [Parties -> 0..MaxSent]  BY RatchetAssumption DEF Init
  <2>3. calls \in [Parties -> SUBSET CallType]  BY DEF Init
  <2>4. \A p \in Parties : IsFiniteSet(calls[p]) /\ \A c \in calls[p] : CallOK(c)  BY <1>1, FS_EmptySet
  <2> QED  BY <2>1, <2>2, <2>3, <2>4 DEF Init, RatchetTypes
<1>3. \A p \in Parties : Copies(p) = {}
  BY <1>1, InCopies, StoredType DEF Copies
<1> QED  BY <1>1, <1>2, <1>3 DEF Init, Sizes

LEMMA RatchetTypesStep ==
    ASSUME RatchetTypes, [Next]_vars
    PROVE  RatchetTypes'
<1> USE DEF RatchetTypes
<1>1. ASSUME NEW w \in BOOLEAN, initSessionFromBundle(w)
      PROVE  RatchetTypes'
  <2>1. InitiatorSession(w) \in SessionType /\ session' = [session EXCEPT ![Alice] = InitiatorSession(w)]
    BY <1>1, BundleStep
  <2>2. fresh' = fresh + 1 /\ UNCHANGED <<opk, calls, net, sent, used, opened, failed>>
    BY <1>1 DEF initSessionFromBundle
  <2> QED  BY <2>1, <2>2, Sides
<1>2. ASSUME NEW p \in Parties, encrypt(p)
      PROVE  RatchetTypes'
  <2>1. PICK call \in CallType : CallOK(call) /\ calls' = [calls EXCEPT ![p] = calls[p] \cup {call}]
    BY <1>2, EncryptStep
  <2>2. sent' = [sent EXCEPT ![p] = @ + 1] /\ sent[p] < MaxSent
        /\ UNCHANGED <<session, opk, net, fresh, used, opened, failed>>
    BY <1>2 DEF encrypt
  <2>3. sent' \in [Parties -> 0..MaxSent]  BY <2>2, RatchetAssumption
  <2>4. calls' \in [Parties -> SUBSET CallType]  BY <2>1
  <2>5. ASSUME NEW q \in Parties PROVE IsFiniteSet(calls'[q]) /\ \A c \in calls'[q] : CallOK(c)
    <3>1. calls'[q] \in {calls[q], calls[q] \cup {call}}  BY <2>1
    <3>2. IsFiniteSet(calls[q] \cup {call})  BY FS_AddElement
    <3> QED  BY <2>1, <3>1, <3>2
  <2> QED  BY <2>2, <2>3, <2>4, <2>5
<1>3. ASSUME NEW m \in net, decrypt(m)
      PROVE  RatchetTypes'
  <2> DEFINE p == Peer(m.from)
  <2>1. /\ p \in Parties /\ Call(m) \in CallType /\ CallOK(Call(m))
        /\ m.first => Base(m) \in SessionType
        /\ session' = IF m.first THEN [session EXCEPT ![p] = Base(m)] ELSE session
        /\ calls' = [calls EXCEPT ![p] = calls[p] \cup {Call(m)}]
        /\ net' = net \ {m} /\ opk' = (opk /\ ~ (m.first /\ m.withOpk)) /\ fresh' = fresh + 2
    BY <1>3, DecryptStep
  <2>2. UNCHANGED <<sent, used, opened, failed>>  BY <1>3 DEF decrypt
  <2> HIDE DEF p
  <2>3. session' \in [Parties -> {NoSession} \cup SessionType]  BY <2>1
  <2>4. calls' \in [Parties -> SUBSET CallType]  BY <2>1
  <2>5. ASSUME NEW q \in Parties PROVE IsFiniteSet(calls'[q]) /\ \A c \in calls'[q] : CallOK(c)
    <3>1. calls'[q] \in {calls[q], calls[q] \cup {Call(m)}}  BY <2>1
    <3>2. IsFiniteSet(calls[q] \cup {Call(m)})  BY FS_AddElement
    <3> QED  BY <2>1, <3>1, <3>2
  <2>6. opk' \in BOOLEAN  BY <2>1
  <2>7. net' \in SUBSET MsgType /\ fresh' \in Nat \ {0}  BY <2>1
  <2> QED  BY <2>2, <2>3, <2>4, <2>5, <2>6, <2>7
<1>4. CASE Ends
  <2>1. /\ \A p \in Parties : calls'[p] \subseteq calls[p]
        /\ session' \in [Parties -> {NoSession} \cup SessionType]
        /\ calls' \in [Parties -> SUBSET CallType]
        /\ opk' = opk /\ sent' = sent /\ fresh' = fresh
    BY <1>4, EndStep
  <2>2. \A p \in Parties : IsFiniteSet(calls'[p]) /\ \A c \in calls'[p] : CallOK(c)
    BY <2>1, FS_Subset
  <2>3. net' \in SUBSET MsgType /\ opened' \in SUBSET MsgType /\ used' \in Seq(Key)
    <3>1. CASE \E p \in Parties : \E call \in calls[p] :
                  encryptStores(p, call) \/ decryptStores(p, call) \/ decryptThrows(p, call)
      <4>0. PICK p \in Parties : \E call \in calls[p] :
                  encryptStores(p, call) \/ decryptStores(p, call) \/ decryptThrows(p, call)
        BY <3>1
      <4>1. PICK call \in calls[p] : encryptStores(p, call) \/ decryptStores(p, call) \/ decryptThrows(p, call)
        BY <4>0
      <4>2. call.msg \in MsgType /\ call.result.key \in Key
        <5>1. call \in CallType  BY <4>1
        <5>2. call.msg \in MsgType /\ call.result \in ResultType  BY <5>1 DEF CallType
        <5> QED  BY <5>2 DEF ResultType
      <4>3. \/ net' = net \cup {call.msg} /\ used' = Append(used, call.result.key) /\ opened' = opened
            \/ net' = net /\ used' = used /\ opened' \in {opened, opened \cup {call.msg}}
        BY <4>1 DEF encryptStores, decryptStores, decryptThrows
      <4>4. Append(used, call.result.key) \in Seq(Key)  BY <4>2
      <4> QED  BY <4>2, <4>3, <4>4
    <3>2. CASE (\E m \in net : Lose(m)) \/ UNCHANGED vars  BY <3>2 DEF Lose, vars
    <3> QED  BY <1>4, <3>1, <3>2 DEF Ends
  <2> QED  BY <2>1, <2>2, <2>3
<1> QED  BY <1>1, <1>2, <1>3, <1>4, NextCases

LEMMA SizedLater ==
    ASSUME NEW s \in SessionType, NEW f \in Nat, NEW g \in Nat, f <= g, Sized(s, f)
    PROVE  Sized(s, g)
<1>1. \A x \in DOMAIN s.skipped : x[1] \in Nat  BY CacheFacts DEF SessionType
<1> QED  BY <1>1 DEF Sized, SessionType

LEMMA SizesStep ==
    ASSUME RatchetTypes, Sizes, [Next]_vars
    PROVE  Sizes'
<1>0. /\ \A p \in Parties : \A s \in Copies(p) : s \in SessionType
      /\ fresh \in Nat /\ \A p \in Parties : sent[p] \in Nat
      /\ \A m \in net : m \in MsgType
      /\ \A p \in Parties : \A c \in calls[p] : c.msg \in MsgType
  <2>1. \A p \in Parties : \A s \in Copies(p) : s \in SessionType  BY CopyType
  <2>2. \A p \in Parties : \A c \in calls[p] : c \in CallType  BY DEF RatchetTypes
  <2>3. \A p \in Parties : \A c \in calls[p] : c.msg \in MsgType  BY <2>2 DEF CallType
  <2> QED  BY <2>1, <2>3 DEF RatchetTypes
<1>1. ASSUME NEW w \in BOOLEAN, initSessionFromBundle(w)
      PROVE  Sizes'
  <2> DEFINE s == InitiatorSession(w)
  <2>1. /\ s \in SessionType
        /\ \A p \in Parties : \A t \in Copies(p)' : t \in Copies(p) \/ (p = Alice /\ t = s)
    BY <1>1, BundleStep
  <2>2. /\ s.sendCount = 0 /\ s.prevSendCount = 0 /\ s.recvCount = 0 /\ s.ours = fresh /\ s.theirs = 0
        /\ DOMAIN s.skipped = {}
    BY <1>0, InitiatorFacts
  <2>3. fresh' = fresh + 1 /\ UNCHANGED <<calls, net, sent>>  BY <1>1 DEF initSessionFromBundle
  <2> HIDE DEF s
  <2>4. Sized(s, fresh + 1)  BY <1>0, <2>2, RatchetAssumption DEF Sized
  <2>5. ASSUME NEW p \in Parties, NEW t \in Copies(p)'
        PROVE  Sized(t, fresh') /\ t.sendCount <= sent'[p]
    <3>1. CASE t \in Copies(p)
      <4>1. Sized(t, fresh) /\ t.sendCount <= sent[p]  BY <3>1 DEF Sizes
      <4>2. fresh + 1 \in Nat /\ fresh <= fresh + 1 /\ t \in SessionType  BY <1>0, <3>1
      <4>3. Sized(t, fresh + 1)  BY <1>0, <4>1, <4>2, SizedLater
      <4> QED  BY <2>3, <4>1, <4>3
    <3>2. CASE p = Alice /\ t = s  BY <1>0, <2>2, <2>3, <2>4, <3>2
    <3> QED  BY <2>1, <3>1, <3>2
  <2>6. \A m \in MsgType : MsgSized(m, fresh) => MsgSized(m, fresh + 1)  BY <1>0 DEF MsgType, MsgSized
  <2> QED  BY <1>0, <2>3, <2>5, <2>6 DEF Sizes
<1>2. ASSUME NEW p \in Parties, encrypt(p)
      PROVE  Sizes'
  <2> DEFINE s == session[p]
             m == Message(p, s)
  <2>1. /\ s \in SessionType /\ s \in Copies(p)
        /\ \A q \in Parties : \A t \in Copies(q)' : t \in Copies(q) \/ (q = p /\ t = Advanced(s))
    BY <1>2, EncryptStep
  <2>2. \A q \in Parties : \A c \in calls'[q] : c \in calls[q] \/ c.msg = m
    <3>1. PICK call : call.msg = m /\ calls' = [calls EXCEPT ![p] = calls[p] \cup {call}]
      BY <1>2, EncryptStep
    <3> QED  BY <3>1 DEF RatchetTypes
  <2>3. sent' = [sent EXCEPT ![p] = @ + 1] /\ sent[p] < MaxSent /\ fresh' = fresh /\ net' = net
    BY <1>2 DEF encrypt
  <2>4. Sized(s, fresh) /\ s.sendCount <= sent[p]  BY <2>1 DEF Sizes
  <2>5. /\ m.rk = s.ours /\ m.n = s.sendCount /\ m.pn = s.prevSendCount
        /\ Advanced(s).sendCount = s.sendCount + 1
        /\ Advanced(s).prevSendCount = s.prevSendCount /\ Advanced(s).ours = s.ours
        /\ Advanced(s).theirs = s.theirs /\ Advanced(s).recvCount = s.recvCount
        /\ Advanced(s).skipped = s.skipped
    BY <1>0, <2>1, EncryptFacts
  <2>6. s.sendCount \in Nat /\ sent[p] \in Nat /\ MaxSent \in Nat
    BY <1>0, <2>1, RatchetAssumption DEF SessionType
  <2> HIDE DEF s, m
  <2>7. MsgSized(m, fresh)  BY <2>3, <2>4, <2>5, <2>6 DEF MsgSized, Sized
  <2>8. Sized(Advanced(s), fresh)  BY <2>3, <2>4, <2>5, <2>6 DEF Sized
  <2>9. ASSUME NEW q \in Parties, NEW t \in Copies(q)'
        PROVE  Sized(t, fresh') /\ t.sendCount <= sent'[q]
    <3>1. CASE t \in Copies(q)
      <4>1. Sized(t, fresh) /\ t.sendCount <= sent[q]  BY <3>1 DEF Sizes
      <4>2. t.sendCount \in Nat /\ sent[q] \in Nat  BY <1>0, <3>1 DEF SessionType
      <4>3. sent'[q] = sent[q] \/ sent'[q] = sent[q] + 1  BY <2>3 DEF RatchetTypes
      <4> QED  BY <2>3, <4>1, <4>2, <4>3
    <3>2. CASE q = p /\ t = Advanced(s)
      <4>1. sent'[q] = sent[p] + 1  BY <2>3, <3>2 DEF RatchetTypes
      <4> QED  BY <2>3, <2>4, <2>5, <2>6, <2>8, <3>2, <4>1
    <3> QED  BY <2>1, <3>1, <3>2 DEF s
  <2> QED  BY <2>2, <2>3, <2>7, <2>9 DEF Sizes
<1>3. ASSUME NEW m \in net, decrypt(m)
      PROVE  Sizes'
  <2> DEFINE p == Peer(m.from)
  <2>1. /\ m \in MsgType /\ p \in Parties
        /\ m.first => Base(m) = ResponderSession(m) /\ Base(m) \in SessionType
        /\ ~ m.first => Base(m) = session[p]
        /\ Call(m).msg = m
        /\ Outcome(m).error = "none" =>
             Base(m) \in SessionType /\ Outcome(m) = Receive(Base(m), m, fresh + 1)
        /\ calls' = [calls EXCEPT ![p] = calls[p] \cup {Call(m)}]
        /\ net' = net \ {m} /\ fresh' = fresh + 2
    BY <1>3, DecryptStep
  <2>2. \A q \in Parties : \A t \in Copies(q)' :
          \/ t \in Copies(q)
          \/ q = p /\ m.first /\ t = Base(m)
          \/ q = p /\ Outcome(m).error = "none" /\ t = Outcome(m).session
    BY <1>3, DecryptStep
  <2>3. sent' = sent  BY <1>3 DEF decrypt
  <2>4. MsgSized(m, fresh)  BY DEF Sizes
  <2> HIDE DEF p
  <2>5. m.first => Sized(Base(m), fresh + 2) /\ Base(m).sendCount = 0
    <3>1. SUFFICES ASSUME m.first PROVE Sized(Base(m), fresh + 2) /\ Base(m).sendCount = 0
      OBVIOUS
    <3> DEFINE s == ResponderSession(m)
    <3>2. /\ s.sendCount = 0 /\ s.prevSendCount = 0 /\ s.recvCount = 0 /\ s.ours = fresh /\ s.theirs = m.rk
          /\ DOMAIN s.skipped = {}
      BY <1>0, <2>1, ResponderFacts DEF RatchetTypes
    <3> HIDE DEF s
    <3>3. Base(m) = s  BY <2>1, <3>1 DEF s
    <3>4. m.rk \in Nat  BY <2>1 DEF MsgType
    <3>5. Sized(s, fresh + 2)
      BY <1>0, <2>4, <3>2, <3>4, RatchetAssumption DEF Sized, MsgSized
    <3> QED  BY <3>2, <3>3, <3>5
  <2>6. Outcome(m).error = "none" => Sized(Outcome(m).session, fresh + 2) /\ Outcome(m).session.sendCount <= sent[p]
    <3>1. SUFFICES ASSUME Outcome(m).error = "none"
                   PROVE  Sized(Outcome(m).session, fresh + 2) /\ Outcome(m).session.sendCount <= sent[p]
      OBVIOUS
    <3>2. Outcome(m) = Receive(Base(m), m, fresh + 1) /\ Base(m) \in SessionType  BY <2>1, <3>1
    <3>3. sent[p] \in Nat /\ Base(m).sendCount \in Nat /\ Outcome(m).session.sendCount \in Nat
      <4>1. Outcome(m).session \in SessionType  BY <1>3, <3>1, DecryptStep
      <4> QED  BY <1>0, <2>1, <3>2, <4>1 DEF SessionType
    <3>4. CASE ~ m.first
      <4>1. Base(m) = session[p] /\ ~ Base(m).none  BY <2>1, <3>2, <3>4 DEF SessionType
      <4>2. Base(m) \in Copies(p)  BY <4>1, InCopies DEF Copies
      <4>3. Sized(Base(m), fresh) /\ Base(m).sendCount <= sent[p]  BY <2>1, <4>2 DEF Sizes
      <4>4. Sized(Outcome(m).session, fresh + 2) /\ Outcome(m).session.sendCount <= Base(m).sendCount
        BY <1>0, <2>1, <2>4, <3>1, <3>2, <4>3, SizedReceive
      <4> QED  BY <3>3, <4>3, <4>4
    <3>5. CASE m.first
      <4> DEFINE r == TakeKey(Base(m), m)
      <4>1. Base(m).theirs = m.rk  BY <1>0, <2>1, <3>5, ResponderFacts DEF RatchetTypes
      <4>2. Outcome(m) = r  BY <3>2, <4>1 DEF Receive
      <4>3. MsgSized(m, fresh + 2)  BY <1>0, <2>1, <2>4 DEF MsgSized, MsgType
      <4>4. fresh + 2 \in Nat  BY <1>0
      <4>5. Sized(r.session, fresh + 2) /\ r.session.sendCount = Base(m).sendCount
        BY <2>1, <2>5, <3>1, <3>2, <3>5, <4>2, <4>3, <4>4, SizedTake
      <4> QED  BY <2>5, <3>3, <3>5, <4>2, <4>5
    <3> QED  BY <3>4, <3>5
  <2>7. ASSUME NEW q \in Parties, NEW t \in Copies(q)'
        PROVE  Sized(t, fresh') /\ t.sendCount <= sent'[q]
    <3>1. CASE t \in Copies(q)
      <4>1. Sized(t, fresh) /\ t.sendCount <= sent[q]  BY <3>1 DEF Sizes
      <4>2. fresh + 2 \in Nat /\ fresh <= fresh + 2 /\ t \in SessionType  BY <1>0, <3>1
      <4>3. Sized(t, fresh + 2)  BY <1>0, <4>1, <4>2, SizedLater
      <4> QED  BY <2>1, <2>3, <4>1, <4>3
    <3>2. CASE q = p /\ m.first /\ t = Base(m)  BY <1>0, <2>1, <2>3, <2>5, <3>2
    <3>3. CASE q = p /\ Outcome(m).error = "none" /\ t = Outcome(m).session  BY <2>1, <2>3, <2>6, <3>3
    <3> QED  BY <2>2, <3>1, <3>2, <3>3
  <2>8. \A o \in MsgType : MsgSized(o, fresh) => MsgSized(o, fresh + 2)  BY <1>0 DEF MsgType, MsgSized
  <2>9. \A q \in Parties : \A c \in calls'[q] : MsgSized(c.msg, fresh')
    <3>1. \A q \in Parties : \A c \in calls'[q] : c \in calls[q] \/ c = Call(m)  BY <2>1 DEF RatchetTypes
    <3> QED  BY <1>0, <2>1, <2>4, <2>8, <3>1 DEF Sizes
  <2> QED  BY <1>0, <2>1, <2>7, <2>8, <2>9 DEF Sizes
<1>4. CASE Ends
  <2>1. /\ \A p \in Parties : Copies(p)' \subseteq Copies(p) /\ calls'[p] \subseteq calls[p]
        /\ sent' = sent /\ fresh' = fresh
    BY <1>4, EndStep
  <2>2. \A m \in net' : m \in net \/ \E p \in Parties : \E c \in calls[p] : m = c.msg
    BY <1>4 DEF Ends, encryptStores, decryptStores, decryptThrows, Lose, vars
  <2> QED  BY <2>1, <2>2 DEF Sizes
<1> QED  BY <1>1, <1>2, <1>3, <1>4, NextCases

(***************************************************************************)
(* No key is used without an encrypt that was counted.                     *)
(***************************************************************************)
EncryptsIn(C) == {c \in C : c.kind = "encrypt"}
Counted ==
    Len(used) + Cardinality(EncryptsIn(calls[Alice])) + Cardinality(EncryptsIn(calls[Bob]))
        <= sent[Alice] + sent[Bob]

LEMMA CountedStep ==
    ASSUME RatchetTypes, Counted, [Next]_vars
    PROVE  Counted'
<1> DEFINE n(p) == Cardinality(EncryptsIn(calls[p]))
           nn(p) == Cardinality(EncryptsIn(calls'[p]))
<1>0. /\ \A p \in Parties : IsFiniteSet(EncryptsIn(calls[p])) /\ n(p) \in Nat /\ sent[p] \in Nat
      /\ used \in Seq(Key) /\ Len(used) \in Nat
  <2>1. \A p \in Parties : IsFiniteSet(EncryptsIn(calls[p]))
    BY FS_Subset DEF RatchetTypes, EncryptsIn
  <2> QED  BY <2>1, FS_CardinalityType DEF RatchetTypes
<1> SUFFICES ASSUME Len(used) + n(Alice) + n(Bob) <= sent[Alice] + sent[Bob]
             PROVE  Len(used') + nn(Alice) + nn(Bob) <= sent'[Alice] + sent'[Bob]
  BY DEF Counted
<1>1. ASSUME \A p \in Parties : EncryptsIn(calls'[p]) = EncryptsIn(calls[p]), used' = used, sent' = sent
      PROVE  Len(used') + nn(Alice) + nn(Bob) <= sent'[Alice] + sent'[Bob]
  BY <1>1, Sides
<1>2. ASSUME NEW w \in BOOLEAN, initSessionFromBundle(w)
      PROVE  Len(used') + nn(Alice) + nn(Bob) <= sent'[Alice] + sent'[Bob]
  BY <1>1, <1>2 DEF initSessionFromBundle
<1>3. ASSUME NEW p \in Parties, encrypt(p)
      PROVE  Len(used') + nn(Alice) + nn(Bob) <= sent'[Alice] + sent'[Bob]
  <2>1. PICK call : call.kind = "encrypt" /\ calls' = [calls EXCEPT ![p] = calls[p] \cup {call}]
    BY <1>3, EncryptStep
  <2>2. sent' = [sent EXCEPT ![p] = @ + 1] /\ used' = used  BY <1>3 DEF encrypt
  <2>3. EncryptsIn(calls'[p]) = EncryptsIn(calls[p]) \cup {call}
    <3>1. calls'[p] = calls[p] \cup {call}  BY <2>1 DEF RatchetTypes
    <3> QED  BY <2>1, <3>1 DEF EncryptsIn
  <2>4. nn(p) \in Nat /\ nn(p) <= n(p) + 1
    <3> DEFINE E == EncryptsIn(calls[p])
    <3>1. IsFiniteSet(E) /\ Cardinality(E) \in Nat  BY <1>0
    <3>2. IsFiniteSet(E \cup {call}) /\ Cardinality(E \cup {call}) \in {Cardinality(E), Cardinality(E) + 1}
      <4> HIDE DEF E
      <4>1. E \cup {call} = E \/ call \notin E  OBVIOUS
      <4> QED  BY <3>1, <4>1, FS_AddElement
    <3> QED  BY <2>3, <3>1, <3>2
  <2>5. \A q \in Parties : q # p => calls'[q] = calls[q] /\ sent'[q] = sent[q]
    BY <2>1, <2>2 DEF RatchetTypes
  <2>6. sent'[p] = sent[p] + 1  BY <2>2 DEF RatchetTypes
  <2>7. Parties = {Alice, Bob} /\ Alice # Bob  BY Sides DEF Parties
  <2>8. \A q \in Parties : q # p => nn(q) = n(q)  BY <2>5
  <2> HIDE DEF n, nn
  <2>9. CASE p = Alice  BY <1>0, <2>2, <2>4, <2>5, <2>6, <2>7, <2>8, <2>9
  <2>10. CASE p = Bob  BY <1>0, <2>2, <2>4, <2>5, <2>6, <2>7, <2>8, <2>10
  <2> QED  BY <2>7, <2>9, <2>10
<1>4. ASSUME NEW m \in net, decrypt(m)
      PROVE  Len(used') + nn(Alice) + nn(Bob) <= sent'[Alice] + sent'[Bob]
  <2>1. Call(m).kind = "decrypt" /\ calls' = [calls EXCEPT ![Peer(m.from)] = calls[Peer(m.from)] \cup {Call(m)}]
    BY <1>4, DecryptStep
  <2>2. \A p \in Parties : EncryptsIn(calls'[p]) = EncryptsIn(calls[p])
    <3>1. \A p \in Parties : calls'[p] \in {calls[p], calls[p] \cup {Call(m)}}  BY <2>1 DEF RatchetTypes
    <3> QED  BY <2>1, <3>1 DEF EncryptsIn
  <2> QED  BY <1>1, <1>4, <2>2 DEF decrypt
<1>5. ASSUME NEW p \in Parties, NEW call \in calls[p], encryptStores(p, call)
      PROVE  Len(used') + nn(Alice) + nn(Bob) <= sent'[Alice] + sent'[Bob]
  <2>1. /\ call.kind = "encrypt" /\ calls' = [calls EXCEPT ![p] = calls[p] \ {call}]
        /\ used' = Append(used, call.result.key) /\ sent' = sent
    BY <1>5 DEF encryptStores, Finish
  <2>2. Len(used') = Len(used) + 1
    <3>1. call \in CallType  BY DEF RatchetTypes
    <3>2. call.result \in ResultType  BY <3>1 DEF CallType
    <3>3. call.result.key \in Key  BY <3>2 DEF ResultType
    <3> QED  BY <1>0, <2>1, <3>3
  <2>3. EncryptsIn(calls'[p]) = EncryptsIn(calls[p]) \ {call} /\ call \in EncryptsIn(calls[p])
    <3>1. calls'[p] = calls[p] \ {call}  BY <2>1 DEF RatchetTypes
    <3> QED  BY <2>1, <3>1 DEF EncryptsIn
  <2>4. nn(p) = n(p) - 1
    BY <1>0, <2>3, FS_RemoveElement
  <2>5. \A q \in Parties : q # p => nn(q) = n(q)
    <3>1. \A q \in Parties : q # p => calls'[q] = calls[q]  BY <2>1 DEF RatchetTypes
    <3> QED  BY <3>1
  <2>6. Parties = {Alice, Bob} /\ Alice # Bob  BY Sides DEF Parties
  <2> HIDE DEF n, nn
  <2>7. CASE p = Alice  BY <1>0, <2>1, <2>2, <2>4, <2>5, <2>6, <2>7
  <2>8. CASE p = Bob  BY <1>0, <2>1, <2>2, <2>4, <2>5, <2>6, <2>8
  <2> QED  BY <2>6, <2>7, <2>8
<1>6. ASSUME NEW p \in Parties, NEW call \in calls[p], decryptStores(p, call) \/ decryptThrows(p, call)
      PROVE  Len(used') + nn(Alice) + nn(Bob) <= sent'[Alice] + sent'[Bob]
  <2>1. /\ call.kind = "decrypt" /\ calls' = [calls EXCEPT ![p] = calls[p] \ {call}]
        /\ used' = used /\ sent' = sent
    BY <1>6 DEF decryptStores, decryptThrows, Finish
  <2>2. \A q \in Parties : EncryptsIn(calls'[q]) = EncryptsIn(calls[q])
    <3>1. \A q \in Parties : calls'[q] \in {calls[q], calls[q] \ {call}}  BY <2>1 DEF RatchetTypes
    <3> QED  BY <2>1, <3>1 DEF EncryptsIn
  <2> QED  BY <1>1, <2>1, <2>2
<1>7. CASE (\E m \in net : Lose(m)) \/ UNCHANGED vars
  BY <1>1, <1>7 DEF Lose, vars
<1> QED  BY <1>2, <1>3, <1>4, <1>5, <1>6, <1>7, NextCases DEF Ends

(***************************************************************************)
(* Sizes and types of Ratchet, with any number of calls in flight: the     *)
(* counts, the cache and the keys used stay within what was sent.          *)
(***************************************************************************)
(***************************************************************************)
(* The two history flags: nothing takes an overlap or a crossing back.     *)
(***************************************************************************)
Flags == overlaps \in 0..MaxOverlaps /\ crossed \in BOOLEAN

LEMMA FlagsInit == Init => Flags
<1> SUFFICES ASSUME Init PROVE Flags  OBVIOUS
<1>1. overlaps = 0 /\ crossed = FALSE  BY DEF Init
<1>2. 0 \in 0..MaxOverlaps  BY RatchetAssumption
<1>3. overlaps \in 0..MaxOverlaps  BY <1>1, <1>2
<1>4. crossed \in BOOLEAN  BY <1>1
<1> QED  BY <1>3, <1>4 DEF Flags

LEMMA FlagsStep ==
    ASSUME Flags, [Next]_vars
    PROVE  Flags' /\ (overlaps' = 0 => overlaps = 0) /\ (crossed => crossed')
<1> USE DEF Flags
<1>0. overlaps \in Nat /\ MaxOverlaps \in Nat  BY RatchetAssumption
<1>1. ASSUME NEW p \in Parties, NEW call, Begin(p, call)
      PROVE  overlaps' \in 0..MaxOverlaps /\ (overlaps' = 0 => overlaps = 0)
  <2>1. (calls[p] # {} => overlaps < MaxOverlaps)
        /\ overlaps' = IF calls[p] = {} THEN overlaps ELSE overlaps + 1
    BY <1>1 DEF Begin
  <2>2. CASE calls[p] = {}  BY <2>1, <2>2
  <2>3. CASE calls[p] # {}  BY <1>0, <2>1, <2>3
  <2> QED  BY <2>2, <2>3
<1>2. CASE \E w \in BOOLEAN : initSessionFromBundle(w)  BY <1>2 DEF initSessionFromBundle
<1>3. CASE \E p \in Parties : encrypt(p)
  <2>1. PICK p \in Parties : encrypt(p)  BY <1>3
  <2>2. (\E call : Begin(p, call)) /\ crossed' = crossed  BY <2>1 DEF encrypt
  <2> QED  BY <1>1, <2>2
<1>4. ASSUME NEW m \in net, decrypt(m)
      PROVE  Flags' /\ (overlaps' = 0 => overlaps = 0) /\ (crossed => crossed')
  <2>1. (\E call : Begin(Peer(m.from), call)) /\ crossed' = (crossed \/ Crosses(m))
    BY <1>4 DEF decrypt
  <2>2. Peer(m.from) \in Parties  BY DEF Peer, Parties
  <2>3. crossed' \in BOOLEAN /\ (crossed => crossed')  BY <2>1 DEF Crosses
  <2> QED  BY <1>1, <2>1, <2>2, <2>3
<1>5. CASE Ends
  BY <1>5 DEF Ends, encryptStores, decryptStores, decryptThrows, Lose, vars
<1> QED  BY <1>2, <1>3, <1>4, <1>5, NextCases

THEOREM RatchetTypeCorrect == Spec => []TypeOK
<1> DEFINE Inv == RatchetTypes /\ Sizes /\ Counted /\ Flags
<1>1. Init => Inv
  <2> SUFFICES ASSUME Init PROVE Inv  OBVIOUS
  <2>1. RatchetTypes /\ Sizes  BY RatchetTypesInit
  <2>2. Counted
    <3>1. \A p \in Parties : calls[p] = {} /\ sent[p] = 0  BY DEF Init
    <3>2. EncryptsIn({}) = {} /\ Cardinality({}) = 0  BY FS_EmptySet DEF EncryptsIn
    <3>3. Len(used) = 0  BY EmptySeq DEF Init
    <3>4. /\ Cardinality(EncryptsIn(calls[Alice])) = 0 /\ Cardinality(EncryptsIn(calls[Bob])) = 0
          /\ sent[Alice] = 0 /\ sent[Bob] = 0
      BY <3>1, <3>2, Sides
    <3> QED  BY <3>3, <3>4 DEF Counted
  <2>3. Flags  BY FlagsInit
  <2> QED  BY <2>1, <2>2, <2>3
<1>2. Inv /\ [Next]_vars => Inv'
  BY RatchetTypesStep, SizesStep, CountedStep, FlagsStep
<1>3. Inv => TypeOK
  <2> SUFFICES ASSUME Inv PROVE TypeOK  OBVIOUS
  <2>1. ASSUME NEW p \in Parties, ~ session[p].none
        PROVE  /\ session[p].sendCount <= MaxSent /\ session[p].recvCount <= MaxSent
               /\ session[p].ours \in 0..fresh /\ session[p].theirs \in 0..fresh
               /\ \A x \in DOMAIN session[p].skipped : x \in (0..fresh) \X (0..MaxSent)
    <3>1. session[p] \in Copies(p)  BY <2>1, InCopies DEF Copies
    <3>2. session[p] \in SessionType /\ Sized(session[p], fresh)  BY <3>1, CopyType DEF Sizes
    <3>3. fresh \in Nat /\ MaxSent \in Nat  BY RatchetAssumption DEF RatchetTypes
    <3>4. ASSUME NEW x \in DOMAIN session[p].skipped PROVE x \in (0..fresh) \X (0..MaxSent)
      <4>1. x \in Nat \X Nat  BY <3>2, CacheFacts DEF SessionType
      <4>2. x[1] < fresh /\ x[2] <= MaxSent  BY <3>2 DEF Sized
      <4> QED  BY <3>3, <4>1, <4>2
    <3>5. session[p].ours \in Nat /\ session[p].theirs \in Nat  BY <3>2 DEF SessionType
    <3>6. /\ session[p].sendCount <= MaxSent /\ session[p].recvCount <= MaxSent
          /\ session[p].ours < fresh /\ session[p].theirs < fresh
      BY <3>2 DEF Sized
    <3> QED  BY <3>3, <3>4, <3>5, <3>6
  <2>2. Len(used) <= sent[Alice] + sent[Bob]
    <3> DEFINE a == Cardinality(EncryptsIn(calls[Alice]))
               b == Cardinality(EncryptsIn(calls[Bob]))
    <3>1. a \in Nat /\ b \in Nat
      <4>1. \A p \in Parties : IsFiniteSet(EncryptsIn(calls[p]))
        BY FS_Subset DEF RatchetTypes, EncryptsIn
      <4> QED  BY <4>1, Sides, FS_CardinalityType
    <3>2. Len(used) + a + b <= sent[Alice] + sent[Bob]  BY DEF Counted
    <3>3. Len(used) \in Nat /\ sent[Alice] \in Nat /\ sent[Bob] \in Nat  BY Sides DEF RatchetTypes
    <3> HIDE DEF a, b
    <3> QED  BY <3>1, <3>2, <3>3
  <2> QED  BY <2>1, <2>2 DEF TypeOK, RatchetTypes, Flags
<1> QED  BY <1>1, <1>2, <1>3, PTL DEF Spec

-----------------------------------------------------------------------------
(* One call at a time.                                                     *)

(***************************************************************************)
(* With one call at a time an encrypt works on the session that is stored. *)
(***************************************************************************)
NextKey(s) == MessageKey(s.sendChain, s.sendCount)
Encrypts(c, p, s) ==
    /\ ~ s.none
    /\ c.result.session = Advanced(s) /\ c.result.key = NextKey(s)
    /\ c.msg.from = p /\ c.msg.first = (s.pending /\ s.sendCount = 0) /\ c.msg.withOpk = s.withOpk
    /\ c.msg.rk = s.ours /\ c.msg.n = s.sendCount /\ c.msg.pn = s.prevSendCount /\ c.msg.key = NextKey(s)

OneCall ==
    \A p \in Parties :
        /\ \A c, d \in calls[p] : c = d
        /\ \A c \in calls[p] : c.kind = "encrypt" => Encrypts(c, p, session[p])

LEMMA NoneInFlight ==
    ASSUME Flags, overlaps' = 0, NEW p \in Parties, NEW call, Begin(p, call)
    PROVE  calls[p] = {}
<1>1. overlaps \in Nat  BY DEF Flags
<1>2. overlaps' = IF calls[p] = {} THEN overlaps ELSE overlaps + 1  BY DEF Begin
<1> QED  BY <1>1, <1>2

LEMMA OneCallStep ==
    ASSUME Flags, overlaps' = 0, RatchetTypes, OneCall, [Next]_vars
    PROVE  OneCall'
<1>1. ASSUME NEW w \in BOOLEAN, initSessionFromBundle(w)
      PROVE  OneCall'
  <2>1. session[Alice].none /\ session' = [session EXCEPT ![Alice] = InitiatorSession(w)] /\ calls' = calls
    BY <1>1 DEF initSessionFromBundle
  <2>2. \A c \in calls[Alice] : c.kind # "encrypt"  BY <2>1, Sides DEF OneCall, Encrypts
  <2>3. \A p \in Parties : p # Alice => session'[p] = session[p]  BY <2>1 DEF RatchetTypes
  <2> QED  BY <2>1, <2>2, <2>3 DEF OneCall
<1>2. ASSUME NEW p \in Parties, encrypt(p)
      PROVE  OneCall'
  <2> DEFINE s == session[p]
  <2>1. PICK call : /\ s \in SessionType
                    /\ call.result.session = Advanced(s) /\ call.msg = Message(p, s)
                    /\ call.result.key = Message(p, s).key
                    /\ calls' = [calls EXCEPT ![p] = calls[p] \cup {call}]
    BY <1>2, EncryptStep
  <2>2. calls[p] = {}
    <3>1. \E c : Begin(p, c)  BY <1>2 DEF encrypt
    <3> QED  BY <3>1, NoneInFlight
  <2>3. session' = session /\ ~ s.none  BY <1>2 DEF encrypt
  <2>4. Encrypts(call, p, s)
    <3> DEFINE m == Message(p, s)
    <3>1. sent[p] \in Nat  BY DEF RatchetTypes
    <3>2. /\ m \in MsgType /\ m.from = p /\ m.rk = s.ours
          /\ m.n = s.sendCount /\ m.pn = s.prevSendCount /\ m.withOpk = s.withOpk
          /\ m.key = MessageKey(s.sendChain, s.sendCount)
          /\ m.first <=> s.pending /\ s.sendCount = 0
      BY <2>1, <3>1, EncryptFacts
    <3>3. m.first = (s.pending /\ s.sendCount = 0)  BY DEF Message
    <3> HIDE DEF m, s
    <3> QED  BY <2>1, <2>3, <3>2, <3>3 DEF Encrypts, NextKey, m
  <2> HIDE DEF s
  <2>5. \A q \in Parties : calls'[q] = IF q = p THEN {call} ELSE calls[q]
    BY <2>1, <2>2 DEF RatchetTypes
  <2> QED  BY <2>3, <2>4, <2>5 DEF OneCall, s
<1>3. ASSUME NEW m \in net, decrypt(m)
      PROVE  OneCall'
  <2> DEFINE p == Peer(m.from)
  <2>1. /\ p \in Parties /\ Call(m).kind = "decrypt"
        /\ session' = IF m.first THEN [session EXCEPT ![p] = Base(m)] ELSE session
        /\ calls' = [calls EXCEPT ![p] = calls[p] \cup {Call(m)}]
    BY <1>3, DecryptStep
  <2>2. calls[p] = {}
    <3>1. \E c : Begin(p, c)  BY <1>3 DEF decrypt
    <3> QED  BY <2>1, <3>1, NoneInFlight
  <2> HIDE DEF p
  <2>3. \A q \in Parties : calls'[q] = IF q = p THEN {Call(m)} ELSE calls[q]
    BY <2>1, <2>2 DEF RatchetTypes
  <2>4. \A q \in Parties : q # p => session'[q] = session[q]  BY <2>1 DEF RatchetTypes
  <2> QED  BY <2>1, <2>3, <2>4 DEF OneCall
<1>4. CASE Ends
  <2>1. ASSUME NEW p \in Parties, NEW call \in calls[p],
               encryptStores(p, call) \/ decryptStores(p, call) \/ decryptThrows(p, call)
        PROVE  OneCall'
    <3>1. /\ calls' = [calls EXCEPT ![p] = calls[p] \ {call}]
          /\ session' = session \/ session' = [session EXCEPT ![p] = call.result.session]
      BY <2>1 DEF encryptStores, decryptStores, decryptThrows, Finish
    <3>2. calls'[p] = {}  BY <3>1 DEF RatchetTypes, OneCall
    <3>3. \A q \in Parties : q # p => calls'[q] = calls[q] /\ session'[q] = session[q]
      BY <3>1 DEF RatchetTypes
    <3> QED  BY <3>2, <3>3 DEF OneCall
  <2>2. CASE (\E m \in net : Lose(m)) \/ UNCHANGED vars
    BY <2>2 DEF Lose, vars, OneCall
  <2> QED  BY <1>4, <2>1, <2>2 DEF Ends
<1> QED  BY <1>1, <1>2, <1>3, <1>4, NextCases

-----------------------------------------------------------------------------
(* Fresh keys.                                                             *)

(***************************************************************************)
(* The last step of a chain is made from key pairs before f; one with a    *)
(* key pair from f on is a chain nobody knows.                             *)
(***************************************************************************)
Known(chain, f) == Len(chain) > 1 /\ \A x \in chain[Len(chain)] : x \in Nat /\ x < f
Novel(chain, f, g) == Known(chain, g) /\ \E x \in chain[Len(chain)] : x >= f

NoReuse == \A i, j \in DOMAIN used : used[i] = used[j] => i = j

KeysFresh ==
    /\ \A i \in DOMAIN used : Known(used[i].chain, fresh)
    /\ \A p \in Parties : \A s \in Copies(p) :
         /\ Known(s.sendChain, fresh)
         /\ \A i \in DOMAIN used : used[i].chain = s.sendChain => used[i].steps < s.sendCount
         /\ \A t \in Copies(Peer(p)) : t.sendChain # s.sendChain
    /\ NoReuse

(***************************************************************************)
(* What a step may do to a sending chain: take it over and go on, or start *)
(* a novel one; one party at most does the latter.                         *)
(***************************************************************************)
Inherits(p, t) == \E s \in Copies(p) : t.sendChain = s.sendChain /\ t.sendCount >= s.sendCount

LEMMA TakeSends ==
    ASSUME NEW s \in SessionType, NEW m \in MsgType, TakeKey(s, m).error = "none"
    PROVE  SameSending(s, TakeKey(s, m).session)
<1>1. \/ Cached(s, m, TakeKey(s, m)) \/ Derived(s, m, TakeKey(s, m))  BY TakeFacts
<1> QED  BY <1>1 DEF Cached, Derived

LEMMA SteppedFacts ==
    ASSUME NEW s \in SessionType, NEW m \in MsgType, NEW new \in Nat
    PROVE  LET a == skipMessageKeys(s, m.pn)
               t == Stepped(s, m, new)
               root == kdfRootKey(s.rootKey, dh(s.ours, m.rk))
           IN  /\ a \in SessionType /\ t \in SessionType
               /\ t.recvChain = root /\ t.recvSteps = 0 /\ t.recvCount = 0
               /\ t.rootKey = kdfRootKey(root, dh(new, m.rk)) /\ t.sendChain = t.rootKey
               /\ t.prevSendCount = s.sendCount /\ t.sendCount = 0
               /\ t.ours = new /\ t.theirs = m.rk
               /\ t.skipped = a.skipped /\ t.pending = s.pending /\ t.withOpk = s.withOpk
               /\ Len(root) = Len(s.rootKey) + 1 /\ Len(t.rootKey) = Len(s.rootKey) + 2
               /\ root[Len(root)] = {s.ours, m.rk} /\ t.rootKey[Len(t.rootKey)] = {new, m.rk}
               /\ root \in Path /\ root # NoChain
<1> DEFINE a == skipMessageKeys(s, m.pn)
           t == Stepped(s, m, new)
           root == kdfRootKey(s.rootKey, dh(s.ours, m.rk))
           root2 == kdfRootKey(root, dh(new, m.rk))
<1>0. m.pn \in Nat /\ m.rk \in Nat /\ s.rootKey \in Path /\ s.ours \in Nat  BY DEF SessionType, MsgType
<1>1. a \in SessionType /\ SameSending(s, a)  BY <1>0, SkipFacts
<1>2. root \in Path /\ Len(root) = Len(s.rootKey) + 1 /\ root[Len(s.rootKey) + 1] = {s.ours, m.rk} /\ root # NoChain
  <2>1. PICK c \in Path, x \in Nat, y \in Nat : c = s.rootKey /\ x = s.ours /\ y = m.rk  BY <1>0
  <2>2. /\ kdfRootKey(c, dh(x, y)) \in Path
        /\ Len(kdfRootKey(c, dh(x, y))) = Len(c) + 1
        /\ kdfRootKey(c, dh(x, y))[Len(c) + 1] = {x, y}
        /\ kdfRootKey(c, dh(x, y)) # NoChain
    BY ONLY RootFacts, c \in Path, x \in Nat, y \in Nat
  <2> QED  BY <2>1, <2>2
<1>3. t = DHRatchet(a, m, new)  BY DEF Stepped
<1>4. root = kdfRootKey(a.rootKey, dh(a.ours, m.rk))  BY <1>1 DEF SameSending
<1> HIDE DEF a, t, root
<1>5. root2 \in Path /\ Len(root2) = Len(root) + 1 /\ root2[Len(root) + 1] = {new, m.rk}
  <2>1. PICK c \in Path, y \in Nat : c = root /\ y = m.rk  BY <1>0, <1>2
  <2>2. /\ kdfRootKey(c, dh(new, y)) \in Path
        /\ Len(kdfRootKey(c, dh(new, y))) = Len(c) + 1
        /\ kdfRootKey(c, dh(new, y))[Len(c) + 1] = {new, y}
    BY ONLY RootFacts, c \in Path, new \in Nat, y \in Nat
  <2> QED  BY <2>1, <2>2
<1>6. /\ t \in SessionType
      /\ t.recvChain = root /\ t.recvSteps = 0 /\ t.recvCount = 0
      /\ t.rootKey = root2 /\ t.sendChain = t.rootKey
      /\ t.prevSendCount = a.sendCount /\ t.sendCount = 0
      /\ t.ours = new /\ t.theirs = m.rk
      /\ t.skipped = a.skipped /\ t.pending = a.pending /\ t.withOpk = a.withOpk
  BY ONLY <1>1, <1>3, <1>4, RatchetFacts, m \in MsgType, new \in Nat
<1> HIDE DEF root2
<1>7. Len(s.rootKey) \in Nat  BY <1>0 DEF Path
<1>8. Len(root2) = Len(s.rootKey) + 2  BY <1>2, <1>5, <1>7
<1> QED  BY <1>1, <1>2, <1>5, <1>6, <1>8 DEF SameSending, a, t, root, root2

LEMMA NovelLink ==
    ASSUME NEW c \in Path, NEW n \in Nat, n > 1, Len(c) = n, NEW f \in Nat, NEW g \in Nat,
           NEW x \in Nat, NEW y \in Nat, c[n] = {x, y}, f <= x, x < g, y < g
    PROVE  Novel(c, f, g)
  BY DEF Novel, Known

LEMMA NovelIsNew ==
    ASSUME NEW f \in Nat, NEW g, NEW c, NEW d, Novel(c, f, g), Known(d, f)
    PROVE  c # d
<1>1. SUFFICES ASSUME c = d PROVE FALSE  OBVIOUS
<1>2. PICK x \in c[Len(c)] : x >= f  BY DEF Novel
<1>3. x < f /\ x \in Nat  BY <1>1, <1>2 DEF Known
<1> QED  BY <1>2, <1>3

LEMMA ReceiveSends ==
    ASSUME NEW s \in SessionType, NEW m \in MsgType, NEW f \in Nat, m.rk < f,
           Receive(s, m, f + 1).error = "none"
    PROVE  LET t == Receive(s, m, f + 1).session
           IN  \/ t.sendChain = s.sendChain /\ t.sendCount = s.sendCount
               \/ Novel(t.sendChain, f, f + 2)
<1> DEFINE t == Receive(s, m, f + 1).session
<1>0. f + 1 \in Nat /\ f + 2 \in Nat /\ m.rk \in Nat  BY DEF MsgType
<1>1. CASE s.theirs = m.rk
  <2>1. Receive(s, m, f + 1) = TakeKey(s, m)  BY <1>0, <1>1, ReceiveFacts
  <2> QED  BY <2>1, TakeSends DEF SameSending
<1>2. CASE s.theirs # m.rk
  <2> DEFINE a == Stepped(s, m, f + 1)
  <2>1. Receive(s, m, f + 1) = TakeKey(a, m) /\ a \in SessionType
    <3>1. Receive(s, m, f + 1) # Throw("skip")  BY ThrowType
    <3> QED  BY <1>0, <1>2, <3>1, ReceiveFacts
  <2>2. a.sendChain = a.rootKey /\ a.rootKey \in Path /\ a.rootKey[Len(a.rootKey)] = {f + 1, m.rk}
        /\ Len(a.rootKey) = Len(s.rootKey) + 2
    <3>1. PICK new \in Nat : new = f + 1  BY <1>0
    <3>2. LET b == Stepped(s, m, new)
          IN  b.sendChain = b.rootKey /\ b.rootKey[Len(b.rootKey)] = {new, m.rk}
              /\ Len(b.rootKey) = Len(s.rootKey) + 2
      BY ONLY SteppedFacts, s \in SessionType, m \in MsgType, new \in Nat
    <3>3. a.rootKey \in Path  BY <2>1 DEF SessionType
    <3> QED  BY <3>1, <3>2, <3>3
  <2> HIDE DEF a
  <2>3. SameSending(a, TakeKey(a, m).session)  BY <2>1, TakeSends
  <2>4. Len(s.rootKey) \in Nat  BY DEF SessionType, Path
  <2>5. Novel(a.rootKey, f, f + 2)
    <3>1. /\ Len(a.rootKey) \in Nat /\ Len(a.rootKey) > 1  BY <2>2, <2>4
    <3>2. f <= f + 1 /\ f + 1 < f + 2 /\ m.rk < f + 2  BY <1>0
    <3> QED  BY <1>0, <2>2, <3>1, <3>2, NovelLink
  <2> QED  BY <2>1, <2>2, <2>3, <2>5 DEF SameSending
<1> QED  BY <1>1, <1>2

LEMMA SendsStep ==
    ASSUME RatchetTypes, Sizes, [Next]_vars
    PROVE  /\ \E p0 \in Parties : \A p \in Parties : \A t \in Copies(p)' :
                Inherits(p, t) \/ (p = p0 /\ Novel(t.sendChain, fresh, fresh'))
           /\ fresh' \in Nat /\ fresh' >= fresh
<1>0. /\ \A p \in Parties : \A s \in Copies(p) : s \in SessionType /\ s.sendCount \in Nat /\ Inherits(p, s)
      /\ fresh \in Nat
  <2>1. \A p \in Parties : \A s \in Copies(p) : s \in SessionType  BY CopyType
  <2>2. \A p \in Parties : \A s \in Copies(p) : s.sendCount \in Nat  BY <2>1 DEF SessionType
  <2>3. \A p \in Parties : \A s \in Copies(p) : Inherits(p, s)  BY <2>2 DEF Inherits
  <2> QED  BY <2>1, <2>2, <2>3 DEF RatchetTypes
<1>1. ASSUME NEW w \in BOOLEAN, initSessionFromBundle(w)
      PROVE  /\ \A p \in Parties : \A t \in Copies(p)' :
                   Inherits(p, t) \/ (p = Alice /\ Novel(t.sendChain, fresh, fresh'))
             /\ fresh' = fresh + 1
  <2> DEFINE s == InitiatorSession(w)
  <2>1. \A p \in Parties : \A t \in Copies(p)' : t \in Copies(p) \/ (p = Alice /\ t = s)
    BY <1>1, BundleStep
  <2>2. s \in SessionType /\ s.sendChain = s.rootKey /\ Len(s.rootKey) = 2 /\ s.rootKey[2] = {fresh, 0}
    BY <1>0, InitiatorFacts
  <2>3. fresh' = fresh + 1  BY <1>1 DEF initSessionFromBundle
  <2> HIDE DEF s
  <2>4. Novel(s.sendChain, fresh, fresh + 1)
    <3>1. s.sendChain \in Path  BY <2>2 DEF SessionType
    <3>2. fresh + 1 \in Nat /\ fresh <= fresh /\ fresh < fresh + 1 /\ 0 < fresh + 1  BY <1>0
    <3>3. 2 \in Nat /\ 2 > 1 /\ 0 \in Nat  OBVIOUS
    <3>4. Len(s.sendChain) = 2 /\ s.sendChain[2] = {fresh, 0}  BY <2>2
    <3> QED  BY ONLY <1>0, <3>1, <3>2, <3>3, <3>4, NovelLink
  <2> QED  BY <1>0, <2>1, <2>3, <2>4
<1>2. ASSUME NEW p \in Parties, encrypt(p)
      PROVE  (\A q \in Parties : \A t \in Copies(q)' : Inherits(q, t)) /\ fresh' = fresh
  <2> DEFINE s == session[p]
  <2>1. /\ s \in SessionType /\ s \in Copies(p)
        /\ \A q \in Parties : \A t \in Copies(q)' : t \in Copies(q) \/ (q = p /\ t = Advanced(s))
    BY <1>2, EncryptStep
  <2>2. Advanced(s).sendChain = s.sendChain /\ Advanced(s).sendCount = s.sendCount + 1
    <3>1. sent[p] \in Nat  BY DEF RatchetTypes
    <3> QED  BY <2>1, <3>1, EncryptFacts
  <2>3. fresh' = fresh  BY <1>2 DEF encrypt
  <2> HIDE DEF s
  <2>4. Inherits(p, Advanced(s))  BY <1>0, <2>1, <2>2 DEF Inherits
  <2> QED  BY <1>0, <2>1, <2>3, <2>4
<1>3. ASSUME NEW m \in net, decrypt(m)
      PROVE  /\ Peer(m.from) \in Parties
             /\ \A q \in Parties : \A t \in Copies(q)' :
                   Inherits(q, t) \/ (q = Peer(m.from) /\ Novel(t.sendChain, fresh, fresh'))
             /\ fresh' = fresh + 2
  <2> DEFINE p == Peer(m.from)
  <2>1. /\ m \in MsgType /\ p \in Parties
        /\ m.first => Base(m) = ResponderSession(m) /\ Base(m) \in SessionType
        /\ ~ m.first => Base(m) = session[p]
        /\ Outcome(m).error = "none" =>
             Base(m) \in SessionType /\ Outcome(m) = Receive(Base(m), m, fresh + 1)
        /\ fresh' = fresh + 2
    BY <1>3, DecryptStep
  <2>2. \A q \in Parties : \A t \in Copies(q)' :
          \/ t \in Copies(q)
          \/ q = p /\ m.first /\ t = Base(m)
          \/ q = p /\ Outcome(m).error = "none" /\ t = Outcome(m).session
    BY <1>3, DecryptStep
  <2>3. m.rk \in Nat /\ m.rk < fresh  BY <2>1 DEF MsgType, MsgSized, Sizes
  <2> HIDE DEF p
  <2>4. m.first => Novel(Base(m).sendChain, fresh, fresh + 2)
    <3>1. SUFFICES ASSUME m.first PROVE Novel(Base(m).sendChain, fresh, fresh + 2)  OBVIOUS
    <3> DEFINE s == ResponderSession(m)
    <3>2. s \in SessionType /\ s.sendChain = s.rootKey /\ Len(s.rootKey) = 3 /\ s.rootKey[3] = {fresh, m.rk}
      BY <1>0, <2>1, ResponderFacts DEF RatchetTypes
    <3> HIDE DEF s
    <3>3. Base(m) = s  BY <2>1, <3>1 DEF s
    <3>4. s.sendChain \in Path  BY <3>2 DEF SessionType
    <3>5. fresh + 2 \in Nat /\ fresh <= fresh /\ fresh < fresh + 2 /\ m.rk < fresh + 2  BY <1>0, <2>3
    <3>6. 3 \in Nat /\ 3 > 1  OBVIOUS
    <3>7. Novel(s.sendChain, fresh, fresh + 2)  BY <1>0, <2>3, <3>2, <3>4, <3>5, <3>6, NovelLink
    <3> QED  BY <3>3, <3>7
  <2>5. Outcome(m).error = "none" =>
           Inherits(p, Outcome(m).session) \/ Novel(Outcome(m).session.sendChain, fresh, fresh + 2)
    <3>1. SUFFICES ASSUME Outcome(m).error = "none"
                   PROVE  Inherits(p, Outcome(m).session) \/ Novel(Outcome(m).session.sendChain, fresh, fresh + 2)
      OBVIOUS
    <3>2. Outcome(m) = Receive(Base(m), m, fresh + 1) /\ Base(m) \in SessionType  BY <2>1, <3>1
    <3>3. \/ Outcome(m).session.sendChain = Base(m).sendChain /\ Outcome(m).session.sendCount = Base(m).sendCount
          \/ Novel(Outcome(m).session.sendChain, fresh, fresh + 2)
      BY <1>0, <2>1, <2>3, <3>1, <3>2, ReceiveSends
    <3>4. CASE m.first  BY <2>4, <3>3, <3>4
    <3>5. CASE ~ m.first
      <4>1. Base(m) = session[p] /\ ~ Base(m).none  BY <2>1, <3>2, <3>5 DEF SessionType
      <4>2. Base(m) \in Copies(p)  BY <4>1, InCopies DEF Copies
      <4>3. Base(m).sendCount \in Nat  BY <3>2 DEF SessionType
      <4> QED  BY <3>3, <4>2, <4>3 DEF Inherits
    <3> QED  BY <3>4, <3>5
  <2> QED  BY <1>0, <2>1, <2>2, <2>4, <2>5 DEF p
<1>4. ASSUME Ends
      PROVE  (\A q \in Parties : \A t \in Copies(q)' : Inherits(q, t)) /\ fresh' = fresh
  BY <1>0, <1>4, EndStep
<1>5. fresh + 1 >= fresh /\ fresh + 2 >= fresh /\ fresh >= fresh /\ fresh + 1 \in Nat /\ fresh + 2 \in Nat
  BY <1>0
<1>6. CASE \E w \in BOOLEAN : initSessionFromBundle(w)  BY <1>1, <1>5, <1>6, Sides
<1>7. CASE \E p \in Parties : encrypt(p)  BY <1>0, <1>2, <1>5, <1>7
<1>8. CASE \E m \in net : decrypt(m)
  <2>1. PICK m \in net : decrypt(m)  BY <1>8
  <2>2. /\ Peer(m.from) \in Parties
        /\ \A q \in Parties : \A t \in Copies(q)' :
              Inherits(q, t) \/ (q = Peer(m.from) /\ Novel(t.sendChain, fresh, fresh'))
        /\ fresh' = fresh + 2
    BY <1>3, <2>1
  <2> QED  BY <1>5, <2>2
<1>9. CASE Ends  BY <1>0, <1>4, <1>5, <1>9, Sides
<1> QED  BY <1>6, <1>7, <1>8, <1>9, NextCases

LEMMA KnownLater ==
    ASSUME NEW f \in Nat, NEW g \in Nat, f <= g, NEW c, Known(c, f)
    PROVE  Known(c, g)
  BY DEF Known

(***************************************************************************)
(* encrypt takes a key that was not used before, and is past it after.     *)
(***************************************************************************)
LEMMA KeysFreshStep ==
    ASSUME Flags, overlaps' = 0, RatchetTypes, Sizes, OneCall, KeysFresh, [Next]_vars
    PROVE  KeysFresh'
<1>0. fresh \in Nat /\ fresh' \in Nat /\ fresh <= fresh'  BY SendsStep DEF RatchetTypes
<1>1. PICK p0 \in Parties : \A p \in Parties : \A t \in Copies(p)' :
          Inherits(p, t) \/ (p = p0 /\ Novel(t.sendChain, fresh, fresh'))
  BY SendsStep
<1>2. /\ used \in Seq(Key) /\ \A i \in DOMAIN used : used[i] \in Key
      /\ \A p \in Parties : \A s \in Copies(p) : s \in SessionType /\ s.sendCount \in Nat
      /\ \A p \in Parties : \A s \in Copies(p)' : s.sendCount \in Nat
  <2>1. used \in Seq(Key)  BY DEF RatchetTypes
  <2>2. \A p \in Parties : \A s \in Copies(p) : s \in SessionType  BY CopyType
  <2>3. \A p \in Parties : \A s \in Copies(p)' : s \in SessionType
    <3>1. RatchetTypes'  BY RatchetTypesStep
    <3>2. ASSUME NEW p \in Parties, NEW s \in Copies(p)' PROVE s \in SessionType
      <4>1. (~ session'[p].none /\ s = session'[p]) \/ \E c \in calls'[p] : Stores(c) /\ s = c.result.session
        BY InCopies DEF Copies
      <4>2. session'[p] \in {NoSession} \cup SessionType  BY <3>1 DEF RatchetTypes
      <4>3. \A c \in calls'[p] : Stores(c) => c.result.session \in SessionType
        BY <3>1 DEF RatchetTypes, CallOK, Stores
      <4> QED  BY <4>1, <4>2, <4>3, StoredType
    <3> QED  BY <3>2
  <2>4. \A i \in DOMAIN used : used[i] \in Key  BY <2>1
  <2> QED  BY <2>1, <2>2, <2>3, <2>4 DEF SessionType
<1>3. \A p \in Parties : \A t \in Copies(p)' : Known(t.sendChain, fresh')
  <2> SUFFICES ASSUME NEW p \in Parties, NEW t \in Copies(p)' PROVE Known(t.sendChain, fresh')
    OBVIOUS
  <2>1. CASE Inherits(p, t)
    <3>1. PICK s \in Copies(p) : t.sendChain = s.sendChain  BY <2>1 DEF Inherits
    <3>2. Known(s.sendChain, fresh)  BY DEF KeysFresh
    <3> QED  BY <1>0, <3>1, <3>2, KnownLater
  <2>2. CASE Novel(t.sendChain, fresh, fresh')  BY <2>2 DEF Novel
  <2> QED  BY <1>1, <2>1, <2>2
<1>4. ASSUME NEW p \in Parties, NEW s \in Copies(p)', NEW t \in Copies(Peer(p))'
      PROVE  t.sendChain # s.sendChain
  <2>0. Peer(p) \in Parties /\ Peer(p) # p  BY Sides
  <2>1. CASE Inherits(p, s) /\ Inherits(Peer(p), t)
    <3>1. PICK a \in Copies(p) : s.sendChain = a.sendChain  BY <2>1 DEF Inherits
    <3>2. PICK b \in Copies(Peer(p)) : t.sendChain = b.sendChain  BY <2>1 DEF Inherits
    <3> QED  BY <3>1, <3>2 DEF KeysFresh
  <2>2. CASE Novel(s.sendChain, fresh, fresh') /\ Inherits(Peer(p), t)
    <3>1. PICK b \in Copies(Peer(p)) : t.sendChain = b.sendChain  BY <2>2 DEF Inherits
    <3>2. Known(b.sendChain, fresh)  BY <2>0 DEF KeysFresh
    <3> QED  BY <1>0, <2>2, <3>1, <3>2, NovelIsNew
  <2>3. CASE Inherits(p, s) /\ Novel(t.sendChain, fresh, fresh')
    <3>1. PICK a \in Copies(p) : s.sendChain = a.sendChain  BY <2>3 DEF Inherits
    <3>2. Known(a.sendChain, fresh)  BY DEF KeysFresh
    <3> QED  BY <1>0, <2>3, <3>1, <3>2, NovelIsNew
  <2> QED  BY <1>1, <2>0, <2>1, <2>2, <2>3
<1>5. ASSUME NEW p \in Parties, NEW t \in Copies(p)', NEW i \in DOMAIN used, used[i].chain = t.sendChain
      PROVE  used[i].steps < t.sendCount
  <2>1. used[i] \in Key /\ used[i].steps \in Nat /\ Known(used[i].chain, fresh)  BY <1>2 DEF Key, KeysFresh
  <2>2. CASE Inherits(p, t)
    <3>1. PICK s \in Copies(p) : t.sendChain = s.sendChain /\ t.sendCount >= s.sendCount  BY <2>2 DEF Inherits
    <3>2. used[i].steps < s.sendCount  BY <1>5, <3>1 DEF KeysFresh
    <3> QED  BY <1>2, <2>1, <3>1, <3>2
  <2>3. CASE Novel(t.sendChain, fresh, fresh')  BY <1>0, <1>5, <2>1, <2>3, NovelIsNew
  <2> QED  BY <1>1, <2>2, <2>3
<1>6. \A i \in DOMAIN used : Known(used[i].chain, fresh')  BY <1>0, KnownLater DEF KeysFresh
<1>7. CASE used' = used
  BY <1>3, <1>4, <1>5, <1>6, <1>7 DEF KeysFresh, NoReuse
<1>8. CASE \E p \in Parties : \E call \in calls[p] : encryptStores(p, call)
  <2>0. PICK p \in Parties : \E call \in calls[p] : encryptStores(p, call)  BY <1>8
  <2>1. PICK call \in calls[p] : encryptStores(p, call)  BY <2>0
  <2> DEFINE s == session[p]
             k == NextKey(s)
  <2>2. Encrypts(call, p, s)  BY <2>1 DEF encryptStores, OneCall
  <2>3. s \in SessionType /\ s \in Copies(p)
    <3>1. ~ s.none  BY <2>2 DEF Encrypts
    <3> QED  BY <1>2, <3>1, InCopies DEF Copies
  <2>4. /\ used' = Append(used, k) /\ calls'[p] = {} /\ session'[p] = Advanced(s)
    <3>1. /\ used' = Append(used, call.result.key) /\ calls' = [calls EXCEPT ![p] = calls[p] \ {call}]
          /\ session' = [session EXCEPT ![p] = call.result.session]
      BY <2>1 DEF encryptStores, Finish
    <3>2. calls[p] \ {call} = {}  BY DEF OneCall
    <3> QED  BY <2>2, <3>1, <3>2 DEF RatchetTypes, Encrypts
  <2>5. k \in Key /\ k.chain = s.sendChain /\ k.steps = s.sendCount
    BY <2>3, KeyType DEF NextKey, SessionType
  <2>6. \A t \in Copies(p)' : t = Advanced(s)
    BY <2>4, InCopies DEF Copies
  <2>7. Advanced(s).sendCount = s.sendCount + 1
    <3>1. sent[p] \in Nat  BY DEF RatchetTypes
    <3> QED  BY <2>3, <3>1, EncryptFacts
  <2>8. \A t \in Copies(Peer(p))' : t.sendChain # s.sendChain
    <3> SUFFICES ASSUME NEW t \in Copies(Peer(p))' PROVE t.sendChain # s.sendChain  OBVIOUS
    <3>1. Peer(p) \in Parties /\ Peer(Peer(p)) = p  BY Sides
    <3>2. CASE Inherits(Peer(p), t)
      <4>1. PICK b \in Copies(Peer(p)) : t.sendChain = b.sendChain  BY <3>2 DEF Inherits
      <4> QED  BY <2>3, <4>1 DEF KeysFresh
    <3>3. CASE Novel(t.sendChain, fresh, fresh')
      <4>1. Known(s.sendChain, fresh)  BY <2>3 DEF KeysFresh
      <4> QED  BY <1>0, <3>3, <4>1, NovelIsNew
    <3> QED  BY <1>1, <3>1, <3>2, <3>3
  <2>9. \A i \in DOMAIN used : used[i] # k
    <3> SUFFICES ASSUME NEW i \in DOMAIN used, used[i] = k PROVE FALSE  OBVIOUS
    <3>1. used[i].steps < s.sendCount  BY <2>3, <2>5 DEF KeysFresh
    <3>2. s.sendCount \in Nat  BY <1>2, <2>3
    <3> QED  BY <2>5, <3>1, <3>2
  <2> HIDE DEF s, k
  <2>10. /\ DOMAIN used' = 1..(Len(used) + 1) /\ DOMAIN used = 1..Len(used)
         /\ Len(used) \in Nat /\ used'[Len(used) + 1] = k
         /\ \A i \in DOMAIN used : used'[i] = used[i]
    BY <1>2, <2>4, <2>5
  <2>11. \A i \in DOMAIN used' : i \in DOMAIN used \/ used'[i] = k  BY <2>10
  <2>12. \A i \in DOMAIN used' : i \in DOMAIN used \/ i = Len(used) + 1  BY <2>10
  <2>13. NoReuse'
    <3> SUFFICES ASSUME NEW i \in DOMAIN used', NEW j \in DOMAIN used', used'[i] = used'[j] PROVE i = j
      BY DEF NoReuse
    <3>1. CASE i \in DOMAIN used /\ j \in DOMAIN used  BY <2>10, <3>1 DEF KeysFresh, NoReuse
    <3>2. CASE i \in DOMAIN used /\ j = Len(used) + 1  BY <2>9, <2>10, <3>2
    <3>3. CASE i = Len(used) + 1 /\ j \in DOMAIN used  BY <2>9, <2>10, <3>3
    <3>4. CASE i = Len(used) + 1 /\ j = Len(used) + 1  BY <3>4
    <3> QED  BY <2>12, <3>1, <3>2, <3>3, <3>4
  <2>14. Known(k.chain, fresh')
    <3>1. Known(s.sendChain, fresh)  BY <2>3 DEF KeysFresh
    <3> QED  BY <1>0, <2>5, <3>1, KnownLater
  <2>15. \A i \in DOMAIN used' : Known(used'[i].chain, fresh')  BY <1>6, <2>10, <2>11, <2>14
  <2>16. ASSUME NEW q \in Parties, NEW t \in Copies(q)', NEW i \in DOMAIN used', used'[i].chain = t.sendChain
         PROVE  used'[i].steps < t.sendCount
    <3>1. CASE i \in DOMAIN used  BY <1>5, <2>10, <2>16, <3>1
    <3>2. CASE used'[i] = k
      <4>1. q = p
        <5>1. q = p \/ q = Peer(p)  BY Sides
        <5> QED  BY <2>5, <2>8, <2>16, <3>2, <5>1
      <4>2. t.sendCount = s.sendCount + 1  BY <2>6, <2>7, <4>1
      <4>3. s.sendCount \in Nat  BY <1>2, <2>3
      <4> QED  BY <2>5, <3>2, <4>2, <4>3
    <3> QED  BY <2>11, <3>1, <3>2
  <2> QED  BY <1>3, <1>4, <2>13, <2>15, <2>16 DEF KeysFresh
<1>9. used' = used \/ \E p \in Parties : \E call \in calls[p] : encryptStores(p, call)
  BY DEF Next, initSessionFromBundle, encrypt, decrypt, Lose, decryptStores, decryptThrows, vars
<1> QED  BY <1>7, <1>8, <1>9

(***************************************************************************)
(* For any number of calls in flight, messages lost and delivered in any   *)
(* order, and ratchet steps of both ends: as long as no call of a manager  *)
(* was begun during another (nothing in it keeps them apart), no two       *)
(* messages were encrypted under one key.                                  *)
(***************************************************************************)
THEOREM OneKeyPerMessage == Spec => []KeyPerMessage
<1> DEFINE Calm == overlaps = 0 => OneCall /\ KeysFresh
           Inv == RatchetTypes /\ Sizes /\ Flags /\ Calm
<1>1. Init => Inv
  <2> SUFFICES ASSUME Init PROVE Inv  OBVIOUS
  <2>1. RatchetTypes /\ Sizes  BY RatchetTypesInit
  <2>2. \A p \in Parties : session[p] = NoSession /\ calls[p] = {}  BY DEF Init
  <2>3. \A p \in Parties : Copies(p) = {}  BY <2>2, InCopies, StoredType DEF Copies
  <2>4. DOMAIN used = {}  BY DEF Init
  <2>5. OneCall /\ KeysFresh  BY <2>2, <2>3, <2>4 DEF OneCall, KeysFresh, NoReuse
  <2>6. Flags  BY FlagsInit
  <2> QED  BY <2>1, <2>5, <2>6
<1>2. Inv /\ [Next]_vars => Inv'
  <2> SUFFICES ASSUME Inv, [Next]_vars PROVE Inv'  OBVIOUS
  <2>1. RatchetTypes' /\ Sizes'  BY RatchetTypesStep, SizesStep
  <2>2. Flags' /\ (overlaps' = 0 => overlaps = 0)  BY FlagsStep
  <2>3. ASSUME overlaps' = 0 PROVE OneCall' /\ KeysFresh'
    <3>1. OneCall /\ KeysFresh  BY <2>2, <2>3
    <3> QED  BY <2>3, <3>1, OneCallStep, KeysFreshStep
  <2> QED  BY <2>1, <2>2, <2>3
<1>3. Inv => KeyPerMessage  BY DEF KeysFresh, NoReuse, KeyPerMessage
<1> QED  BY <1>1, <1>2, <1>3, PTL DEF Spec

-----------------------------------------------------------------------------
(* Keys that are gone.                                                     *)

(***************************************************************************)
(* What a session keeps for receiving lies behind its root key, each key   *)
(* once and before the chain's position.                                   *)
(***************************************************************************)
Tidy(s) ==
    /\ Len(s.recvChain) <= Len(s.rootKey)
    /\ \A x \in DOMAIN s.skipped :
          /\ Len(s.skipped[x].chain) <= Len(s.rootKey)
          /\ s.skipped[x].chain = s.recvChain => s.skipped[x].steps < s.recvSteps
    /\ \A x, y \in DOMAIN s.skipped : s.skipped[x] = s.skipped[y] => x = y

Gone(s, k) ==
    /\ \A x \in DOMAIN s.skipped : s.skipped[x] # k
    /\ s.recvChain = k.chain => s.recvSteps > k.steps
    /\ Len(k.chain) <= Len(s.rootKey)

LEMMA TidySkip ==
    ASSUME NEW s \in SessionType, NEW target \in Nat, Tidy(s)
    PROVE  LET t == skipMessageKeys(s, target)
           IN  Tidy(t) /\ \A k \in Key : Gone(s, k) => Gone(t, k)
<1> DEFINE t == skipMessageKeys(s, target)
           new == {<<s.theirs, i>> : i \in s.recvCount..(target - 1)}
<1>0. /\ s.recvCount \in Nat /\ s.recvSteps \in Nat /\ s.theirs \in Nat /\ s.recvChain \in Path
      /\ s.rootKey \in Path /\ Len(s.recvChain) \in Nat /\ Len(s.rootKey) \in Nat
  BY DEF SessionType, Path
<1>1. CASE s.recvChain = NoChain \/ s.recvCount >= target
  BY <1>1, SkipFacts
<1>2. CASE s.recvChain # NoChain /\ s.recvCount < target
  <2>1. /\ SameSending(s, t) /\ t.recvChain = s.recvChain
        /\ t.recvSteps = s.recvSteps + (target - s.recvCount)
        /\ DOMAIN t.skipped = new \cup DOMAIN s.skipped
        /\ \A x \in new : t.skipped[x] = MessageKey(s.recvChain, s.recvSteps + (x[2] - s.recvCount))
        /\ \A x \in DOMAIN s.skipped \ new : t.skipped[x] = s.skipped[x]
    BY <1>2, SkipFacts
  <2>2. \A x \in new : x = <<s.theirs, x[2]>> /\ x[2] \in s.recvCount..(target - 1)  OBVIOUS
  <2> HIDE DEF new, t
  <2>3. \A x \in DOMAIN s.skipped : s.skipped[x] \in Key  BY CacheFacts DEF SessionType
  <2>4. ASSUME NEW x \in new
        PROVE  /\ t.skipped[x].chain = s.recvChain
               /\ t.skipped[x].steps = s.recvSteps + (x[2] - s.recvCount)
               /\ t.skipped[x].steps \in Nat /\ t.skipped[x].steps >= s.recvSteps
               /\ t.skipped[x].steps < t.recvSteps
    <3>1. x[2] \in Nat /\ x[2] >= s.recvCount /\ x[2] < target  BY <1>0, <2>2
    <3>2. PICK i \in Nat : i = s.recvSteps + (x[2] - s.recvCount)  BY <1>0, <3>1
    <3>3. t.skipped[x] = MessageKey(s.recvChain, i)  BY <2>1, <3>2
    <3>4. t.skipped[x].chain = s.recvChain /\ t.skipped[x].steps = i  BY <1>0, <3>3, KeyType
    <3>5. i >= s.recvSteps /\ i < t.recvSteps  BY <1>0, <2>1, <3>1, <3>2
    <3> QED  BY <3>2, <3>4, <3>5
  <2>5. \A x \in DOMAIN t.skipped : x \in new \/ (x \in DOMAIN s.skipped /\ t.skipped[x] = s.skipped[x])
    BY <2>1
  <2>6. t.recvSteps \in Nat /\ t.recvSteps > s.recvSteps /\ t.rootKey = s.rootKey
    BY <1>0, <1>2, <2>1 DEF SameSending
  <2>7. ASSUME NEW x \in DOMAIN t.skipped
        PROVE  /\ Len(t.skipped[x].chain) <= Len(t.rootKey)
               /\ t.skipped[x].chain = t.recvChain => t.skipped[x].steps < t.recvSteps
    <3>1. CASE x \in new  BY <2>4, <2>6, <3>1 DEF Tidy
    <3>2. CASE x \in DOMAIN s.skipped /\ t.skipped[x] = s.skipped[x]
      <4>1. s.skipped[x].steps \in Nat  BY <2>3, <3>2 DEF Key
      <4> QED  BY <1>0, <2>1, <2>6, <3>2, <4>1 DEF Tidy
    <3> QED  BY <2>5, <3>1, <3>2
  <2>8. ASSUME NEW x \in DOMAIN t.skipped, NEW y \in DOMAIN t.skipped, t.skipped[x] = t.skipped[y]
        PROVE  x = y
    <3>1. CASE x \in new /\ y \in new
      <4>1. x[2] \in Nat /\ y[2] \in Nat  BY <1>0, <2>2, <3>1
      <4>2. s.recvSteps + (x[2] - s.recvCount) = s.recvSteps + (y[2] - s.recvCount)  BY <2>4, <2>8, <3>1
      <4>3. x[2] = y[2]  BY <1>0, <4>1, <4>2
      <4> QED  BY <2>2, <3>1, <4>3
    <3>2. ASSUME NEW u \in new, NEW v \in DOMAIN s.skipped, t.skipped[v] = s.skipped[v], t.skipped[u] = t.skipped[v]
          PROVE  FALSE
      <4>1. s.skipped[v].chain = s.recvChain /\ s.skipped[v].steps >= s.recvSteps  BY <2>4, <3>2
      <4>2. s.skipped[v].steps \in Nat  BY <2>3 DEF Key
      <4> QED  BY <1>0, <4>1, <4>2 DEF Tidy
    <3>3. CASE (x \in DOMAIN s.skipped /\ t.skipped[x] = s.skipped[x]) /\ (y \in DOMAIN s.skipped /\ t.skipped[y] = s.skipped[y])
      BY <2>8, <3>3 DEF Tidy
    <3> QED  BY <2>5, <2>8, <3>1, <3>2, <3>3
  <2>9. Tidy(t)
    <3>1. Len(t.recvChain) <= Len(t.rootKey)  BY <2>1, <2>6 DEF Tidy
    <3> QED  BY <2>7, <2>8, <3>1 DEF Tidy
  <2>10. ASSUME NEW k \in Key, Gone(s, k)
         PROVE  Gone(t, k)
    <3>1. k.steps \in Nat  BY DEF Key
    <3>2. ASSUME NEW x \in DOMAIN t.skipped, t.skipped[x] = k PROVE FALSE
      <4>1. CASE x \in new
        <5>1. k.chain = s.recvChain /\ k.steps >= s.recvSteps  BY <2>4, <3>2, <4>1
        <5> QED  BY <1>0, <2>10, <3>1, <5>1 DEF Gone
      <4>2. CASE x \in DOMAIN s.skipped /\ t.skipped[x] = s.skipped[x]  BY <2>10, <3>2, <4>2 DEF Gone
      <4> QED  BY <2>5, <4>1, <4>2
    <3>3. t.recvChain = k.chain => t.recvSteps > k.steps  BY <1>0, <2>1, <2>6, <2>10, <3>1 DEF Gone
    <3> QED  BY <2>6, <2>10, <3>2, <3>3 DEF Gone
  <2> QED  BY <2>9, <2>10 DEF t
<1> QED  BY <1>0, <1>1, <1>2

LEMMA TidyTake ==
    ASSUME NEW s \in SessionType, NEW m \in MsgType, Tidy(s), TakeKey(s, m).error = "none"
    PROVE  LET r == TakeKey(s, m)
           IN  /\ Tidy(r.session) /\ Gone(r.session, r.key)
               /\ \A k \in Key : Gone(s, k) => Gone(r.session, k)
<1> DEFINE r == TakeKey(s, m)
           t == r.session
           at == <<m.rk, m.n>>
<1>0. s.recvChain \in Path /\ s.recvSteps \in Nat /\ m.n \in Nat  BY DEF SessionType, MsgType
<1>1. Cached(s, m, r) \/ Derived(s, m, r)  BY TakeFacts
<1>2. \A x \in DOMAIN s.skipped : s.skipped[x] \in Key  BY CacheFacts DEF SessionType
<1>3. ASSUME Cached(s, m, r)
      PROVE  Tidy(t) /\ Gone(t, r.key) /\ \A k \in Key : Gone(s, k) => Gone(t, k)
  <2>1. /\ at \in DOMAIN s.skipped /\ r.key = s.skipped[at] /\ t.rootKey = s.rootKey
        /\ t.recvChain = s.recvChain /\ t.recvSteps = s.recvSteps
        /\ DOMAIN t.skipped = DOMAIN s.skipped \ {at}
        /\ \A x \in DOMAIN t.skipped : t.skipped[x] = s.skipped[x]
    BY <1>3 DEF Cached, SameSending
  <2> HIDE DEF t, r, at
  <2>2. Tidy(t)  BY <2>1 DEF Tidy
  <2>3. Gone(t, r.key)
    <3>1. \A x \in DOMAIN t.skipped : t.skipped[x] # r.key  BY <2>1 DEF Tidy
    <3>2. s.skipped[at].steps \in Nat  BY <1>2, <2>1 DEF Key
    <3> QED  BY <1>0, <2>1, <3>1, <3>2 DEF Gone, Tidy
  <2>4. \A k \in Key : Gone(s, k) => Gone(t, k)  BY <2>1 DEF Gone
  <2> QED  BY <2>2, <2>3, <2>4
<1>4. ASSUME Derived(s, m, r)
      PROVE  Tidy(t) /\ Gone(t, r.key) /\ \A k \in Key : Gone(s, k) => Gone(t, k)
  <2> DEFINE a == skipMessageKeys(s, m.n)
  <2>1. /\ r.key = MessageKey(s.recvChain, a.recvSteps) /\ t.rootKey = s.rootKey
        /\ t.recvChain = s.recvChain /\ t.recvSteps = a.recvSteps + 1 /\ t.skipped = a.skipped
    BY <1>4 DEF Derived, SameSending
  <2>2. a \in SessionType /\ a.rootKey = s.rootKey /\ a.recvChain = s.recvChain
    BY <1>0, SkipFacts DEF SameSending
  <2>3. Tidy(a) /\ \A k \in Key : Gone(s, k) => Gone(a, k)  BY <1>0, TidySkip
  <2> HIDE DEF t, r, a
  <2>4. a.recvSteps \in Nat /\ \A x \in DOMAIN a.skipped : a.skipped[x] \in Key
    BY <2>2, CacheFacts DEF SessionType
  <2>5. \A x \in DOMAIN a.skipped : a.skipped[x].steps \in Nat  BY <2>4 DEF Key
  <2>6. r.key.chain = s.recvChain /\ r.key.steps = a.recvSteps  BY <1>0, <2>1, <2>4, KeyType
  <2>7. Tidy(t)  BY <2>1, <2>2, <2>3, <2>4, <2>5 DEF Tidy
  <2>8. Gone(t, r.key)
    <3>1. \A x \in DOMAIN t.skipped : t.skipped[x] # r.key
      <4> SUFFICES ASSUME NEW x \in DOMAIN a.skipped, a.skipped[x] = r.key PROVE FALSE  BY <2>1
      <4>1. a.skipped[x].chain = a.recvChain /\ a.skipped[x].steps = a.recvSteps  BY <2>2, <2>6
      <4> QED  BY <2>3, <2>4, <4>1 DEF Tidy
    <3> QED  BY <2>1, <2>2, <2>3, <2>4, <2>6, <3>1 DEF Gone, Tidy
  <2>9. ASSUME NEW k \in Key, Gone(s, k) PROVE Gone(t, k)
    <3>1. Gone(a, k) /\ k.steps \in Nat  BY <2>3, <2>9 DEF Key
    <3> QED  BY <2>1, <2>2, <2>4, <3>1 DEF Gone
  <2> QED  BY <2>7, <2>8, <2>9
<1> QED  BY <1>1, <1>3, <1>4

LEMMA TidyReceive ==
    ASSUME NEW s \in SessionType, NEW m \in MsgType, NEW new \in Nat, Tidy(s),
           Receive(s, m, new).error = "none"
    PROVE  LET r == Receive(s, m, new)
           IN  /\ Tidy(r.session) /\ Gone(r.session, r.key)
               /\ \A k \in Key : Gone(s, k) => Gone(r.session, k)
<1> DEFINE r == Receive(s, m, new)
<1>1. CASE s.theirs = m.rk
  <2>1. r = TakeKey(s, m)  BY <1>1, ReceiveFacts
  <2>2. SameSending(s, r.session)  BY <2>1, TakeSends
  <2> QED  BY <2>1, <2>2, TidyTake DEF SameSending
<1>2. CASE s.theirs # m.rk
  <2> DEFINE a == skipMessageKeys(s, m.pn)
             t == Stepped(s, m, new)
  <2>1. r = TakeKey(t, m) /\ t \in SessionType
    <3>1. r # Throw("skip")  BY ThrowType
    <3> QED  BY <1>2, <3>1, ReceiveFacts
  <2>2. m.pn \in Nat  BY DEF MsgType
  <2>3. a \in SessionType /\ a.rootKey = s.rootKey  BY <2>2, SkipFacts DEF SameSending
  <2>4. Tidy(a) /\ \A k \in Key : Gone(s, k) => Gone(a, k)  BY <2>2, TidySkip
  <2>5. /\ t.recvSteps = 0 /\ t.skipped = a.skipped /\ t.pending = s.pending
        /\ Len(t.recvChain) = Len(s.rootKey) + 1 /\ Len(t.rootKey) = Len(s.rootKey) + 2
    BY ONLY SteppedFacts, s \in SessionType, m \in MsgType, new \in Nat
  <2> HIDE DEF a, t
  <2>6. Len(s.rootKey) \in Nat /\ \A x \in DOMAIN a.skipped : a.skipped[x] \in Key
    <3>1. Len(s.rootKey) \in Nat  BY DEF SessionType, Path
    <3>2. a.skipped \in Caches  BY <2>3 DEF SessionType
    <3>3. \A x \in DOMAIN a.skipped : a.skipped[x] \in Key  BY ONLY <3>2, CacheFacts
    <3> QED  BY <3>1, <3>3
  <2>7. \A k \in Key : Len(k.chain) \in Nat  BY DEF Key, Path
  <2>8. \A k \in Key : Len(k.chain) <= Len(s.rootKey) => t.recvChain # k.chain /\ Len(k.chain) <= Len(t.rootKey)
    BY <2>5, <2>6, <2>7
  <2>9. Tidy(t)
    <3>1. Len(t.recvChain) <= Len(t.rootKey)  BY <2>5, <2>6
    <3>2. \A x \in DOMAIN a.skipped : Len(a.skipped[x].chain) <= Len(s.rootKey)  BY <2>3, <2>4 DEF Tidy
    <3>3. \A x, y \in DOMAIN a.skipped : a.skipped[x] = a.skipped[y] => x = y  BY <2>4 DEF Tidy
    <3>4. \A x \in DOMAIN a.skipped : t.recvChain # a.skipped[x].chain /\ Len(a.skipped[x].chain) <= Len(t.rootKey)
      BY <2>6, <2>8, <3>2
    <3> QED  BY <2>5, <3>1, <3>3, <3>4 DEF Tidy
  <2>10. \A k \in Key : Gone(s, k) => Gone(t, k)
    <3> SUFFICES ASSUME NEW k \in Key, Gone(s, k) PROVE Gone(t, k)  OBVIOUS
    <3>1. Len(k.chain) <= Len(s.rootKey)  BY DEF Gone
    <3>2. \A x \in DOMAIN a.skipped : a.skipped[x] # k  BY <2>4 DEF Gone
    <3> QED  BY <2>5, <2>8, <3>1, <3>2 DEF Gone
  <2>11. SameSending(t, TakeKey(t, m).session)  BY <2>1, TakeSends
  <2>12. /\ Tidy(TakeKey(t, m).session) /\ Gone(TakeKey(t, m).session, TakeKey(t, m).key)
         /\ \A k \in Key : Gone(t, k) => Gone(TakeKey(t, m).session, k)
    BY <2>1, <2>9, TidyTake
  <2> QED  BY <2>1, <2>5, <2>10, <2>11, <2>12 DEF SameSending
<1> QED  BY <1>1, <1>2

-----------------------------------------------------------------------------
(***************************************************************************)
(* The message that sets Bob's session up is one, and comes before it.     *)
(***************************************************************************)
Unset == session[Alice].none \/ session[Alice].pending

SetUpOnce ==
    /\ \A m \in net : m.first => m.from = Alice /\ session[Bob].none
    /\ \A m, o \in net : m.first /\ o.first => m = o
    /\ Unset => session[Bob].none /\ \A m \in net : ~ m.first
    /\ \A s \in Copies(Bob) : ~ s.pending
    /\ \A s \in Copies(Alice) : s.pending => Unset
    /\ session[Bob].none => Copies(Bob) = {} /\ opk /\ \A m \in opened : m.from # Alice
    /\ session[Alice].none => Copies(Alice) = {} /\ \A m \in opened : m.from # Bob
    /\ \A p \in Parties : \A c \in calls[p] : c.kind = "decrypt" => c.msg.from # p

LEMMA ReceivePending ==
    ASSUME NEW s \in SessionType, NEW m \in MsgType, NEW new \in Nat, Receive(s, m, new).error = "none"
    PROVE  Receive(s, m, new).session.pending = s.pending
<1>1. CASE s.theirs = m.rk
  <2>1. Receive(s, m, new) = TakeKey(s, m)  BY <1>1, ReceiveFacts
  <2> QED  BY <2>1, TakeSends DEF SameSending
<1>2. CASE s.theirs # m.rk
  <2>1. Receive(s, m, new) # Throw("skip")  BY ThrowType
  <2>2. Receive(s, m, new) = TakeKey(Stepped(s, m, new), m) /\ Stepped(s, m, new) \in SessionType
    BY <1>2, <2>1, ReceiveFacts
  <2>3. Stepped(s, m, new).pending = s.pending
    BY ONLY SteppedFacts, s \in SessionType, m \in MsgType, new \in Nat
  <2> QED  BY <2>2, <2>3, TakeSends DEF SameSending
<1> QED  BY <1>1, <1>2

LEMMA SetUpStep ==
    ASSUME Flags, overlaps' = 0, RatchetTypes, OneCall, SetUpOnce, [Next]_vars
    PROVE  SetUpOnce'
<1>0. /\ Alice \in Parties /\ Bob \in Parties /\ Alice # Bob
      /\ \A p \in Parties : p = Alice \/ p = Bob
      /\ \A p \in Parties : session[p] \in {NoSession} \cup SessionType
      /\ \A p \in Parties : \A s \in Copies(p) : s \in SessionType
  BY Sides, CopyType DEF RatchetTypes, Parties
<1>1. ASSUME NEW w \in BOOLEAN, initSessionFromBundle(w)
      PROVE  SetUpOnce'
  <2> DEFINE s == InitiatorSession(w)
  <2>1. /\ s \in SessionType /\ session' = [session EXCEPT ![Alice] = s]
        /\ \A p \in Parties : \A t \in Copies(p)' : t \in Copies(p) \/ (p = Alice /\ t = s)
    BY <1>1, BundleStep
  <2>2. s.pending /\ ~ s.none
    <3>1. s.pending  BY InitiatorFacts DEF RatchetTypes
    <3> HIDE DEF s
    <3> QED  BY <2>1, <3>1 DEF SessionType
  <2>3. session[Alice].none /\ UNCHANGED <<opk, calls, net, opened>>  BY <1>1 DEF initSessionFromBundle
  <2> HIDE DEF s
  <2>4. session'[Alice] = s /\ session'[Bob] = session[Bob]  BY <1>0, <2>1 DEF RatchetTypes
  <2>5. Unset'  BY <2>2, <2>4 DEF Unset
  <2>6. session[Bob].none /\ \A m \in net : ~ m.first  BY <2>3 DEF SetUpOnce, Unset
  <2>7. Copies(Bob)' = {}  BY <1>0, <2>1, <2>6 DEF SetUpOnce
  <2> QED  BY <2>2, <2>3, <2>4, <2>5, <2>6, <2>7 DEF SetUpOnce
<1>2. ASSUME NEW p \in Parties, encrypt(p)
      PROVE  SetUpOnce'
  <2> DEFINE s == session[p]
  <2>1. /\ s \in SessionType /\ s \in Copies(p)
        /\ \A q \in Parties : \A t \in Copies(q)' : t \in Copies(q) \/ (q = p /\ t = Advanced(s))
    BY <1>2, EncryptStep
  <2>2. Advanced(s).pending => s.pending
    <3>1. sent[p] \in Nat  BY DEF RatchetTypes
    <3> QED  BY <2>1, <3>1, EncryptFacts
  <2>3. UNCHANGED <<session, opk, net, opened>> /\ ~ s.none  BY <1>2 DEF encrypt
  <2>4. \A q \in Parties : \A c \in calls'[q] : c \in calls[q] \/ c.kind = "encrypt"
    <3>1. PICK call : call.kind = "encrypt" /\ calls' = [calls EXCEPT ![p] = calls[p] \cup {call}]
      BY <1>2, EncryptStep
    <3> QED  BY <3>1 DEF RatchetTypes
  <2>5. \A q \in Parties : session[q].none => q # p  BY <2>3
  <2> HIDE DEF s
  <2>6. \A t \in Copies(Bob)' : ~ t.pending  BY <1>0, <2>1, <2>2 DEF SetUpOnce
  <2>7. \A t \in Copies(Alice)' : t.pending => Unset  BY <1>0, <2>1, <2>2 DEF SetUpOnce
  <2>8. Unset' = Unset  BY <2>3 DEF Unset
  <2>9. \A q \in Parties : session[q].none => \A t \in Copies(q)' : t \in Copies(q)  BY <2>1, <2>5
  <2>10. \A q \in Parties : \A c \in calls'[q] : c.kind = "decrypt" => c.msg.from # q  BY <2>4 DEF SetUpOnce
  <2> QED  BY <1>0, <2>3, <2>6, <2>7, <2>8, <2>9, <2>10 DEF SetUpOnce
<1>3. ASSUME NEW m \in net, decrypt(m)
      PROVE  SetUpOnce'
  <2> DEFINE p == Peer(m.from)
  <2>1. /\ m \in MsgType /\ p \in Parties /\ p # m.from
        /\ m.first => Base(m) = ResponderSession(m) /\ Base(m) \in SessionType
        /\ ~ m.first => Base(m) = session[p]
        /\ session' = IF m.first THEN [session EXCEPT ![p] = Base(m)] ELSE session
        /\ Call(m).kind = "decrypt" /\ Call(m).msg = m
        /\ Outcome(m).error = "none" =>
             Base(m) \in SessionType /\ Outcome(m) = Receive(Base(m), m, fresh + 1)
        /\ calls' = [calls EXCEPT ![p] = calls[p] \cup {Call(m)}]
        /\ net' = net \ {m} /\ opk' = (opk /\ ~ (m.first /\ m.withOpk))
    BY <1>3, DecryptStep
  <2>2. \A q \in Parties : \A t \in Copies(q)' :
          \/ t \in Copies(q)
          \/ q = p /\ m.first /\ t = Base(m)
          \/ q = p /\ Outcome(m).error = "none" /\ t = Outcome(m).session
    BY <1>3, DecryptStep
  <2>3. opened' = opened  BY <1>3 DEF decrypt
  <2>4. Outcome(m).error = "none" => Outcome(m).session.pending = Base(m).pending
    <3>1. SUFFICES ASSUME Outcome(m).error = "none" PROVE Outcome(m).session.pending = Base(m).pending
      OBVIOUS
    <3>2. fresh + 1 \in Nat  BY DEF RatchetTypes
    <3> QED  BY <2>1, <3>1, <3>2, ReceivePending
  <2>5. \A q \in Parties : \A c \in calls'[q] : c.kind = "decrypt" => c.msg.from # q
    <3>1. \A q \in Parties : \A c \in calls'[q] : c \in calls[q] \/ (q = p /\ c = Call(m))
      BY <2>1 DEF RatchetTypes
    <3> QED  BY <2>1, <3>1 DEF SetUpOnce
  <2> HIDE DEF p
  <2>6. CASE m.first
    <3>1. m.from = Alice /\ session[Bob].none /\ ~ Unset  BY <2>6 DEF SetUpOnce
    <3>2. p = Bob  BY <1>0, <2>1, <3>1
    <3>3. session'[Bob] = Base(m) /\ session'[Alice] = session[Alice] /\ ~ session'[Bob].none
      <4>1. session'[Bob] = Base(m) /\ session'[Alice] = session[Alice]
        BY <1>0, <2>1, <2>6, <3>2 DEF RatchetTypes
      <4> QED  BY <2>1, <2>6, <4>1 DEF SessionType
    <3>4. ~ Unset'  BY <3>1, <3>3 DEF Unset
    <3>5. ~ Base(m).pending  BY <2>1, <2>6, ResponderFacts DEF RatchetTypes
    <3>6. \A t \in Copies(Bob)' : ~ t.pending  BY <1>0, <2>2, <2>4, <3>5 DEF SetUpOnce
    <3>7. \A t \in Copies(Alice)' : t \in Copies(Alice)  BY <1>0, <2>2, <3>2
    <3>8. \A o \in net' : ~ o.first  BY <2>1, <2>6 DEF SetUpOnce
    <3>9. \A t \in Copies(Alice)' : ~ t.pending  BY <3>1, <3>7 DEF SetUpOnce
    <3>10. session'[Alice].none => Copies(Alice)' = {} /\ \A o \in opened' : o.from # Bob
      BY <2>3, <3>3, <3>7 DEF SetUpOnce
    <3> QED  BY <2>5, <3>3, <3>4, <3>6, <3>8, <3>9, <3>10 DEF SetUpOnce
  <2>7. CASE ~ m.first
    <3>1. session' = session /\ opk' = opk /\ Base(m) = session[p]
      <4>1. opk \in BOOLEAN  BY DEF RatchetTypes
      <4> QED  BY <2>1, <2>7, <4>1
    <3>2. Unset' = Unset  BY <3>1 DEF Unset
    <3>3. ASSUME NEW q \in Parties, NEW t \in Copies(q)'
          PROVE  t \in Copies(q) \/ (q = p /\ ~ session[p].none /\ t.pending = session[p].pending)
      <4>1. Outcome(m).error = "none" => ~ Base(m).none  BY <2>1 DEF SessionType
      <4> QED  BY <2>2, <2>4, <2>7, <3>1, <4>1
    <3>4. ~ session[p].none => session[p] \in Copies(p)  BY InCopies DEF Copies
    <3>5. \A t \in Copies(Bob)' : ~ t.pending  BY <1>0, <3>3, <3>4 DEF SetUpOnce
    <3>6. \A t \in Copies(Alice)' : t.pending => Unset  BY <1>0, <3>3, <3>4 DEF SetUpOnce
    <3>7. \A q \in Parties : session[q].none => \A t \in Copies(q)' : t \in Copies(q)  BY <3>3
    <3>8. (session[Bob].none => Copies(Bob)' = {}) /\ (session[Alice].none => Copies(Alice)' = {})
      BY <1>0, <3>7 DEF SetUpOnce
    <3> QED  BY <2>1, <2>3, <2>5, <3>1, <3>2, <3>5, <3>6, <3>8 DEF SetUpOnce
  <2> QED  BY <2>6, <2>7
<1>4. ASSUME NEW p \in Parties, NEW call \in calls[p], encryptStores(p, call)
      PROVE  SetUpOnce'
  <2> DEFINE s == session[p]
             m == call.msg
  <2>0. Ends  BY <1>4 DEF Ends
  <2>1. Encrypts(call, p, s)  BY <1>4 DEF encryptStores, OneCall
  <2>2. s \in SessionType /\ s \in Copies(p) /\ ~ s.none
    <3>1. ~ s.none  BY <2>1 DEF Encrypts
    <3>2. s \in Copies(p)  BY <3>1, InCopies DEF Copies
    <3> QED  BY <1>0, <3>1, <3>2
  <2>3. /\ \A q \in Parties : Copies(q)' \subseteq Copies(q) /\ calls'[q] \subseteq calls[q]
        /\ opk' = opk
    BY <2>0, EndStep
  <2>4. session' = [session EXCEPT ![p] = Advanced(s)] /\ net' = net \cup {m} /\ opened' = opened
        /\ calls' = [calls EXCEPT ![p] = calls[p] \ {call}]
    BY <1>4, <2>1 DEF encryptStores, Encrypts, Finish
  <2>5. /\ Advanced(s) \in SessionType /\ ~ Advanced(s).none
        /\ Advanced(s).pending <=> s.pending /\ s.sendCount # 0
    <3>1. sent[p] \in Nat  BY DEF RatchetTypes
    <3>2. Advanced(s) \in SessionType /\ (Advanced(s).pending <=> s.pending /\ s.sendCount # 0)
      BY <2>2, <3>1, EncryptFacts
    <3> QED  BY <3>2 DEF SessionType
  <2>6. m.from = p /\ (m.first <=> s.pending /\ s.sendCount = 0)  BY <2>1 DEF Encrypts
  <2>7. \A t \in Copies(p)' : t = Advanced(s)
    <3>1. calls'[p] = {} /\ session'[p] = Advanced(s)  BY <2>4 DEF RatchetTypes, OneCall
    <3> QED  BY <3>1, InCopies DEF Copies
  <2> HIDE DEF s, m
  <2>8. session'[p] = Advanced(s) /\ \A q \in Parties : q # p => session'[q] = session[q]
    BY <2>4 DEF RatchetTypes
  <2>9. CASE p = Bob
    <3>1. session'[Alice] = session[Alice] /\ ~ session'[Bob].none /\ ~ session[Bob].none
      BY <1>0, <2>2, <2>5, <2>8, <2>9 DEF s
    <3>2. ~ m.first  BY <2>2, <2>6, <2>9 DEF SetUpOnce
    <3>3. Unset' = Unset /\ ~ Unset /\ \A o \in net : ~ o.first  BY <3>1 DEF Unset, SetUpOnce
    <3> QED  BY <1>0, <2>3, <2>4, <3>1, <3>2, <3>3 DEF SetUpOnce
  <2>10. CASE p = Alice
    <3>1. session'[Bob] = session[Bob] /\ ~ session'[Alice].none /\ session'[Alice] = Advanced(s)
      BY <1>0, <2>2, <2>5, <2>8, <2>10
    <3>2. Unset' <=> s.pending /\ s.sendCount # 0  BY <2>5, <3>1 DEF Unset
    <3>3. s.pending => Unset  BY <2>10 DEF Unset, s
    <3>4. m.first => session[Bob].none /\ ~ Unset' /\ m.from = Alice /\ \A o \in net : ~ o.first
      BY <2>6, <2>10, <3>2, <3>3 DEF SetUpOnce
    <3>5. Unset' => Unset /\ ~ m.first  BY <2>6, <3>2, <3>3
    <3>6. \A t \in Copies(Alice)' : t.pending => Unset'  BY <2>5, <2>7, <2>10, <3>2
    <3>7. /\ \A o \in net' : o.first => o.from = Alice /\ session'[Bob].none
          /\ \A o, n \in net' : o.first /\ n.first => o = n
      BY <2>4, <3>1, <3>4 DEF SetUpOnce
    <3>8. Unset' => session'[Bob].none /\ \A o \in net' : ~ o.first
      BY <2>4, <3>1, <3>5 DEF SetUpOnce
    <3>9. session'[Bob].none => Copies(Bob)' = {} /\ opk' /\ \A o \in opened' : o.from # Alice
      BY <1>0, <2>3, <2>4, <3>1 DEF SetUpOnce
    <3>10. (\A t \in Copies(Bob)' : ~ t.pending) /\ \A q \in Parties : \A c \in calls'[q] : c.kind = "decrypt" => c.msg.from # q
      BY <1>0, <2>3 DEF SetUpOnce
    <3> QED  BY <3>1, <3>6, <3>7, <3>8, <3>9, <3>10 DEF SetUpOnce
  <2> QED  BY <1>0, <2>9, <2>10
<1>5. ASSUME NEW p \in Parties, NEW call \in calls[p], decryptStores(p, call)
      PROVE  SetUpOnce'
  <2> DEFINE t == call.result.session
  <2>0. Ends  BY <1>5 DEF Ends
  <2>1. /\ \A q \in Parties : Copies(q)' \subseteq Copies(q) /\ calls'[q] \subseteq calls[q]
        /\ opk' = opk
    BY <2>0, EndStep
  <2>2. t \in Copies(p) /\ ~ t.none
    <3>1. Stores(call)  BY <1>5 DEF decryptStores, Stores
    <3>2. t \in Copies(p)  BY <3>1, InCopies DEF Copies
    <3> QED  BY <1>0, <3>2 DEF SessionType
  <2>3. /\ session' = [session EXCEPT ![p] = t] /\ net' = net /\ call.kind = "decrypt"
        /\ opened' \in {opened, opened \cup {call.msg}}
        /\ calls' = [calls EXCEPT ![p] = calls[p] \ {call}]
    BY <1>5 DEF decryptStores, Finish
  <2>4. \A s \in Copies(p)' : s = t
    <3>1. calls'[p] = {} /\ session'[p] = t  BY <2>3 DEF RatchetTypes, OneCall
    <3> QED  BY <3>1, InCopies DEF Copies
  <2> HIDE DEF t
  <2>5. session'[p] = t /\ \A q \in Parties : q # p => session'[q] = session[q]
    BY <2>3 DEF RatchetTypes
  <2>6. ~ session[p].none /\ call.msg.from # p  BY <1>0, <2>2, <2>3 DEF SetUpOnce
  <2>7. session'[Bob].none <=> session[Bob].none  BY <1>0, <2>2, <2>5, <2>6
  <2>8. session'[Alice].none <=> session[Alice].none  BY <1>0, <2>2, <2>5, <2>6
  <2>9. Unset' => Unset
    <3>1. CASE p = Alice  BY <2>2, <2>5, <3>1 DEF Unset, SetUpOnce
    <3>2. CASE p = Bob  BY <1>0, <2>5, <3>2 DEF Unset
    <3> QED  BY <1>0, <3>1, <3>2
  <2>10. \A s \in Copies(Alice)' : s.pending => Unset'
    <3>1. CASE p = Alice  BY <2>4, <2>5, <3>1 DEF Unset
    <3>2. CASE p = Bob
      <4>1. Unset' = Unset  BY <1>0, <2>5, <3>2 DEF Unset
      <4> QED  BY <1>0, <2>1, <4>1 DEF SetUpOnce
    <3> QED  BY <1>0, <3>1, <3>2
  <2>11. /\ session'[Bob].none => \A m \in opened' : m.from # Alice
         /\ session'[Alice].none => \A m \in opened' : m.from # Bob
    BY <1>0, <2>3, <2>6, <2>7, <2>8 DEF SetUpOnce
  <2> QED  BY <1>0, <2>1, <2>3, <2>7, <2>8, <2>9, <2>10, <2>11 DEF SetUpOnce
<1>6. ASSUME NEW p \in Parties, NEW call \in calls[p], decryptThrows(p, call)
      PROVE  SetUpOnce'
  <2>0. Ends  BY <1>6 DEF Ends
  <2>1. \A q \in Parties : Copies(q)' \subseteq Copies(q) /\ calls'[q] \subseteq calls[q]
    BY <2>0, EndStep
  <2>2. UNCHANGED <<session, opk, net, opened>>  BY <1>6 DEF decryptThrows
  <2>3. Unset' = Unset  BY <2>2 DEF Unset
  <2> QED  BY <1>0, <2>1, <2>2, <2>3 DEF SetUpOnce
<1>7. CASE (\E m \in net : Lose(m)) \/ UNCHANGED vars
  <2>1. net' \subseteq net /\ UNCHANGED <<session, opk, calls, opened>>  BY <1>7 DEF Lose, vars
  <2>2. Unset' = Unset /\ Copies(Alice)' = Copies(Alice) /\ Copies(Bob)' = Copies(Bob)
    BY <2>1 DEF Unset, Copies
  <2> QED  BY <2>1, <2>2 DEF SetUpOnce
<1> QED  BY <1>1, <1>2, <1>3, <1>4, <1>5, <1>6, <1>7, NextCases DEF Ends

(***************************************************************************)
(* Every copy of a receiver's session has forgotten every key it opened a  *)
(* message with, and a call's copy the key the call took.                  *)
(***************************************************************************)
Forgotten ==
    \A p \in Parties :
        /\ \A s \in Copies(p) : Tidy(s) /\ \A m \in opened : m.from # p => Gone(s, m.key)
        /\ \A c \in calls[p] : c.kind = "decrypt" /\ Stores(c) => Gone(c.result.session, c.result.key)

LEMMA ForgottenStep ==
    ASSUME Flags, overlaps' = 0, RatchetTypes, OneCall, SetUpOnce, Forgotten, [Next]_vars
    PROVE  Forgotten'
<1>0. /\ Alice \in Parties /\ Bob \in Parties /\ Alice # Bob
      /\ \A p \in Parties : p = Alice \/ p = Bob
      /\ \A p \in Parties : \A s \in Copies(p) : s \in SessionType
      /\ \A m \in opened : m.key \in Key /\ m.from \in Parties
  <2>1. \A m \in opened : m.key \in Key /\ m.from \in Parties  BY DEF RatchetTypes, MsgType
  <2> QED  BY <2>1, Sides, CopyType DEF Parties
<1>1. ASSUME NEW w \in BOOLEAN, initSessionFromBundle(w)
      PROVE  Forgotten'
  <2> DEFINE s == InitiatorSession(w)
  <2>1. \A p \in Parties : \A t \in Copies(p)' : t \in Copies(p) \/ (p = Alice /\ t = s)
    BY <1>1, BundleStep
  <2>2. /\ s \in SessionType /\ s.recvChain = NoChain /\ Len(s.rootKey) = 2 /\ DOMAIN s.skipped = {}
    BY InitiatorFacts DEF RatchetTypes
  <2>3. session[Alice].none /\ UNCHANGED <<calls, opened>>  BY <1>1 DEF initSessionFromBundle
  <2> HIDE DEF s
  <2>4. Tidy(s)
    <3>1. Len(NoChain) = 0  BY EmptySeq DEF NoChain
    <3> QED  BY <2>2, <3>1 DEF Tidy
  <2>5. \A m \in opened : m.from = Alice  BY <1>0, <2>3 DEF SetUpOnce
  <2> QED  BY <2>1, <2>3, <2>4, <2>5 DEF Forgotten
<1>2. ASSUME NEW p \in Parties, encrypt(p)
      PROVE  Forgotten'
  <2> DEFINE s == session[p]
  <2>1. /\ s \in SessionType /\ s \in Copies(p)
        /\ \A q \in Parties : \A t \in Copies(q)' : t \in Copies(q) \/ (q = p /\ t = Advanced(s))
    BY <1>2, EncryptStep
  <2>2. LET t == Advanced(s)
        IN  /\ t.rootKey = s.rootKey /\ t.recvChain = s.recvChain /\ t.recvSteps = s.recvSteps
            /\ t.skipped = s.skipped
    <3>1. sent[p] \in Nat  BY DEF RatchetTypes
    <3> QED  BY <2>1, <3>1, EncryptFacts
  <2>3. opened' = opened  BY <1>2 DEF encrypt
  <2>4. \A q \in Parties : \A c \in calls'[q] : c \in calls[q] \/ c.kind = "encrypt"
    <3>1. PICK call : call.kind = "encrypt" /\ calls' = [calls EXCEPT ![p] = calls[p] \cup {call}]
      BY <1>2, EncryptStep
    <3> QED  BY <3>1 DEF RatchetTypes
  <2> HIDE DEF s
  <2>5. Tidy(Advanced(s)) /\ \A m \in opened : m.from # p => Gone(Advanced(s), m.key)
    <3>1. Tidy(s) /\ \A m \in opened : m.from # p => Gone(s, m.key)  BY <2>1 DEF Forgotten
    <3>2. Tidy(Advanced(s))  BY <2>2, <3>1 DEF Tidy
    <3>3. \A k : Gone(s, k) => Gone(Advanced(s), k)  BY <2>2 DEF Gone
    <3> QED  BY <3>1, <3>2, <3>3
  <2> QED  BY <2>1, <2>3, <2>4, <2>5 DEF Forgotten
<1>3. ASSUME NEW m \in net, decrypt(m)
      PROVE  Forgotten'
  <2> DEFINE p == Peer(m.from)
             r == Outcome(m)
  <2>1. /\ m \in MsgType /\ p \in Parties /\ p # m.from
        /\ m.first => Base(m) = ResponderSession(m) /\ Base(m) \in SessionType
        /\ ~ m.first => Base(m) = session[p]
        /\ Call(m).result = r
        /\ r.error = "none" => Base(m) \in SessionType /\ r = Receive(Base(m), m, fresh + 1)
        /\ calls' = [calls EXCEPT ![p] = calls[p] \cup {Call(m)}]
    BY <1>3, DecryptStep
  <2>2. \A q \in Parties : \A t \in Copies(q)' :
          \/ t \in Copies(q)
          \/ q = p /\ m.first /\ t = Base(m)
          \/ q = p /\ r.error = "none" /\ t = r.session
    BY <1>3, DecryptStep
  <2>3. opened' = opened  BY <1>3 DEF decrypt
  <2>4. \A q \in Parties : \A c \in calls'[q] : c \in calls[q] \/ (q = p /\ c = Call(m))
    BY <2>1 DEF RatchetTypes
  <2>5. Base(m) \in SessionType =>
            Tidy(Base(m)) /\ \A o \in opened : o.from # p => Gone(Base(m), o.key)
    <3>1. SUFFICES ASSUME Base(m) \in SessionType
                   PROVE  Tidy(Base(m)) /\ \A o \in opened : o.from # p => Gone(Base(m), o.key)
      OBVIOUS
    <3>2. CASE m.first
      <4>1. m.from = Alice /\ session[Bob].none  BY <3>2 DEF SetUpOnce
      <4>2. p = Bob  BY <1>0, <2>1, <4>1
      <4>3. \A o \in opened : o.from = p  BY <1>0, <4>1, <4>2 DEF SetUpOnce
      <4> DEFINE s == ResponderSession(m)
      <4>4. Len(s.recvChain) = 2 /\ Len(s.rootKey) = 3 /\ DOMAIN s.skipped = {}
        BY <2>1, ResponderFacts DEF RatchetTypes
      <4> HIDE DEF s
      <4>5. Tidy(s)  BY <4>4 DEF Tidy
      <4> QED  BY <2>1, <3>2, <4>3, <4>5 DEF s
    <3>3. CASE ~ m.first
      <4>1. Base(m) = session[p] /\ ~ Base(m).none  BY <2>1, <3>1, <3>3 DEF SessionType
      <4>2. Base(m) \in Copies(p)  BY <4>1, InCopies DEF Copies
      <4> QED  BY <2>1, <4>2 DEF Forgotten
    <3> QED  BY <3>2, <3>3
  <2> HIDE DEF p, r
  <2>6. r.error = "none" =>
            /\ Tidy(r.session) /\ Gone(r.session, r.key)
            /\ \A o \in opened : o.from # p => Gone(r.session, o.key)
    <3>1. SUFFICES ASSUME r.error = "none"
                   PROVE  /\ Tidy(r.session) /\ Gone(r.session, r.key)
                          /\ \A o \in opened : o.from # p => Gone(r.session, o.key)
      OBVIOUS
    <3>2. fresh + 1 \in Nat  BY DEF RatchetTypes
    <3>3. r = Receive(Base(m), m, fresh + 1) /\ Base(m) \in SessionType /\ Tidy(Base(m))  BY <2>1, <2>5, <3>1
    <3>4. /\ Tidy(r.session) /\ Gone(r.session, r.key)
          /\ \A k \in Key : Gone(Base(m), k) => Gone(r.session, k)
      BY <2>1, <3>1, <3>2, <3>3, TidyReceive
    <3> QED  BY <1>0, <2>5, <3>3, <3>4
  <2> QED  BY <2>1, <2>2, <2>3, <2>4, <2>5, <2>6 DEF Forgotten, Stores
<1>4. ASSUME NEW p \in Parties, NEW call \in calls[p], decryptStores(p, call)
      PROVE  Forgotten'
  <2> DEFINE t == call.result.session
  <2>0. Ends  BY <1>4 DEF Ends
  <2>1. \A q \in Parties : Copies(q)' \subseteq Copies(q) /\ calls'[q] \subseteq calls[q]
    BY <2>0, EndStep
  <2>2. /\ session' = [session EXCEPT ![p] = t] /\ call.kind = "decrypt" /\ Stores(call)
        /\ calls' = [calls EXCEPT ![p] = calls[p] \ {call}]
        /\ \/ opened' = opened
           \/ opened' = opened \cup {call.msg} /\ call.result.key = call.msg.key
    BY <1>4 DEF decryptStores, Finish, aesGcmDecrypt, Stores
  <2>3. \A s \in Copies(p)' : s = t
    <3>1. calls'[p] = {} /\ session'[p] = t  BY <2>2 DEF RatchetTypes, OneCall
    <3> QED  BY <3>1, InCopies DEF Copies
  <2>4. Gone(t, call.result.key) /\ call.msg.from # p  BY <2>2 DEF Forgotten, SetUpOnce
  <2>5. call.msg.from \in Parties
    <3>1. call \in CallType  BY DEF RatchetTypes
    <3>2. call.msg \in MsgType  BY <3>1 DEF CallType
    <3> QED  BY <3>2 DEF MsgType
  <2> HIDE DEF t
  <2>6. ASSUME NEW q \in Parties, NEW s \in Copies(q)', NEW m \in opened', m.from # q
        PROVE  Gone(s, m.key)
    <3>1. CASE m \in opened  BY <2>1, <2>6, <3>1 DEF Forgotten
    <3>2. CASE m = call.msg /\ call.result.key = call.msg.key
      <4>1. q = p  BY <1>0, <2>4, <2>5, <2>6, <3>2
      <4> QED  BY <2>3, <2>4, <3>2, <4>1
    <3> QED  BY <2>2, <3>1, <3>2
  <2> QED  BY <2>1, <2>6 DEF Forgotten
<1>5. ASSUME Ends, opened' = opened
      PROVE  Forgotten'
  <2>1. \A q \in Parties : Copies(q)' \subseteq Copies(q) /\ calls'[q] \subseteq calls[q]
    BY <1>5, EndStep
  <2> QED  BY <1>5, <2>1 DEF Forgotten
<1>6. CASE Ends
  <2>1. opened' = opened \/ \E p \in Parties : \E call \in calls[p] : decryptStores(p, call)
    BY <1>6 DEF Ends, encryptStores, decryptThrows, Lose, vars
  <2> QED  BY <1>4, <1>5, <1>6, <2>1
<1> QED  BY <1>1, <1>2, <1>3, <1>6, NextCases

(***************************************************************************)
(* What holds of a pair of sessions until calls of a manager overlap, for  *)
(* any order of delivery.                                                  *)
(***************************************************************************)
Tended == OneCall /\ SetUpOnce /\ Forgotten
SessionInv == RatchetTypes /\ Sizes /\ Flags /\ (overlaps = 0 => Tended)

LEMMA SessionInvInit == Init => SessionInv /\ Tended
<1> SUFFICES ASSUME Init PROVE SessionInv /\ Tended  OBVIOUS
<1>1. RatchetTypes /\ Sizes  BY RatchetTypesInit
<1>2. \A p \in Parties : session[p] = NoSession /\ calls[p] = {}  BY DEF Init
<1>3. \A p \in Parties : Copies(p) = {} /\ session[p].none  BY <1>2, InCopies, StoredType DEF Copies
<1>4. net = {} /\ opened = {} /\ opk  BY DEF Init
<1>5. Tended  BY <1>2, <1>3, <1>4, Sides DEF Tended, OneCall, SetUpOnce, Forgotten
<1>6. Flags  BY FlagsInit
<1> QED  BY <1>1, <1>5, <1>6 DEF SessionInv

LEMMA SessionInvStep ==
    ASSUME SessionInv, [Next]_vars
    PROVE  SessionInv'
<1>1. RatchetTypes' /\ Sizes'  BY RatchetTypesStep, SizesStep DEF SessionInv
<1>2. Flags' /\ (overlaps' = 0 => overlaps = 0)  BY FlagsStep DEF SessionInv
<1>3. ASSUME overlaps' = 0 PROVE Tended'
  <2>1. Flags /\ RatchetTypes /\ Sizes /\ OneCall /\ SetUpOnce /\ Forgotten
    BY <1>2, <1>3 DEF SessionInv, Tended
  <2> QED  BY <1>3, <2>1, OneCallStep, SetUpStep, ForgottenStep DEF Tended
<1> QED  BY <1>1, <1>2, <1>3 DEF SessionInv

(***************************************************************************)
(* Forward secrecy, in any order of delivery and with any number of calls  *)
(* in flight: until a call of a manager was begun during another, the key  *)
(* of a message that was decrypted is in no cache, and behind the chain.   *)
(***************************************************************************)
THEOREM ForwardSecrecy == Spec => []UsedKeysForgotten
<1>1. SessionInv => UsedKeysForgotten
  <2> SUFFICES ASSUME SessionInv, overlaps = 0, NEW m \in opened
               PROVE  LET s == session[Peer(m.from)]
                      IN  /\ \A x \in DOMAIN s.skipped : s.skipped[x] # m.key
                          /\ s.recvChain = m.key.chain => s.recvSteps > m.key.steps
    BY DEF UsedKeysForgotten
  <2> DEFINE p == Peer(m.from)
  <2>0. SetUpOnce /\ Forgotten  BY DEF SessionInv, Tended
  <2>1. m.from \in Parties  BY DEF SessionInv, RatchetTypes, MsgType
  <2>2. p \in Parties /\ m.from # p /\ (m.from = Alice => p = Bob) /\ (m.from = Bob => p = Alice)
        /\ (m.from = Alice \/ m.from = Bob)
    BY <2>1 DEF Peer, Parties, Alice, Bob
  <2>3. ~ session[p].none  BY <2>0, <2>2 DEF SetUpOnce
  <2>4. session[p] \in Copies(p)  BY <2>3, InCopies DEF Copies
  <2>5. Gone(session[p], m.key)  BY <2>0, <2>2, <2>4 DEF Forgotten
  <2> QED  BY <2>5 DEF Gone
<1> QED  BY <1>1, SessionInvInit, SessionInvStep, PTL DEF Spec

-----------------------------------------------------------------------------
(* Both ends in step.                                                      *)

(***************************************************************************)
(* One session has ratcheted once more than the other; two copies are at   *)
(* the same ratchet step.                                                  *)
(***************************************************************************)
Ahead(a, b) ==
    /\ a.rootKey = kdfRootKey(b.rootKey, dh(a.ours, b.ours))
    /\ a.theirs = b.ours /\ a.recvChain = b.rootKey
    /\ b.theirs < a.ours

SameStep(s, t) ==
    /\ s.rootKey = t.rootKey /\ s.ours = t.ours /\ s.theirs = t.theirs /\ s.recvChain = t.recvChain
    /\ s.sendCount >= t.sendCount

Exists(p) == ~ session[p].none

(***************************************************************************)
(* Where a copy s of the session old may be, with the peer's session at a. *)
(***************************************************************************)
OneStepOn(s, old, a) == SameStep(s, old) \/ (~ a.none /\ Ahead(a, old) /\ Ahead(s, a))
WellMade(s) == s.sendChain = s.rootKey /\ s.recvSteps = s.recvCount /\ s.rootKey # NoChain

InStep ==
    /\ Exists(Bob) => /\ Exists(Alice)
                      /\ Ahead(session[Alice], session[Bob]) \/ Ahead(session[Bob], session[Alice])
    /\ \A p \in Parties : \A s \in Copies(p) : OneStepOn(s, session[p], session[Peer(p)]) /\ WellMade(s)

(***************************************************************************)
(* What copy b of the receiver's session can do with message m, and what   *)
(* its cache holds.                                                        *)
(***************************************************************************)
Opens(b, m) ==
    m.rk = b.theirs =>
        /\ b.recvChain # NoChain /\ m.key = MessageKey(b.recvChain, m.n)
        /\ m.n >= b.recvCount \/ <<m.rk, m.n>> \in DOMAIN b.skipped

CacheRight(b) ==
    \A x \in DOMAIN b.skipped :
        /\ x[1] <= b.theirs
        /\ x[1] = b.theirs => b.skipped[x] = MessageKey(b.recvChain, x[2])

(***************************************************************************)
(* The messages of a party that its peer has yet to see.                   *)
(***************************************************************************)
OutgoingIn(p, N, C) == {m \in N : m.from = p} \cup {c.msg : c \in EncryptsIn(C)}
Outgoing(p) == OutgoingIn(p, net, calls[p])

(***************************************************************************)
(* A message under the sender's present key a.ours; any two messages; what *)
(* the receiver's copy b does with a message, and how far it has read.     *)
(***************************************************************************)
Current(m, a) == m.rk = a.ours => m.key = MessageKey(a.rootKey, m.n)
InOrder(m, o, a) ==
    /\ m.num = o.num \/ (m.rk = o.rk /\ m.n = o.n) => m = o
    /\ m.rk = a.ours /\ m.num < o.num => o.rk = a.ours
Reads(b, m, a) == m.rk \in {b.theirs, a.ours} /\ Opens(b, m)
Behind(b, a) == CacheRight(b) /\ (~ a.none => (b.theirs = a.ours => b.recvCount <= a.sendCount))

InFlight ==
    \A p \in Parties :
        /\ \A m \in Outgoing(p) :
             /\ Exists(p) /\ m.num < sent[p] /\ Current(m, session[p])
             /\ ~ Exists(Peer(p)) => m.rk = session[p].ours
             /\ \A b \in Copies(Peer(p)) : Reads(b, m, session[p])
             /\ \A o \in Outgoing(p) : InOrder(m, o, session[p])
        /\ \A m \in net : m.from = p /\ m.rk = session[p].ours => m.n < session[p].sendCount
        /\ \A b \in Copies(Peer(p)) : Behind(b, session[p])

(***************************************************************************)
(* The set-up message describes Alice's first root key.                    *)
(***************************************************************************)
FirstRoot(withOpk, ours) == kdfRootKey(x3dh(withOpk), dh(ours, BobSignedPreKey))
SetUpRight ==
    /\ \A m \in Outgoing(Alice) : m.first => m.n = 0 /\ session[Alice].rootKey = FirstRoot(m.withOpk, m.rk)
    /\ \A s \in Copies(Alice) : s.pending => s.rootKey = FirstRoot(s.withOpk, s.ours)

(***************************************************************************)
(* A call of decrypt took the message's own key, or threw for a reason it  *)
(* may.                                                                    *)
(***************************************************************************)
Agreed ==
    /\ \A p \in Parties : \A c \in calls[p] : c.kind = "decrypt" =>
         /\ c.result.error \in {"none", "skip", "no session"}
         /\ Stores(c) => c.result.key = c.msg.key
    /\ DecryptsUnlessSkipLimit
LEMMA SkipRight ==
    ASSUME NEW s \in SessionType, NEW target \in Nat, CacheRight(s), s.recvSteps = s.recvCount
    PROVE  LET t == skipMessageKeys(s, target)
           IN  /\ CacheRight(t) /\ t.recvSteps = t.recvCount
               /\ s.recvChain # NoChain /\ target >= s.recvCount => t.recvCount = target
               /\ \A o \in MsgType : Opens(s, o) /\ o.rk = s.theirs =>
                     o.n >= t.recvCount \/ <<o.rk, o.n>> \in DOMAIN t.skipped
<1> DEFINE t == skipMessageKeys(s, target)
           new == {<<s.theirs, i>> : i \in s.recvCount..(target - 1)}
<1>0. s.recvCount \in Nat /\ s.theirs \in Nat  BY DEF SessionType
<1>1. CASE s.recvChain = NoChain \/ s.recvCount >= target
  <2>1. t = s  BY <1>1, SkipFacts
  <2>2. s.recvChain # NoChain /\ target >= s.recvCount => s.recvCount = target  BY <1>0, <1>1
  <2> HIDE DEF t
  <2>3. \A o \in MsgType : Opens(s, o) /\ o.rk = s.theirs =>
            o.n >= t.recvCount \/ <<o.rk, o.n>> \in DOMAIN t.skipped
    BY <2>1 DEF Opens
  <2> QED  BY <2>1, <2>2, <2>3 DEF t
<1>2. CASE s.recvChain # NoChain /\ s.recvCount < target
  <2>1. /\ t.recvChain = s.recvChain /\ t.theirs = s.theirs /\ t.recvCount = target
        /\ t.recvSteps = s.recvSteps + (target - s.recvCount)
        /\ DOMAIN t.skipped = new \cup DOMAIN s.skipped
        /\ \A x \in new : t.skipped[x] = MessageKey(s.recvChain, s.recvSteps + (x[2] - s.recvCount))
        /\ \A x \in DOMAIN s.skipped \ new : t.skipped[x] = s.skipped[x]
    BY <1>2, SkipFacts
  <2>2. \A x \in new : x[1] = s.theirs /\ x[2] \in s.recvCount..(target - 1)  OBVIOUS
  <2>3. \A i \in s.recvCount..(target - 1) : <<s.theirs, i>> \in new  OBVIOUS
  <2> HIDE DEF new, t
  <2>4. t.recvSteps = t.recvCount  BY <1>0, <1>2, <2>1
  <2>5. CacheRight(t)
    <3> SUFFICES ASSUME NEW x \in DOMAIN t.skipped
                 PROVE  /\ x[1] <= t.theirs
                        /\ x[1] = t.theirs => t.skipped[x] = MessageKey(t.recvChain, x[2])
      BY DEF CacheRight
    <3>1. CASE x \in new
      <4>1. x[2] \in Nat  BY <1>0, <2>2, <3>1
      <4>2. s.recvSteps + (x[2] - s.recvCount) = x[2]  BY <1>0, <4>1
      <4> QED  BY <1>0, <2>1, <2>2, <3>1, <4>2
    <3>2. CASE x \in DOMAIN s.skipped \ new  BY <2>1, <3>2 DEF CacheRight
    <3> QED  BY <2>1, <3>1, <3>2
  <2>6. ASSUME NEW o \in MsgType, Opens(s, o), o.rk = s.theirs
        PROVE  o.n >= t.recvCount \/ <<o.rk, o.n>> \in DOMAIN t.skipped
    <3>1. o.n \in Nat  BY DEF MsgType
    <3>2. CASE <<o.rk, o.n>> \in DOMAIN s.skipped  BY <2>1, <3>2
    <3>3. CASE o.n >= s.recvCount
      <4>1. o.n >= target \/ o.n \in s.recvCount..(target - 1)  BY <1>0, <3>1, <3>3
      <4> QED  BY <2>1, <2>3, <2>6, <4>1
    <3> QED  BY <2>6, <3>2, <3>3 DEF Opens
  <2> QED  BY <1>2, <2>1, <2>4, <2>5, <2>6 DEF t
<1> QED  BY <1>0, <1>1, <1>2

(***************************************************************************)
(* TakeKey finds the message's own key, and every other message that could *)
(* be opened still can be.                                                 *)
(***************************************************************************)
LEMMA TakeOpens ==
    ASSUME NEW s \in SessionType, NEW m \in MsgType, CacheRight(s), s.recvSteps = s.recvCount,
           m.rk = s.theirs, Opens(s, m)
    PROVE  LET r == TakeKey(s, m)
               t == r.session
           IN  /\ r.error \in {"none", "skip"}
               /\ r.error = "none" =>
                    /\ r.key = m.key /\ CacheRight(t) /\ t.recvSteps = t.recvCount
                    /\ SameSending(s, t) /\ t.theirs = s.theirs /\ t.recvChain = s.recvChain
                    /\ t.recvCount = s.recvCount \/ t.recvCount = m.n + 1
                    /\ \A o \in MsgType : Opens(s, o) /\ ~ (o.rk = m.rk /\ o.n = m.n) => Opens(t, o)
<1> DEFINE r == TakeKey(s, m)
           t == r.session
           at == <<m.rk, m.n>>
<1>0. m.n \in Nat /\ s.recvCount \in Nat /\ s.recvChain # NoChain /\ m.key = MessageKey(s.recvChain, m.n)
  BY DEF SessionType, MsgType, Opens
<1>1. r.error = "none" => Cached(s, m, r) \/ Derived(s, m, r)  BY TakeFacts
<1>2. r.error \in {"none", "skip"}
  <2>1. r.error # "none" => Thrown(s, m, r)  BY TakeFacts
  <2> QED  BY <1>0, <2>1, ThrowType DEF Thrown
<1>3. ASSUME Cached(s, m, r)
      PROVE  /\ r.key = m.key /\ CacheRight(t) /\ t.recvSteps = t.recvCount
             /\ SameSending(s, t) /\ t.theirs = s.theirs /\ t.recvChain = s.recvChain
             /\ t.recvCount = s.recvCount
             /\ \A o \in MsgType : Opens(s, o) /\ ~ (o.rk = m.rk /\ o.n = m.n) => Opens(t, o)
  <2>1. /\ at \in DOMAIN s.skipped /\ r.key = s.skipped[at]
        /\ SameSending(s, t) /\ t.theirs = s.theirs /\ t.recvChain = s.recvChain
        /\ t.recvSteps = s.recvSteps /\ t.recvCount = s.recvCount
        /\ DOMAIN t.skipped = DOMAIN s.skipped \ {at}
        /\ \A x \in DOMAIN t.skipped : t.skipped[x] = s.skipped[x]
    BY <1>3 DEF Cached
  <2>2. at[1] = s.theirs /\ at[2] = m.n  OBVIOUS
  <2>3. \A o \in MsgType : ~ (o.rk = m.rk /\ o.n = m.n) => <<o.rk, o.n>> # at  OBVIOUS
  <2> HIDE DEF t, r, at
  <2>4. r.key = m.key  BY <1>0, <2>1, <2>2 DEF CacheRight
  <2>5. CacheRight(t)  BY <2>1 DEF CacheRight
  <2>6. \A o \in MsgType : Opens(s, o) /\ ~ (o.rk = m.rk /\ o.n = m.n) => Opens(t, o)
    BY <2>1, <2>3 DEF Opens
  <2> QED  BY <2>1, <2>4, <2>5, <2>6
<1>4. ASSUME Derived(s, m, r)
      PROVE  /\ r.key = m.key /\ CacheRight(t) /\ t.recvSteps = t.recvCount
             /\ SameSending(s, t) /\ t.theirs = s.theirs /\ t.recvChain = s.recvChain
             /\ t.recvCount = m.n + 1
             /\ \A o \in MsgType : Opens(s, o) /\ ~ (o.rk = m.rk /\ o.n = m.n) => Opens(t, o)
  <2> DEFINE a == skipMessageKeys(s, m.n)
  <2>1. /\ at \notin DOMAIN s.skipped
        /\ r.key = MessageKey(s.recvChain, a.recvSteps)
        /\ SameSending(s, t) /\ t.theirs = s.theirs /\ t.recvChain = s.recvChain
        /\ t.recvSteps = a.recvSteps + 1 /\ t.recvCount = m.n + 1
        /\ t.skipped = a.skipped
    BY <1>4 DEF Derived
  <2>2. m.n >= s.recvCount  BY <2>1 DEF Opens
  <2>3. /\ CacheRight(a) /\ a.recvSteps = a.recvCount /\ a.recvCount = m.n
        /\ \A o \in MsgType : Opens(s, o) /\ o.rk = s.theirs =>
               o.n >= a.recvCount \/ <<o.rk, o.n>> \in DOMAIN a.skipped
    BY <1>0, <2>2, SkipRight
  <2>4. a.theirs = s.theirs /\ a.recvChain = s.recvChain  BY <1>0, SkipFacts
  <2> HIDE DEF t, r, a
  <2>5. CacheRight(t)  BY <2>1, <2>3, <2>4 DEF CacheRight
  <2>6. ASSUME NEW o \in MsgType, Opens(s, o), ~ (o.rk = m.rk /\ o.n = m.n)
        PROVE  Opens(t, o)
    <3>1. SUFFICES ASSUME o.rk = s.theirs
                   PROVE  /\ t.recvChain # NoChain /\ o.key = MessageKey(t.recvChain, o.n)
                          /\ o.n >= t.recvCount \/ <<o.rk, o.n>> \in DOMAIN t.skipped
      BY <2>1 DEF Opens
    <3>2. o.n \in Nat /\ o.n # m.n  BY <2>6, <3>1 DEF MsgType
    <3>3. o.n >= m.n \/ <<o.rk, o.n>> \in DOMAIN a.skipped  BY <2>3, <2>6, <3>1
    <3>4. o.n >= m.n => o.n >= m.n + 1  BY <1>0, <3>2
    <3> QED  BY <2>1, <2>6, <3>1, <3>3, <3>4 DEF Opens
  <2> QED  BY <1>0, <2>1, <2>3, <2>5, <2>6
<1> QED  BY <1>1, <1>2, <1>3, <1>4

(***************************************************************************)
(* A ratchet step against the peer's present key a.ours arrives at the     *)
(* peer's sending chain, and one step ahead of it.                         *)
(***************************************************************************)
LEMMA StepOpens ==
    ASSUME NEW s \in SessionType, NEW a \in SessionType, NEW m \in MsgType, NEW new \in Nat,
           CacheRight(s), s.recvSteps = s.recvCount,
           Ahead(a, s), m.rk = a.ours, s.ours < new, a.rootKey # NoChain
    PROVE  LET t == Stepped(s, m, new)
           IN  /\ t \in SessionType /\ CacheRight(t) /\ t.recvSteps = t.recvCount /\ t.recvCount = 0
               /\ t.theirs = a.ours /\ t.recvChain = a.rootKey
               /\ Ahead(t, a) /\ t.sendChain = t.rootKey /\ t.rootKey # NoChain
               /\ \A o \in MsgType : Current(o, a) => Opens(t, o)
<1> DEFINE t == Stepped(s, m, new)
           b == skipMessageKeys(s, m.pn)
           root == kdfRootKey(s.rootKey, dh(s.ours, m.rk))
<1>0. m.pn \in Nat /\ s.theirs \in Nat /\ a.ours \in Nat /\ s.ours \in Nat  BY DEF MsgType, SessionType
<1>1. /\ t \in SessionType /\ t.recvChain = root /\ t.recvSteps = 0 /\ t.recvCount = 0
      /\ t.rootKey = kdfRootKey(root, dh(new, m.rk)) /\ t.sendChain = t.rootKey
      /\ t.ours = new /\ t.theirs = m.rk /\ t.skipped = b.skipped
      /\ Len(t.rootKey) = Len(s.rootKey) + 2
  BY ONLY SteppedFacts, s \in SessionType, m \in MsgType, new \in Nat
<1>2. CacheRight(b)  BY <1>0, SkipRight
<1>3. b \in SessionType /\ b.theirs = s.theirs  BY <1>0, SkipFacts
<1>4. root = a.rootKey
  <2>1. dh(s.ours, m.rk) = dh(a.ours, s.ours)  BY DEF dh
  <2> QED  BY <2>1 DEF Ahead
<1> HIDE DEF t, b, root
<1>5. \A x \in DOMAIN b.skipped : x[1] \in Nat /\ x[1] < t.theirs
  <2>1. \A x \in DOMAIN b.skipped : x[1] \in Nat  BY <1>3, CacheFacts DEF SessionType
  <2> QED  BY <1>0, <1>1, <1>2, <1>3, <2>1 DEF CacheRight, Ahead
<1>6. CacheRight(t)
  <2>1. \A x \in DOMAIN b.skipped : x[1] <= t.theirs /\ x[1] # t.theirs  BY <1>0, <1>1, <1>5
  <2> QED  BY <1>1, <2>1 DEF CacheRight
<1>7. Ahead(t, a)
  <2>1. a.theirs = s.ours /\ a.theirs < new  BY DEF Ahead
  <2> QED  BY <1>1, <1>4, <2>1 DEF Ahead
<1>8. ASSUME NEW o \in MsgType, Current(o, a) PROVE Opens(t, o)
  <2>1. o.n \in Nat  BY DEF MsgType
  <2>2. o.n >= 0  BY <2>1
  <2> QED  BY <1>1, <1>4, <1>8, <2>2 DEF Current, Opens
<1>9. t.rootKey # NoChain
  <2>1. Len(s.rootKey) \in Nat  BY DEF SessionType, Path
  <2>2. Len(NoChain) = 0  BY EmptySeq DEF NoChain
  <2>3. Len(t.rootKey) # 0  BY <1>1, <2>1
  <2> QED  BY <2>2, <2>3
<1> QED  BY <1>1, <1>4, <1>6, <1>7, <1>8, <1>9 DEF t

(***************************************************************************)
(* decrypt of m with session s, the sender being at a and O the messages   *)
(* on their way: it takes m's own key or throws by its limit, and what it  *)
(* stores is as far as s or one step on, and reads the rest of O.          *)
(***************************************************************************)
LEMMA ReceiveAgrees ==
    ASSUME NEW s \in SessionType, NEW a \in SessionType, NEW O \in SUBSET MsgType, NEW m \in O, NEW new \in Nat,
           WellMade(s), Behind(s, a), a.rootKey # NoChain, s.ours < new,
           Ahead(a, s) \/ Ahead(s, a),
           \A o \in O : Current(o, a) /\ Reads(s, o, a) /\ InOrder(m, o, a),
           m.rk = a.ours => m.n < a.sendCount,
           m.rk # s.theirs => \A o \in O : o.rk = a.ours
    PROVE  LET r == Receive(s, m, new)
               t == r.session
           IN  /\ r.error \in {"none", "skip"}
               /\ r.error = "none" =>
                    /\ r.key = m.key /\ WellMade(t) /\ Behind(t, a) /\ OneStepOn(t, s, a)
                    /\ \A o \in O \ {m} : Reads(t, o, a)
<1> DEFINE r == Receive(s, m, new)
           t == r.session
<1>0. /\ ~ a.none /\ s.recvCount \in Nat /\ a.sendCount \in Nat /\ s.sendCount \in Nat /\ m.n \in Nat
      /\ m \in MsgType
  BY DEF SessionType, MsgType
<1>1. \A o \in O \ {m} : ~ (o.rk = m.rk /\ o.n = m.n)  BY DEF InOrder
<1>2. CacheRight(s) /\ s.recvSteps = s.recvCount  BY DEF Behind, WellMade
<1>3. CASE s.theirs = m.rk
  <2>1. r = TakeKey(s, m)  BY <1>0, <1>3, ReceiveFacts
  <2>2. Opens(s, m)  BY DEF Reads
  <2>3. /\ r.error \in {"none", "skip"}
        /\ r.error = "none" =>
             /\ r.key = m.key /\ CacheRight(t) /\ t.recvSteps = t.recvCount
             /\ SameSending(s, t) /\ t.theirs = s.theirs /\ t.recvChain = s.recvChain
             /\ t.recvCount = s.recvCount \/ t.recvCount = m.n + 1
             /\ \A o \in MsgType : Opens(s, o) /\ ~ (o.rk = m.rk /\ o.n = m.n) => Opens(t, o)
    BY <1>0, <1>2, <1>3, <2>1, <2>2, TakeOpens
  <2> HIDE DEF t, r
  <2>4. SUFFICES ASSUME r.error = "none"
                 PROVE  /\ r.key = m.key /\ WellMade(t) /\ Behind(t, a) /\ OneStepOn(t, s, a)
                        /\ \A o \in O \ {m} : Reads(t, o, a)
    BY <2>3 DEF r, t
  <2>5. WellMade(t)  BY <2>3, <2>4 DEF WellMade, SameSending
  <2>6. OneStepOn(t, s, a)  BY <1>0, <2>3, <2>4 DEF OneStepOn, SameStep, SameSending
  <2>7. Behind(t, a)
    <3>1. t.theirs = a.ours => t.recvCount <= a.sendCount  BY <1>0, <1>3, <2>3, <2>4 DEF Behind
    <3> QED  BY <2>3, <2>4, <3>1 DEF Behind
  <2>8. \A o \in O \ {m} : Reads(t, o, a)  BY <1>1, <2>3, <2>4 DEF Reads
  <2> QED  BY <2>3, <2>4, <2>5, <2>6, <2>7, <2>8
<1>4. CASE s.theirs # m.rk
  <2> DEFINE u == Stepped(s, m, new)
  <2>1. m.rk = a.ours  BY <1>4 DEF Reads
  <2>2. Ahead(a, s)  BY <1>4, <2>1 DEF Ahead
  <2>3. /\ u \in SessionType /\ CacheRight(u) /\ u.recvSteps = u.recvCount /\ u.recvCount = 0
        /\ u.theirs = a.ours /\ u.recvChain = a.rootKey
        /\ Ahead(u, a) /\ u.sendChain = u.rootKey /\ u.rootKey # NoChain
        /\ \A o \in MsgType : Current(o, a) => Opens(u, o)
    BY <1>0, <1>2, <2>1, <2>2, StepOpens
  <2>4. r = Throw("skip") \/ r = TakeKey(u, m)  BY <1>0, <1>4, ReceiveFacts
  <2> HIDE DEF u
  <2>5. CASE r = Throw("skip")  BY <2>5, ThrowType
  <2>6. CASE r = TakeKey(u, m)
    <3>1. Opens(u, m)  BY <1>0, <2>3
    <3>2. /\ r.error \in {"none", "skip"}
          /\ r.error = "none" =>
               /\ r.key = m.key /\ CacheRight(t) /\ t.recvSteps = t.recvCount
               /\ SameSending(u, t) /\ t.theirs = u.theirs /\ t.recvChain = u.recvChain
               /\ t.recvCount = u.recvCount \/ t.recvCount = m.n + 1
               /\ \A o \in MsgType : Opens(u, o) /\ ~ (o.rk = m.rk /\ o.n = m.n) => Opens(t, o)
      BY <1>0, <2>1, <2>3, <2>6, <3>1, TakeOpens
    <3> HIDE DEF t, r
    <3>3. SUFFICES ASSUME r.error = "none"
                   PROVE  /\ r.key = m.key /\ WellMade(t) /\ Behind(t, a) /\ OneStepOn(t, s, a)
                          /\ \A o \in O \ {m} : Reads(t, o, a)
      BY <3>2 DEF r, t
    <3>4. WellMade(t)  BY <2>3, <3>2, <3>3 DEF WellMade, SameSending
    <3>5. OneStepOn(t, s, a)
      <4>1. Ahead(t, a)  BY <2>3, <3>2, <3>3 DEF Ahead, SameSending
      <4> QED  BY <1>0, <2>2, <4>1 DEF OneStepOn
    <3>6. Behind(t, a)
      <4>1. t.recvCount <= a.sendCount  BY <1>0, <2>1, <2>3, <3>2, <3>3
      <4> QED  BY <3>2, <3>3, <4>1 DEF Behind
    <3>7. \A o \in O \ {m} : Reads(t, o, a)
      <4>1. \A o \in O : o.rk = a.ours /\ o \in MsgType /\ Opens(u, o)  BY <1>4, <2>3
      <4> QED  BY <1>1, <3>2, <3>3, <4>1 DEF Reads
    <3> QED  BY <3>2, <3>3, <3>4, <3>5, <3>6, <3>7
  <2> QED  BY <2>4, <2>5, <2>6
<1> QED  BY <1>3, <1>4

-----------------------------------------------------------------------------
JointInv == InStep /\ InFlight /\ SetUpRight /\ Agreed

LEMMA InOutgoing ==
    ASSUME NEW p, NEW N, NEW C, NEW m
    PROVE  m \in OutgoingIn(p, N, C) <=> (m \in N /\ m.from = p) \/ \E c \in C : c.kind = "encrypt" /\ m = c.msg
  BY DEF OutgoingIn, EncryptsIn

(***************************************************************************)
(* Who has a session, once somebody has a copy of one.                     *)
(***************************************************************************)
LEMMA WhoExists ==
    ASSUME RatchetTypes, SetUpOnce, InStep, NEW p \in Parties
    PROVE  /\ Exists(p) => session[p] \in Copies(p) /\ session[p] \in SessionType
           /\ \A s \in Copies(p) : Exists(p) /\ s \in SessionType
           /\ Exists(Bob) => Exists(Alice)
           /\ Exists(p) /\ Exists(Peer(p)) =>
                Ahead(session[p], session[Peer(p)]) \/ Ahead(session[Peer(p)], session[p])
<1>1. Exists(p) => session[p] \in Copies(p)  BY InCopies DEF Exists, Copies
<1>2. \A s \in Copies(p) : s \in SessionType  BY CopyType
<1>3. p = Alice \/ p = Bob  BY DEF Parties
<1>4. \A s \in Copies(p) : Exists(p)  BY <1>3 DEF SetUpOnce, Exists
<1>5. Exists(Bob) => /\ Exists(Alice)
                     /\ Ahead(session[Alice], session[Bob]) \/ Ahead(session[Bob], session[Alice])
  BY DEF InStep
<1>6. (p = Alice /\ Peer(p) = Bob) \/ (p = Bob /\ Peer(p) = Alice)  BY <1>3 DEF Peer, Alice, Bob
<1> QED  BY <1>1, <1>2, <1>4, <1>5, <1>6

LEMMA RootLen ==
    ASSUME NEW c \in Path, NEW a \in Nat, NEW b \in Nat
    PROVE  Len(kdfRootKey(c, dh(a, b))) = Len(c) + 1
  BY RootFacts

(***************************************************************************)
(* Only one of two sessions is ahead.                                      *)
(***************************************************************************)
LEMMA OneAhead ==
    ASSUME NEW a \in SessionType, NEW b \in SessionType, Ahead(a, b)
    PROVE  ~ Ahead(b, a) /\ a.recvChain = b.rootKey
<1>1. /\ a.rootKey \in Path /\ b.rootKey \in Path /\ a.ours \in Nat /\ b.ours \in Nat
      /\ Len(a.rootKey) \in Nat /\ Len(b.rootKey) \in Nat
  BY DEF SessionType, Path
<1>2. Len(a.rootKey) = Len(b.rootKey) + 1
  <2>1. a.rootKey = kdfRootKey(b.rootKey, dh(a.ours, b.ours))  BY DEF Ahead
  <2>2. Len(kdfRootKey(b.rootKey, dh(a.ours, b.ours))) = Len(b.rootKey) + 1  BY ONLY <1>1, RootLen
  <2> QED  BY <2>1, <2>2
<1>3. ASSUME Ahead(b, a) PROVE Len(b.rootKey) = Len(a.rootKey) + 1
  <2>1. b.rootKey = kdfRootKey(a.rootKey, dh(b.ours, a.ours))  BY <1>3 DEF Ahead
  <2>2. Len(kdfRootKey(a.rootKey, dh(b.ours, a.ours))) = Len(a.rootKey) + 1  BY ONLY <1>1, RootLen
  <2> QED  BY <2>1, <2>2
<1>4. ~ Ahead(b, a)  BY <1>1, <1>2, <1>3
<1> QED  BY <1>4 DEF Ahead

(***************************************************************************)
(* A copy that listens for the sender's present key has its chain.         *)
(***************************************************************************)
LEMMA TheirsIsOurs ==
    ASSUME RatchetTypes, SetUpOnce, InStep, NEW p \in Parties, Exists(p),
           NEW b \in Copies(Peer(p)), b.theirs = session[p].ours
    PROVE  b.recvChain = session[p].rootKey
<1> DEFINE q == Peer(p)
           a == session[p]
<1>1. q \in Parties /\ Peer(q) = p  BY Sides
<1>2. Exists(q) /\ session[q] \in SessionType /\ a \in SessionType  BY <1>1, WhoExists
<1>3. Ahead(a, session[q]) \/ Ahead(session[q], a)  BY <1>2, WhoExists
<1>4. OneStepOn(b, session[q], a)  BY <1>1 DEF InStep
<1>5. CASE Ahead(b, a)  BY <1>5 DEF Ahead
<1>6. CASE SameStep(b, session[q])
  <2>1. CASE Ahead(session[q], a)  BY <1>6, <2>1 DEF Ahead, SameStep
  <2>2. CASE Ahead(a, session[q])
    <3>1. session[q].theirs = a.ours /\ session[q].theirs < a.ours  BY <1>6, <2>2 DEF Ahead, SameStep
    <3>2. a.ours \in Nat  BY <1>2 DEF SessionType
    <3> QED  BY <3>1, <3>2
  <2> QED  BY <1>3, <2>1, <2>2
<1> QED  BY <1>4, <1>5, <1>6 DEF OneStepOn

-----------------------------------------------------------------------------
(* The steps keep both ends in step.                                       *)

LEMMA JointBundle ==
    ASSUME RatchetTypes, SetUpOnce, JointInv, NEW w \in BOOLEAN, initSessionFromBundle(w)
    PROVE  JointInv'
<1> DEFINE s == InitiatorSession(w)
<1>0. Alice \in Parties /\ Bob \in Parties /\ Alice # Bob /\ Peer(Alice) = Bob /\ Peer(Bob) = Alice
      /\ \A p \in Parties : p = Alice \/ p = Bob
  BY DEF Parties, Alice, Bob, Peer
<1>1. /\ s \in SessionType /\ session' = [session EXCEPT ![Alice] = s]
      /\ \A p \in Parties : \A t \in Copies(p)' : t \in Copies(p) \/ (p = Alice /\ t = s)
  BY BundleStep
<1>2. session[Alice].none /\ UNCHANGED <<calls, net, sent, failed>>  BY DEF initSessionFromBundle
<1>3. session[Bob].none /\ Copies(Bob) = {} /\ Copies(Alice) = {}  BY <1>2 DEF SetUpOnce, Unset
<1>4. \A p \in Parties : Outgoing(p) = {} /\ Outgoing(p)' = {}
  <2>1. \A p \in Parties : Outgoing(p) = {}  BY <1>0, <1>2, <1>3 DEF JointInv, InFlight, Exists
  <2> QED  BY <1>2, <2>1 DEF Outgoing
<1>5. /\ s.sendChain = s.rootKey /\ Len(s.rootKey) = 2 /\ s.recvSteps = s.recvCount
      /\ DOMAIN s.skipped = {} /\ s.rootKey = FirstRoot(w, fresh) /\ s.ours = fresh /\ s.withOpk = w
  BY <1>1, InitiatorFacts DEF RatchetTypes, FirstRoot
<1> HIDE DEF s
<1>6. session'[Alice] = s /\ session'[Bob] = session[Bob]  BY <1>0, <1>1 DEF RatchetTypes
<1>7. (\A t \in Copies(Alice)' : t = s) /\ Copies(Bob)' = {}  BY <1>0, <1>1, <1>3
<1>8. WellMade(s) /\ SameStep(s, s)
  <2>1. Len(NoChain) = 0  BY EmptySeq DEF NoChain
  <2>2. s.sendCount \in Nat  BY <1>1 DEF SessionType
  <2>3. s.rootKey # NoChain
    <3>1. Len(s.rootKey) # Len(NoChain)  BY <1>5, <2>1
    <3> QED  BY <3>1
  <2>4. s.sendCount >= s.sendCount  BY <2>2
  <2>5. SameStep(s, s)  BY <2>4 DEF SameStep
  <2>6. WellMade(s)  BY <1>5, <2>3 DEF WellMade
  <2> QED  BY <2>5, <2>6
<1>9. InStep'
  <2>1. ~ Exists(Bob)'  BY <1>3, <1>6 DEF Exists
  <2>2. \A p \in Parties : \A t \in Copies(p)' : OneStepOn(t, session'[p], session'[Peer(p)]) /\ WellMade(t)
    BY <1>0, <1>6, <1>7, <1>8 DEF OneStepOn
  <2> QED  BY <2>1, <2>2 DEF InStep
<1>10. InFlight'
  <2>1. \A m \in net' : FALSE
    <3>1. \A m \in net : m.from \in Parties  BY DEF RatchetTypes, MsgType
    <3>2. \A m \in net : m \in Outgoing(m.from)  BY InOutgoing DEF Outgoing
    <3> QED  BY <1>2, <1>4, <3>1, <3>2
  <2>2. \A p \in Parties : \A b \in Copies(Peer(p))' : Behind(b, session'[p])
    <3>1. CacheRight(s)  BY <1>5 DEF CacheRight
    <3> QED  BY <1>0, <1>3, <1>6, <1>7, <3>1 DEF Behind
  <2> QED  BY <1>4, <2>1, <2>2 DEF InFlight
<1>11. SetUpRight'  BY <1>0, <1>4, <1>5, <1>7 DEF SetUpRight
<1>12. Agreed'  BY <1>2 DEF JointInv, Agreed, DecryptsUnlessSkipLimit
<1> QED  BY <1>9, <1>10, <1>11, <1>12 DEF JointInv

LEMMA JointEncrypt ==
    ASSUME Flags, overlaps' = 0, RatchetTypes, SetUpOnce, JointInv, NEW p \in Parties, encrypt(p)
    PROVE  JointInv'
<1> DEFINE s == session[p]
           M == Message(p, s)
           t == Advanced(s)
<1>0. Peer(p) \in Parties /\ Peer(p) # p /\ Peer(Peer(p)) = p /\ \A q \in Parties : q = p \/ q = Peer(p)
  BY Sides
<1>1. PICK call : /\ call.kind = "encrypt" /\ call.msg = M
                  /\ calls' = [calls EXCEPT ![p] = calls[p] \cup {call}]
  BY EncryptStep
<1>2. /\ s \in SessionType /\ s \in Copies(p)
      /\ \A q \in Parties : \A b \in Copies(q)' : b \in Copies(q) \/ (q = p /\ b = t)
  BY EncryptStep
<1>3. UNCHANGED <<session, net, failed>> /\ sent' = [sent EXCEPT ![p] = @ + 1] /\ Exists(p)
  BY DEF encrypt, Exists
<1>4. /\ M \in MsgType /\ M.from = p /\ M.num = sent[p] /\ M.rk = s.ours
      /\ M.n = s.sendCount /\ M.withOpk = s.withOpk
      /\ M.key = MessageKey(s.sendChain, s.sendCount)
      /\ M.first <=> s.pending /\ s.sendCount = 0
      /\ t.sendCount = s.sendCount + 1 /\ (t.pending => s.pending)
      /\ t.rootKey = s.rootKey /\ t.sendChain = s.sendChain /\ t.ours = s.ours /\ t.theirs = s.theirs
      /\ t.recvChain = s.recvChain /\ t.recvSteps = s.recvSteps /\ t.recvCount = s.recvCount
      /\ t.skipped = s.skipped /\ t.withOpk = s.withOpk
  <2>1. sent[p] \in Nat  BY DEF RatchetTypes
  <2> QED  BY <1>2, <2>1, EncryptFacts
<1>5. calls[p] = {}
  <2>1. \E c : Begin(p, c)  BY DEF encrypt
  <2> QED  BY <2>1, NoneInFlight
<1>6. s.sendCount \in Nat /\ WellMade(s) /\ s.pending \in BOOLEAN  BY <1>2 DEF SessionType, JointInv, InStep
<1> HIDE DEF s, M, t
<1>7. \A q \in Parties : \A m : m \in Outgoing(q)' => m \in Outgoing(q) \/ (q = p /\ m = M)
  <2> SUFFICES ASSUME NEW q \in Parties, NEW m \in Outgoing(q)' PROVE m \in Outgoing(q) \/ (q = p /\ m = M)
    OBVIOUS
  <2>1. (m \in net /\ m.from = q) \/ \E c \in calls'[q] : c.kind = "encrypt" /\ m = c.msg
    BY <1>3, InOutgoing DEF Outgoing
  <2>2. \A c \in calls'[q] : c \in calls[q] \/ (q = p /\ c = call)  BY <1>1 DEF RatchetTypes
  <2> QED  BY <1>1, <2>1, <2>2, InOutgoing DEF Outgoing
<1>8. \A m \in Outgoing(p) : m \in net /\ m.from = p  BY <1>5, InOutgoing DEF Outgoing
<1>9. InStep'
  <2>1. SameStep(t, s) /\ WellMade(t)
    <3>1. t.sendCount >= s.sendCount  BY <1>4, <1>6
    <3>2. SameStep(t, s)  BY <1>4, <3>1 DEF SameStep
    <3>3. WellMade(t)  BY <1>4, <1>6 DEF WellMade
    <3> QED  BY <3>2, <3>3
  <2>2. \A q \in Parties : \A b \in Copies(q)' : OneStepOn(b, session[q], session[Peer(q)]) /\ WellMade(b)
    BY <1>2, <2>1 DEF OneStepOn, JointInv, InStep, s
  <2> QED  BY <1>3, <2>2 DEF JointInv, InStep, Exists
<1>10. \A a, m : Reads(s, m, a) => Reads(t, m, a)  BY <1>4 DEF Reads, Opens
<1>11. \A b \in Copies(Peer(p)) : Reads(b, M, s)
  <2> SUFFICES ASSUME NEW b \in Copies(Peer(p)) PROVE Opens(b, M)  BY <1>4 DEF Reads
  <2> SUFFICES ASSUME b.theirs = s.ours
               PROVE  /\ b.recvChain # NoChain /\ M.key = MessageKey(b.recvChain, M.n) /\ M.n >= b.recvCount
    BY <1>4 DEF Opens
  <2>1. b.recvChain = s.rootKey  BY <1>3, TheirsIsOurs DEF JointInv, s
  <2>2. Behind(b, s) /\ ~ s.none  BY <1>3 DEF JointInv, InFlight, Exists, s
  <2>3. b.recvCount <= s.sendCount /\ b.recvCount \in Nat
    <3>1. b \in SessionType  BY <1>0, CopyType
    <3> QED  BY <2>2, <3>1 DEF Behind, SessionType
  <2> QED  BY <1>4, <1>6, <2>1, <2>3 DEF WellMade
<1>12. InFlight'
  <2> SUFFICES ASSUME NEW q \in Parties
               PROVE  /\ \A m \in Outgoing(q)' :
                            /\ Exists(q) /\ m.num < sent'[q] /\ Current(m, session[q])
                            /\ ~ Exists(Peer(q)) => m.rk = session[q].ours
                            /\ \A b \in Copies(Peer(q))' : Reads(b, m, session[q])
                            /\ \A o \in Outgoing(q)' : InOrder(m, o, session[q])
                      /\ \A m \in net : m.from = q /\ m.rk = session[q].ours => m.n < session[q].sendCount
                      /\ \A b \in Copies(Peer(q))' : Behind(b, session[q])
    BY <1>3 DEF InFlight, Exists
  <2>0. Peer(q) \in Parties  BY Sides
  <2>1. /\ \A m \in Outgoing(q) :
             /\ Exists(q) /\ m.num < sent[q] /\ Current(m, session[q])
             /\ ~ Exists(Peer(q)) => m.rk = session[q].ours
             /\ \A b \in Copies(Peer(q)) : Reads(b, m, session[q])
             /\ \A o \in Outgoing(q) : InOrder(m, o, session[q])
        /\ \A m \in net : m.from = q /\ m.rk = session[q].ours => m.n < session[q].sendCount
        /\ \A b \in Copies(Peer(q)) : Behind(b, session[q])
    BY DEF JointInv, InFlight
  <2>2. \A b \in Copies(Peer(q))' : Behind(b, session[q])
    <3>1. \A a : Behind(s, a) => Behind(t, a)  BY <1>4 DEF Behind, CacheRight
    <3> QED  BY <1>2, <2>0, <2>1, <3>1
  <2>3. \A m \in Outgoing(q) : \A b \in Copies(Peer(q))' : Reads(b, m, session[q])
    BY <1>2, <1>10, <2>0, <2>1
  <2>4. \A m \in Outgoing(q) : m.num \in Nat /\ m.num < sent'[q] /\ m.num < sent[q]
    <3>1. \A m \in Outgoing(q) : m \in MsgType
      <4>1. \A c \in calls[q] : c.msg \in MsgType
        <5>1. \A c \in calls[q] : c \in CallType  BY DEF RatchetTypes
        <5> QED  BY <5>1 DEF CallType
      <4> QED  BY <4>1, InOutgoing DEF Outgoing, RatchetTypes
    <3>2. \A m \in Outgoing(q) : m.num \in Nat  BY <3>1 DEF MsgType
    <3>3. sent[q] \in Nat /\ sent'[q] \in {sent[q], sent[q] + 1}  BY <1>3 DEF RatchetTypes
    <3> QED  BY <2>1, <3>2, <3>3
  <2>5. CASE q # p  BY <1>7, <2>1, <2>2, <2>3, <2>4, <2>5
  <2>6. CASE q = p
    <3>1. session[q] = s  BY <2>6 DEF s
    <3>2. M.num < sent'[q] /\ M.num \in Nat /\ M.num = sent[q]
      <4>1. sent[p] \in Nat /\ sent'[p] = sent[p] + 1  BY <1>3 DEF RatchetTypes
      <4> QED  BY <1>4, <2>6, <4>1
    <3>3. Current(M, s)  BY <1>4, <1>6 DEF Current, WellMade
    <3>4. \A b \in Copies(Peer(q))' : Reads(b, M, s)  BY <1>0, <1>2, <1>11, <2>6
    <3>5. \A m \in Outgoing(q) : InOrder(m, M, s) /\ InOrder(M, m, s)
      <4> SUFFICES ASSUME NEW m \in Outgoing(q) PROVE InOrder(m, M, s) /\ InOrder(M, m, s)  OBVIOUS
      <4>1. m.num # M.num /\ ~ (M.num < m.num)  BY <2>4, <3>2
      <4>2. ~ (m.rk = M.rk /\ m.n = M.n)
        <5>1. m \in net /\ m.from = q  BY <1>8, <2>6
        <5>2. m.rk = s.ours => m.n < s.sendCount  BY <2>1, <3>1, <5>1
        <5> QED  BY <1>4, <1>6, <5>2
      <4> QED  BY <1>4, <4>1, <4>2 DEF InOrder
    <3>6. InOrder(M, M, s)  BY <1>4 DEF InOrder
    <3>7. \A m \in Outgoing(q)' : m \in Outgoing(q) \/ m = M  BY <1>7
    <3>8. \A m \in Outgoing(q)' : \A o \in Outgoing(q)' : InOrder(m, o, s)
      BY <2>1, <3>1, <3>5, <3>6, <3>7
    <3>9. \A m \in Outgoing(q)' : Exists(q) /\ m.num < sent'[q] /\ Current(m, s)
      BY <1>3, <2>1, <2>4, <2>6, <3>1, <3>2, <3>3, <3>7
    <3>10. \A m \in Outgoing(q)' : /\ ~ Exists(Peer(q)) => m.rk = s.ours
                                   /\ \A b \in Copies(Peer(q))' : Reads(b, m, s)
      BY <1>4, <2>1, <2>3, <3>1, <3>4, <3>7
    <3> QED  BY <2>1, <2>2, <3>1, <3>8, <3>9, <3>10
  <2> QED  BY <2>5, <2>6
<1>13. SetUpRight'
  <2>1. \A m \in Outgoing(Alice)' : m.first => m.n = 0 /\ session[Alice].rootKey = FirstRoot(m.withOpk, m.rk)
    <3> SUFFICES ASSUME NEW m \in Outgoing(Alice)', m.first
                 PROVE  m.n = 0 /\ session[Alice].rootKey = FirstRoot(m.withOpk, m.rk)
      OBVIOUS
    <3>1. CASE m \in Outgoing(Alice)  BY <3>1 DEF JointInv, SetUpRight
    <3>2. CASE p = Alice /\ m = M
      <4>1. s.pending /\ s.sendCount = 0  BY <1>4, <3>2
      <4>2. s.rootKey = FirstRoot(s.withOpk, s.ours)  BY <1>2, <3>2, <4>1 DEF JointInv, SetUpRight
      <4> QED  BY <1>4, <3>2, <4>1, <4>2 DEF s
    <3> QED  BY <1>7, <3>1, <3>2, Sides
  <2>2. ASSUME NEW b \in Copies(Alice)', b.pending PROVE b.rootKey = FirstRoot(b.withOpk, b.ours)
    <3>1. CASE b \in Copies(Alice)  BY <2>2, <3>1 DEF JointInv, SetUpRight
    <3>2. CASE p = Alice /\ b = t
      <4>1. s \in Copies(Alice) /\ s.pending  BY <1>2, <1>4, <2>2, <3>2
      <4>2. s.rootKey = FirstRoot(s.withOpk, s.ours)  BY <4>1 DEF JointInv, SetUpRight
      <4> QED  BY <1>4, <3>2, <4>2
    <3> QED  BY <1>2, <3>1, <3>2, Sides
  <2> QED  BY <1>3, <2>1, <2>2 DEF SetUpRight
<1>14. Agreed'
  <2>1. \A q \in Parties : \A c \in calls'[q] : c \in calls[q] \/ c.kind = "encrypt"  BY <1>1 DEF RatchetTypes
  <2> QED  BY <1>3, <2>1 DEF JointInv, Agreed, DecryptsUnlessSkipLimit
<1> QED  BY <1>9, <1>12, <1>13, <1>14 DEF JointInv

LEMMA OutgoingType ==
    ASSUME RatchetTypes, NEW p \in Parties
    PROVE  \A m \in Outgoing(p) : m \in MsgType
<1>1. \A c \in calls[p] : c.msg \in MsgType
  <2>1. \A c \in calls[p] : c \in CallType  BY DEF RatchetTypes
  <2> QED  BY <2>1 DEF CallType
<1> QED  BY <1>1, InOutgoing DEF Outgoing, RatchetTypes

(***************************************************************************)
(* A step that stores nothing new, or a copy at the same ratchet step.     *)
(***************************************************************************)
Stays(s, t) == /\ t.rootKey = s.rootKey /\ t.ours = s.ours /\ t.theirs = s.theirs /\ t.recvChain = s.recvChain
               /\ \A n \in Nat : n <= s.sendCount => n <= t.sendCount
               /\ \A n \in Nat : n < s.sendCount => n < t.sendCount

LEMMA JointCarries ==
    ASSUME RatchetTypes, JointInv, sent' = sent,
           \A p \in Parties : /\ Copies(p)' \subseteq Copies(p) /\ Outgoing(p)' \subseteq Outgoing(p)
                              /\ session'[p].none = session[p].none /\ Stays(session[p], session'[p]),
           \A p \in Parties : session'[p] = session[p] \/ \A b \in Copies(p)' : SameStep(b, session'[p]),
           \A m \in net' : m \in net \/ (m.from \in Parties => m.n < session'[m.from].sendCount)
    PROVE  InStep' /\ InFlight' /\ SetUpRight'
<1>0. Alice \in Parties /\ Bob \in Parties /\ \A p \in Parties : Peer(p) \in Parties /\ Exists(p)' = Exists(p)
  BY Sides DEF Exists
<1>1. \A p \in Parties : /\ session'[p].rootKey = session[p].rootKey /\ session'[p].ours = session[p].ours
                         /\ session'[p].theirs = session[p].theirs /\ session'[p].recvChain = session[p].recvChain
  BY DEF Stays
<1>2. InStep'
  <2>1. Exists(Bob)' => /\ Exists(Alice)'
                        /\ Ahead(session'[Alice], session'[Bob]) \/ Ahead(session'[Bob], session'[Alice])
    BY <1>0, <1>1 DEF JointInv, InStep, Ahead
  <2>2. ASSUME NEW p \in Parties, NEW b \in Copies(p)'
        PROVE  OneStepOn(b, session'[p], session'[Peer(p)]) /\ WellMade(b)
    <3>1. b \in Copies(p)  OBVIOUS
    <3>2. OneStepOn(b, session[p], session[Peer(p)]) /\ WellMade(b)  BY <3>1 DEF JointInv, InStep
    <3>3. CASE SameStep(b, session'[p])  BY <3>2, <3>3 DEF OneStepOn
    <3>4. CASE session'[p] = session[p]
      <4>1. CASE SameStep(b, session[p])  BY <3>2, <3>4, <4>1 DEF OneStepOn
      <4>2. CASE ~ session[Peer(p)].none /\ Ahead(session[Peer(p)], session[p]) /\ Ahead(b, session[Peer(p)])
        <5>1. ~ session'[Peer(p)].none  BY <1>0, <4>2
        <5>2. Ahead(session'[Peer(p)], session'[p]) /\ Ahead(b, session'[Peer(p)])
          BY <1>0, <1>1, <4>2 DEF Ahead
        <5> QED  BY <3>2, <5>1, <5>2 DEF OneStepOn
      <4> QED  BY <3>2, <4>1, <4>2 DEF OneStepOn
    <3> QED  BY <3>3, <3>4
  <2> QED  BY <2>1, <2>2 DEF InStep
<1>3. InFlight'
  <2> SUFFICES ASSUME NEW p \in Parties
               PROVE  /\ \A m \in Outgoing(p)' :
                            /\ Exists(p)' /\ m.num < sent'[p] /\ Current(m, session'[p])
                            /\ ~ Exists(Peer(p))' => m.rk = session'[p].ours
                            /\ \A b \in Copies(Peer(p))' : Reads(b, m, session'[p])
                            /\ \A o \in Outgoing(p)' : InOrder(m, o, session'[p])
                      /\ \A m \in net' : m.from = p /\ m.rk = session'[p].ours => m.n < session'[p].sendCount
                      /\ \A b \in Copies(Peer(p))' : Behind(b, session'[p])
    BY DEF InFlight
  <2>1. /\ \A m \in Outgoing(p) :
             /\ Exists(p) /\ m.num < sent[p] /\ Current(m, session[p])
             /\ ~ Exists(Peer(p)) => m.rk = session[p].ours
             /\ \A b \in Copies(Peer(p)) : Reads(b, m, session[p])
             /\ \A o \in Outgoing(p) : InOrder(m, o, session[p])
        /\ \A m \in net : m.from = p /\ m.rk = session[p].ours => m.n < session[p].sendCount
        /\ \A b \in Copies(Peer(p)) : Behind(b, session[p])
    BY DEF JointInv, InFlight
  <2>2. \A m : Current(m, session[p]) => Current(m, session'[p])  BY <1>1 DEF Current
  <2>3. \A b, m : Reads(b, m, session[p]) => Reads(b, m, session'[p])  BY <1>1 DEF Reads
  <2>4. \A m, o : InOrder(m, o, session[p]) => InOrder(m, o, session'[p])  BY <1>1 DEF InOrder
  <2>5. ASSUME NEW b \in Copies(Peer(p))' PROVE Behind(b, session'[p])
    <3>1. b \in Copies(Peer(p)) /\ Behind(b, session[p])  BY <1>0, <2>1
    <3>2. b.recvCount \in Nat  BY <1>0, <3>1, CopyType DEF SessionType
    <3>3. session'[p].none = session[p].none /\ Stays(session[p], session'[p])  OBVIOUS
    <3> QED  BY <3>1, <3>2, <3>3 DEF Behind, Stays
  <2>6. \A m \in Outgoing(p)' :
             /\ Exists(p)' /\ m.num < sent'[p] /\ Current(m, session'[p])
             /\ ~ Exists(Peer(p))' => m.rk = session'[p].ours
    BY <1>0, <1>1, <2>1, <2>2
  <2>7. \A m \in Outgoing(p)' :
             /\ \A b \in Copies(Peer(p))' : Reads(b, m, session'[p])
             /\ \A o \in Outgoing(p)' : InOrder(m, o, session'[p])
    BY <1>0, <2>1, <2>3, <2>4
  <2>8. ASSUME NEW m \in net', m.from = p, m.rk = session'[p].ours PROVE m.n < session'[p].sendCount
    <3>1. CASE m \in net
      <4>1. m.n \in Nat  BY <3>1 DEF RatchetTypes, MsgType
      <4>2. m.n < session[p].sendCount  BY <1>1, <2>1, <2>8, <3>1
      <4>3. Stays(session[p], session'[p])  OBVIOUS
      <4> QED  BY <4>1, <4>2, <4>3 DEF Stays
    <3> QED  BY <2>8, <3>1
  <2> QED  BY <2>5, <2>6, <2>7, <2>8
<1>4. SetUpRight'  BY <1>0, <1>1 DEF JointInv, SetUpRight
<1> QED  BY <1>2, <1>3, <1>4


(***************************************************************************)
(* A call of decrypt stores a session that has ratcheted: nobody has heard *)
(* of its new key pair yet.                                                *)
(***************************************************************************)
LEMMA JointRatchets ==
    ASSUME RatchetTypes, SetUpOnce, JointInv, SetUpOnce', sent' = sent, net' \subseteq net,
           NEW p \in Parties, NEW t \in SessionType, Exists(p), Exists(Peer(p)),
           Ahead(session[Peer(p)], session[p]), Ahead(t, session[Peer(p)]), t \in Copies(p),
           session' = [session EXCEPT ![p] = t], calls'[p] = {}, \A b \in Copies(p)' : b = t,
           \A q \in Parties : Copies(q)' \subseteq Copies(q) /\ Outgoing(q)' \subseteq Outgoing(q)
    PROVE  InStep' /\ InFlight' /\ SetUpRight'
<1> DEFINE q == Peer(p)
           s == session[p]
           a == session[q]
<1>0. /\ q \in Parties /\ q # p /\ Peer(q) = p /\ (\A r \in Parties : r = p \/ r = q)
      /\ Alice \in Parties /\ Bob \in Parties /\ Alice # Bob
  BY Sides
<1>1. s \in SessionType /\ a \in SessionType /\ a \in Copies(q)  BY <1>0, WhoExists DEF JointInv
<1>2. session'[p] = t /\ session'[q] = a /\ Exists(p)' /\ Exists(q)'
  <2>1. session'[p] = t /\ session'[q] = a  BY <1>0 DEF RatchetTypes
  <2> QED  BY <2>1 DEF Exists, SessionType
<1>3. Ahead(a, s) /\ Ahead(t, a) /\ ~ Ahead(s, a)  BY <1>1, OneAhead
<1>4. a.theirs = s.ours /\ s.ours # t.ours
  <2>1. s.ours \in Nat /\ t.ours \in Nat /\ a.theirs \in Nat  BY <1>1 DEF SessionType
  <2>2. a.theirs = s.ours /\ a.theirs < t.ours  BY <1>3 DEF Ahead
  <2> QED  BY <2>1, <2>2
<1>5. \A b \in Copies(q) : SameStep(b, a) /\ WellMade(b) /\ b.theirs = s.ours
  BY <1>0, <1>3, <1>4 DEF JointInv, InStep, OneStepOn, SameStep
<1>6. \A m \in Outgoing(p) : m.rk = s.ours  BY <1>1, <1>4 DEF JointInv, InFlight, Reads
<1> HIDE DEF q, s, a
<1>7. InStep'
  <2>1. Exists(Bob)' => /\ Exists(Alice)'
                        /\ Ahead(session'[Alice], session'[Bob]) \/ Ahead(session'[Bob], session'[Alice])
    BY <1>0, <1>2, <1>3
  <2>2. SameStep(t, t) /\ WellMade(t)
    <3>1. t.sendCount >= t.sendCount  BY DEF SessionType
    <3>2. WellMade(t)  BY DEF JointInv, InStep
    <3> QED  BY <3>1, <3>2 DEF SameStep
  <2>3. \A r \in Parties : \A b \in Copies(r)' : OneStepOn(b, session'[r], session'[Peer(r)]) /\ WellMade(b)
    BY <1>0, <1>2, <1>5, <2>2 DEF OneStepOn
  <2> QED  BY <2>1, <2>3 DEF InStep
<1>8. /\ \A m \in Outgoing(p)' :
             /\ Exists(p)' /\ m.num < sent'[p] /\ Current(m, session'[p])
             /\ ~ Exists(q)' => m.rk = session'[p].ours
             /\ \A b \in Copies(q)' : Reads(b, m, session'[p])
             /\ \A o \in Outgoing(p)' : InOrder(m, o, session'[p])
      /\ \A m \in net' : m.from = p /\ m.rk = session'[p].ours => m.n < session'[p].sendCount
      /\ \A b \in Copies(q)' : Behind(b, session'[p])
  <2>1. /\ \A m \in Outgoing(p) :
             /\ m.num < sent[p]
             /\ \A b \in Copies(q) : Reads(b, m, s)
             /\ \A o \in Outgoing(p) : InOrder(m, o, s)
        /\ \A b \in Copies(q) : Behind(b, s)
    BY DEF JointInv, InFlight, q, s
  <2>2. ASSUME NEW m \in Outgoing(p)'
        PROVE  /\ m.num < sent'[p] /\ Current(m, t)
               /\ \A b \in Copies(q)' : Reads(b, m, t)
               /\ \A o \in Outgoing(p)' : InOrder(m, o, t)
    <3>1. m \in Outgoing(p) /\ m.rk = s.ours  BY <1>6
    <3>2. Current(m, t)  BY <1>4, <3>1 DEF Current
    <3>3. \A b \in Copies(q)' : Reads(b, m, t)  BY <1>0, <1>5, <2>1, <3>1 DEF Reads
    <3>4. \A o \in Outgoing(p)' : InOrder(m, o, t)  BY <1>4, <2>1, <3>1 DEF InOrder
    <3> QED  BY <2>1, <3>1, <3>2, <3>3, <3>4
  <2>3. \A m \in net' : m.from = p => m.rk # t.ours
    <3>1. \A m \in net : m.from = p => m \in Outgoing(p)  BY InOutgoing DEF Outgoing
    <3> QED  BY <1>4, <1>6, <3>1
  <2>4. \A b \in Copies(q)' : Behind(b, t)  BY <1>0, <1>4, <1>5, <2>1 DEF Behind
  <2> QED  BY <1>2, <2>2, <2>3, <2>4
<1>9. /\ \A m \in Outgoing(q)' :
             /\ Exists(q)' /\ m.num < sent'[q] /\ Current(m, session'[q])
             /\ ~ Exists(p)' => m.rk = session'[q].ours
             /\ \A b \in Copies(p)' : Reads(b, m, session'[q])
             /\ \A o \in Outgoing(q)' : InOrder(m, o, session'[q])
      /\ \A m \in net' : m.from = q /\ m.rk = session'[q].ours => m.n < session'[q].sendCount
      /\ \A b \in Copies(p)' : Behind(b, session'[q])
  <2>1. /\ \A m \in Outgoing(q) :
             /\ m.num < sent[q] /\ Current(m, a)
             /\ \A b \in Copies(p) : Reads(b, m, a)
             /\ \A o \in Outgoing(q) : InOrder(m, o, a)
        /\ \A m \in net : m.from = q /\ m.rk = a.ours => m.n < a.sendCount
        /\ \A b \in Copies(p) : Behind(b, a)
    BY <1>0 DEF JointInv, InFlight, a
  <2> QED  BY <1>0, <1>2, <2>1
<1>10. InFlight'
  BY <1>0, <1>8, <1>9 DEF InFlight, q
<1>11. SetUpRight'
  <2>1. ASSUME NEW m \in Outgoing(Alice)', m.first
        PROVE  m.n = 0 /\ session'[Alice].rootKey = FirstRoot(m.withOpk, m.rk)
    <3>1. CASE p = Alice
      <4>1. m \in net'  BY <3>1, InOutgoing DEF Outgoing
      <4>2. session'[Bob].none  BY <2>1, <4>1 DEF SetUpOnce
      <4> QED  BY <1>0, <1>2, <3>1, <4>2 DEF Exists
    <3>2. CASE q = Alice  BY <1>0, <1>2, <2>1, <3>2 DEF JointInv, SetUpRight, a
    <3> QED  BY <1>0, <3>1, <3>2
  <2>2. \A b \in Copies(Alice)' : b.pending => b.rootKey = FirstRoot(b.withOpk, b.ours)
    BY <1>0 DEF JointInv, SetUpRight
  <2> QED  BY <2>1, <2>2 DEF SetUpRight
<1> QED  BY <1>7, <1>10, <1>11

LEMMA JointStores ==
    ASSUME RatchetTypes, OneCall, SetUpOnce, JointInv, SetUpOnce',
           NEW p \in Parties, NEW call \in calls[p], encryptStores(p, call) \/ decryptStores(p, call)
    PROVE  JointInv'
<1> DEFINE q == Peer(p)
           s == session[p]
           t == call.result.session
<1>0. q \in Parties /\ q # p /\ Peer(q) = p /\ \A r \in Parties : r = p \/ r = q
  BY Sides
<1>1. /\ session' = [session EXCEPT ![p] = t] /\ calls' = [calls EXCEPT ![p] = calls[p] \ {call}]
      /\ sent' = sent /\ opk' = opk
  BY DEF encryptStores, decryptStores, Finish
<1>2. Stores(call)  BY DEF encryptStores, decryptStores, RatchetTypes, CallOK, Stores
<1>3. t \in Copies(p)  BY <1>2, InCopies DEF Copies
<1>4. /\ t \in SessionType /\ Exists(p) /\ s \in SessionType
      /\ OneStepOn(t, s, session[q]) /\ WellMade(t)
  BY <1>3, WhoExists DEF JointInv, InStep
<1> HIDE DEF s, t, q
<1>5. calls[p] \ {call} = {}  BY DEF OneCall
<1>6. session'[p] = t /\ session'[q] = session[q] /\ calls'[p] = {} /\ calls'[q] = calls[q]
  BY <1>0, <1>1, <1>5 DEF RatchetTypes
<1>7. \A b \in Copies(p)' : b = t  BY <1>6, InCopies DEF Copies
<1>8. Copies(q)' = Copies(q)  BY <1>6 DEF Copies
<1>9. call.kind = "encrypt" => Encrypts(call, p, s)  BY DEF OneCall, s
<1>10. ASSUME NEW m \in net', m \notin net PROVE m = call.msg /\ m.from = p /\ encryptStores(p, call)
  <2>1. encryptStores(p, call)  BY <1>10 DEF decryptStores
  <2>2. m = call.msg /\ call.kind = "encrypt"  BY <1>10, <2>1 DEF encryptStores
  <2> QED  BY <1>9, <2>1, <2>2 DEF Encrypts
<1>11. \A r \in Parties : Outgoing(r)' \subseteq Outgoing(r)
  <2> SUFFICES ASSUME NEW r \in Parties, NEW m \in Outgoing(r)' PROVE m \in Outgoing(r)  OBVIOUS
  <2>1. (m \in net' /\ m.from = r) \/ \E c \in calls'[r] : c.kind = "encrypt" /\ m = c.msg
    BY InOutgoing DEF Outgoing
  <2>2. calls'[r] \subseteq calls[r]  BY <1>0, <1>6
  <2>3. CASE m \in net' /\ m \notin net
    <3>1. m = call.msg /\ m.from = p /\ call.kind = "encrypt"  BY <1>10, <2>3 DEF encryptStores
    <3>2. m.from = r \/ \E c \in calls'[r] : c.kind = "encrypt" /\ m = c.msg  BY <2>1
    <3>3. CASE r = p  BY <3>1, <3>3, InOutgoing DEF Outgoing
    <3>4. CASE r # p  BY <2>2, <3>1, <3>2, <3>4, InOutgoing DEF Outgoing
    <3> QED  BY <3>3, <3>4
  <2>4. CASE ~ (m \in net' /\ m \notin net)  BY <2>1, <2>2, <2>4, InOutgoing DEF Outgoing
  <2> QED  BY <2>3, <2>4
<1>12. ASSUME SameStep(t, s) PROVE InStep' /\ InFlight' /\ SetUpRight'
  <2>1. t.sendCount \in Nat /\ s.sendCount \in Nat /\ t.sendCount >= s.sendCount
    BY <1>4, <1>12 DEF SessionType, SameStep
  <2>2. Stays(s, t)
    <3>1. \A n \in Nat : (n <= s.sendCount => n <= t.sendCount) /\ (n < s.sendCount => n < t.sendCount)
      BY <2>1
    <3> QED  BY <1>12, <3>1 DEF Stays, SameStep
  <2>3. Stays(session[q], session[q])  BY DEF Stays
  <2>4. t.none = FALSE /\ s.none = FALSE  BY <1>4 DEF SessionType
  <2>5. \A r \in Parties : /\ Copies(r)' \subseteq Copies(r) /\ Outgoing(r)' \subseteq Outgoing(r)
                           /\ session'[r].none = session[r].none /\ Stays(session[r], session'[r])
    BY <1>0, <1>3, <1>6, <1>7, <1>8, <1>11, <2>2, <2>3, <2>4 DEF s
  <2>6. SameStep(t, t)
    <3>1. t.sendCount >= t.sendCount  BY <2>1
    <3> QED  BY <3>1 DEF SameStep
  <2>7. \A r \in Parties : session'[r] = session[r] \/ \A b \in Copies(r)' : SameStep(b, session'[r])
    BY <1>0, <1>6, <1>7, <2>6
  <2>8. \A m \in net' : m \in net \/ (m.from \in Parties => m.n < session'[m.from].sendCount)
    <3> SUFFICES ASSUME NEW m \in net', m \notin net PROVE m.n < session'[m.from].sendCount  OBVIOUS
    <3>1. m = call.msg /\ m.from = p /\ call.kind = "encrypt"  BY <1>10 DEF encryptStores
    <3>2. m.n = s.sendCount /\ t = Advanced(s)  BY <1>9, <3>1 DEF Encrypts, t
    <3>3. t.sendCount = s.sendCount + 1
      <4>1. sent[p] \in Nat  BY DEF RatchetTypes
      <4> QED  BY <1>4, <3>2, <4>1, EncryptFacts
    <3> QED  BY <1>6, <2>1, <3>1, <3>2, <3>3
  <2> QED  BY <1>1, <2>5, <2>7, <2>8, JointCarries
<1>13. ASSUME ~ SameStep(t, s) PROVE InStep' /\ InFlight' /\ SetUpRight'
  <2>1. ~ session[q].none /\ Ahead(session[q], s) /\ Ahead(t, session[q])  BY <1>4, <1>13 DEF OneStepOn
  <2>2. net' \subseteq net
    <3>1. call.kind # "encrypt"
      <4> SUFFICES ASSUME Encrypts(call, p, s) PROVE FALSE  BY <1>9
      <4>1. t = Advanced(s) /\ sent[p] \in Nat  BY DEF Encrypts, t, RatchetTypes
      <4>2. /\ t.rootKey = s.rootKey /\ t.ours = s.ours /\ t.theirs = s.theirs /\ t.recvChain = s.recvChain
            /\ t.sendCount = s.sendCount + 1
        BY <1>4, <4>1, EncryptFacts
      <4>3. t.sendCount >= s.sendCount  BY <1>4, <4>2 DEF SessionType
      <4> QED  BY <1>13, <4>2, <4>3 DEF SameStep
    <3> QED  BY <1>10, <3>1 DEF encryptStores
  <2>3. \A r \in Parties : Copies(r)' \subseteq Copies(r) /\ Outgoing(r)' \subseteq Outgoing(r)
    BY <1>0, <1>3, <1>7, <1>8, <1>11
  <2> QED  BY <1>1, <1>3, <1>4, <1>6, <1>7, <2>1, <2>2, <2>3, JointRatchets DEF Exists, s, q
<1>14. Agreed'
  <2>1. \A r \in Parties : calls'[r] \subseteq calls[r]  BY <1>0, <1>6
  <2>2. failed' = failed
    <3>1. CASE encryptStores(p, call)  BY <3>1 DEF encryptStores
    <3>2. CASE decryptStores(p, call)
      <4>1. call.kind = "decrypt"  BY <3>2 DEF decryptStores
      <4>2. call.result.key = call.msg.key  BY <1>2, <4>1 DEF JointInv, Agreed
      <4> QED  BY <3>2, <4>2 DEF decryptStores, aesGcmDecrypt
    <3> QED  BY <3>1, <3>2
  <2> QED  BY <2>1, <2>2 DEF JointInv, Agreed, DecryptsUnlessSkipLimit
<1> QED  BY <1>12, <1>13, <1>14 DEF JointInv

LEMMA JointEnds ==
    ASSUME RatchetTypes, OneCall, SetUpOnce, JointInv, SetUpOnce', Ends
    PROVE  JointInv'
<1>1. ASSUME NEW p \in Parties, NEW call \in calls[p], encryptStores(p, call) \/ decryptStores(p, call)
      PROVE  JointInv'
  BY <1>1, JointStores
<1>2. ASSUME session' = session, sent' = sent, net' \subseteq net, \A p \in Parties : calls'[p] \subseteq calls[p],
             \A f \in failed' : f \in failed \/ f.why \in {"skip", "no session"}
      PROVE  JointInv'
  <2>1. ASSUME NEW p \in Parties PROVE Copies(p)' \subseteq Copies(p) /\ Outgoing(p)' \subseteq Outgoing(p)
    <3>1. \A b : b \in CopiesOf(session[p], calls'[p]) => b \in CopiesOf(session[p], calls[p])
      <4>1. calls'[p] \subseteq calls[p]  BY <1>2
      <4> QED  BY ONLY <4>1, InCopies
    <3>2. \A m : m \in OutgoingIn(p, net', calls'[p]) => m \in OutgoingIn(p, net, calls[p])
      <4>1. calls'[p] \subseteq calls[p] /\ net' \subseteq net  BY <1>2
      <4> QED  BY ONLY <4>1, InOutgoing
    <3> QED  BY <1>2, <3>1, <3>2 DEF Copies, Outgoing
  <2>2. \A p \in Parties : Stays(session[p], session'[p])  BY <1>2 DEF Stays
  <2>3. InStep' /\ InFlight' /\ SetUpRight'  BY <1>2, <2>1, <2>2, JointCarries
  <2>4. Agreed'  BY <1>2 DEF JointInv, Agreed, DecryptsUnlessSkipLimit
  <2> QED  BY <2>3, <2>4 DEF JointInv
<1>3. ASSUME NEW p \in Parties, NEW call \in calls[p], decryptThrows(p, call)
      PROVE  JointInv'
  <2>1. /\ session' = session /\ sent' = sent /\ net' = net
        /\ calls' = [calls EXCEPT ![p] = calls[p] \ {call}]
        /\ failed' = failed \cup {[msg |-> call.msg, why |-> call.result.error]}
        /\ call.kind = "decrypt" /\ call.result.error # "none"
    BY <1>3 DEF decryptThrows, Finish
  <2>2. call.result.error \in {"skip", "no session"}  BY <2>1 DEF JointInv, Agreed
  <2>3. \A r \in Parties : calls'[r] \subseteq calls[r]  BY <2>1 DEF RatchetTypes
  <2>4. [msg |-> call.msg, why |-> call.result.error].why = call.result.error  OBVIOUS
  <2>5. \A f \in failed' : f \in failed \/ f.why \in {"skip", "no session"}  BY <2>1, <2>2, <2>4
  <2> QED  BY <1>2, <2>1, <2>3, <2>5
<1>4. CASE (\E m \in net : Lose(m)) \/ UNCHANGED vars
  <2>1. session' = session /\ sent' = sent /\ net' \subseteq net /\ calls' = calls /\ failed' = failed
    BY <1>4 DEF Lose, vars
  <2> QED  BY <1>2, <2>1
<1> QED  BY <1>1, <1>3, <1>4 DEF Ends


(***************************************************************************)
(* What decrypt relies on when it takes m with session s, its sender being *)
(* at a with the messages O on their way.                                  *)
(***************************************************************************)
CanReceive(s, a, O, m) ==
    /\ s \in SessionType /\ WellMade(s) /\ Behind(s, a) /\ s.ours < fresh + 1
    /\ Ahead(a, s) \/ Ahead(s, a)
    /\ \A o \in O : Reads(s, o, a)
    /\ m.rk # s.theirs => \A o \in O : o.rk = a.ours

LEMMA StoredReceives ==
    ASSUME RatchetTypes, Sizes, OneCall, SetUpOnce, JointInv,
           NEW m \in net, ~ Crosses(m), m.from \in Parties, Exists(m.from), Exists(Peer(m.from))
    PROVE  CanReceive(session[Peer(m.from)], session[m.from], Outgoing(m.from), m)
<1> DEFINE q == m.from
           p == Peer(q)
           s == session[p]
           a == session[q]
<1>0. p \in Parties /\ Peer(p) = q  BY Sides
<1>1. s \in SessionType /\ s \in Copies(p) /\ (Ahead(a, s) \/ Ahead(s, a))
  BY <1>0, WhoExists DEF JointInv
<1>2. WellMade(s)  BY <1>0, <1>1 DEF JointInv, InStep
<1>3. Behind(s, a) /\ \A o \in Outgoing(q) : Reads(s, o, a)  BY <1>1 DEF JointInv, InFlight
<1>4. s.ours < fresh + 1
  <2>1. Sized(s, fresh)  BY <1>0, <1>1 DEF Sizes
  <2>2. s.ours \in Nat /\ fresh \in Nat /\ s.ours < fresh  BY <1>1, <2>1 DEF SessionType, RatchetTypes, Sized
  <2> QED  BY <2>2
<1>5. ASSUME m.rk # s.theirs, NEW o \in Outgoing(q) PROVE o.rk = a.ours
  <2>1. m \in Outgoing(q)  BY InOutgoing DEF Outgoing
  <2>2. m.rk = a.ours  BY <1>3, <1>5, <2>1 DEF Reads
  <2>3. InOrder(m, o, a)  BY <2>1 DEF JointInv, InFlight
  <2>4. CASE o \in net /\ o.from = q
    <3>1. m.num \in Nat /\ o.num \in Nat
      <4>1. m \in MsgType /\ o \in MsgType  BY <2>4 DEF RatchetTypes
      <4> QED  BY <4>1 DEF MsgType
    <3>2. CASE m.num < o.num  BY <2>2, <2>3, <3>2 DEF InOrder
    <3>3. CASE m.num = o.num  BY <2>2, <2>3, <3>3 DEF InOrder
    <3>4. CASE o.num < m.num
      <4>1. o \in Overtaken(m)  BY <2>4, <3>4 DEF Overtaken
      <4>2. o.rk = m.rk  BY <4>1 DEF Crosses
      <4> QED  BY <2>2, <4>2
    <3> QED  BY <3>1, <3>2, <3>3, <3>4
  <2>5. CASE \E c \in calls[q] : c.kind = "encrypt" /\ o = c.msg  BY <2>5 DEF OneCall, Encrypts
  <2> QED  BY <2>4, <2>5, InOutgoing DEF Outgoing
<1> QED  BY <1>1, <1>2, <1>3, <1>4, <1>5 DEF CanReceive

LEMMA SetUpReceives ==
    ASSUME RatchetTypes, Sizes, SetUpOnce, JointInv,
           NEW m \in net, m.first, m.from \in Parties, Exists(m.from)
    PROVE  CanReceive(ResponderSession(m), session[m.from], Outgoing(m.from), m)
<1> DEFINE s == ResponderSession(m)
           a == session[Alice]
           O == Outgoing(Alice)
<1>0. m.from = Alice /\ session[Bob].none /\ opk = TRUE /\ Peer(Alice) = Bob /\ Alice \in Parties /\ m \in MsgType
  BY Sides DEF SetUpOnce, RatchetTypes, Peer
<1>1. m \in O  BY <1>0, InOutgoing DEF Outgoing
<1>2. a \in SessionType /\ a \in Copies(Alice)  BY <1>0, WhoExists DEF JointInv
<1>3. /\ s \in SessionType /\ s.rootKey # NoChain /\ s.sendChain = s.rootKey /\ s.recvSteps = 0 /\ s.recvCount = 0
      /\ s.ours = fresh /\ s.theirs = m.rk /\ DOMAIN s.skipped = {}
      /\ s.recvChain = kdfRootKey(x3dh(m.withOpk /\ opk), dh(BobSignedPreKey, m.rk))
      /\ s.rootKey = kdfRootKey(s.recvChain, dh(fresh, m.rk))
  <2>1. fresh \in Nat /\ opk \in BOOLEAN  BY DEF RatchetTypes
  <2>2. Len(s.rootKey) = 3  BY <1>0, <2>1, ResponderFacts
  <2>3. s.rootKey # NoChain
    <3>1. Len(NoChain) = 0  BY EmptySeq DEF NoChain
    <3>2. Len(s.rootKey) # Len(NoChain)  BY <2>2, <3>1
    <3> QED  BY <3>2
  <2> QED  BY <1>0, <2>1, <2>3, ResponderFacts
<1>4. m.rk = a.ours /\ \A o \in O : o.rk = a.ours /\ Current(o, a)
  BY <1>0, <1>1 DEF JointInv, InFlight, Exists
<1>5. s.recvChain = a.rootKey
  <2>1. a.rootKey = kdfRootKey(x3dh(m.withOpk), dh(m.rk, BobSignedPreKey))
    BY <1>0, <1>1 DEF JointInv, SetUpRight, FirstRoot
  <2>2. (m.withOpk /\ opk) = m.withOpk
    <3>1. m.withOpk \in BOOLEAN  BY <1>0 DEF MsgType
    <3> QED  BY <1>0, <3>1
  <2>3. dh(m.rk, BobSignedPreKey) = dh(BobSignedPreKey, m.rk)  BY DEF dh
  <2> QED  BY <1>3, <2>1, <2>2, <2>3
<1> HIDE DEF s
<1>6. WellMade(s)  BY <1>3 DEF WellMade
<1>7. Behind(s, a)
  <2>1. CacheRight(s)  BY <1>3 DEF CacheRight
  <2>2. s.recvCount <= a.sendCount
    <3>1. a.sendCount \in Nat  BY <1>2 DEF SessionType
    <3> QED  BY <1>3, <3>1
  <2> QED  BY <2>1, <2>2 DEF Behind
<1>8. Ahead(s, a)
  <2>1. a.theirs < s.ours  BY <1>0, <1>2, <1>3 DEF Sizes, Sized
  <2> QED  BY <1>3, <1>4, <1>5, <2>1 DEF Ahead
<1>9. ASSUME NEW o \in O PROVE Reads(s, o, a)
  <2>1. o.rk = a.ours /\ o.key = MessageKey(a.rootKey, o.n)  BY <1>4 DEF Current
  <2>2. a.rootKey # NoChain  BY <1>0, <1>2 DEF JointInv, InStep, WellMade
  <2>3. o.n >= s.recvCount
    <3>1. o.n \in Nat  BY <1>0, OutgoingType DEF MsgType
    <3> QED  BY <1>3, <3>1
  <2> QED  BY <1>5, <2>1, <2>2, <2>3 DEF Reads, Opens
<1>10. s.ours < fresh + 1  BY <1>3 DEF RatchetTypes
<1> QED  BY <1>0, <1>3, <1>6, <1>7, <1>8, <1>9, <1>10 DEF CanReceive, s

(***************************************************************************)
(* decrypt, with both ends set up once it has begun: base is the session   *)
(* it starts from, and t what its call will store.                         *)
(***************************************************************************)
LEMMA JointReceives ==
    ASSUME RatchetTypes, SetUpOnce, JointInv, sent' = sent,
           NEW m \in net, net' = net \ {m}, NEW q \in Parties, NEW base \in SessionType, NEW t,
           Exists(q), CanReceive(base, session[q], Outgoing(q), m),
           session'[Peer(q)] = base, session'[q] = session[q],
           (session[Peer(q)] = base /\ Exists(Peer(q))) \/ (Outgoing(Peer(q)) = {} /\ q = Alice),
           Copies(q)' \subseteq Copies(q), \A b \in Copies(Peer(q))' : b = base \/ b = t,
           t \in Copies(Peer(q))' =>
             /\ WellMade(t) /\ Behind(t, session[q]) /\ OneStepOn(t, base, session[q])
             /\ \A o \in Outgoing(q) \ {m} : Reads(t, o, session[q])
             /\ t.pending = base.pending,
           Outgoing(q)' \subseteq Outgoing(q) \ {m}, Outgoing(Peer(q))' \subseteq Outgoing(Peer(q)),
           \A b \in Copies(q) : OneStepOn(b, session[q], base) /\ Behind(b, base)
    PROVE  InStep' /\ InFlight' /\ SetUpRight'
<1> DEFINE p == Peer(q)
           a == session[q]
           O == Outgoing(q)
<1>0. /\ p \in Parties /\ q # p /\ Peer(p) = q /\ (\A r \in Parties : r = p \/ r = q)
      /\ Alice \in Parties /\ Bob \in Parties /\ Alice # Bob
  BY Sides
<1>1. Exists(q)' /\ Exists(p)' /\ session'[q] = a /\ session'[p] = base  BY DEF Exists, SessionType
<1>2. /\ WellMade(base) /\ Behind(base, a) /\ (Ahead(a, base) \/ Ahead(base, a))
      /\ \A o \in O : Reads(base, o, a)
  BY DEF CanReceive
<1>3. ASSUME NEW b \in Copies(p)'
      PROVE  WellMade(b) /\ Behind(b, a) /\ OneStepOn(b, base, a) /\ \A o \in O \ {m} : Reads(b, o, a)
  <2>1. OneStepOn(base, base, a)
    <3>1. base.sendCount >= base.sendCount  BY DEF SessionType
    <3> QED  BY <3>1 DEF OneStepOn, SameStep
  <2> QED  BY <1>2, <2>1
<1>4. InStep'
  <2>1. Exists(Bob)' => /\ Exists(Alice)'
                        /\ Ahead(session'[Alice], session'[Bob]) \/ Ahead(session'[Bob], session'[Alice])
    BY <1>0, <1>1, <1>2
  <2>2. \A b \in Copies(q)' : WellMade(b)  BY DEF JointInv, InStep
  <2>3. \A r \in Parties : \A b \in Copies(r)' : OneStepOn(b, session'[r], session'[Peer(r)]) /\ WellMade(b)
    BY <1>0, <1>1, <1>3, <2>2
  <2> QED  BY <2>1, <2>3 DEF InStep
<1> HIDE DEF p, a, O
<1>5. /\ \A o \in Outgoing(q)' :
             /\ Exists(q)' /\ o.num < sent'[q] /\ Current(o, session'[q])
             /\ ~ Exists(p)' => o.rk = session'[q].ours
             /\ \A b \in Copies(p)' : Reads(b, o, session'[q])
             /\ \A o2 \in Outgoing(q)' : InOrder(o, o2, session'[q])
      /\ \A o \in net' : o.from = q /\ o.rk = session'[q].ours => o.n < session'[q].sendCount
      /\ \A b \in Copies(p)' : Behind(b, session'[q])
  <2>1. /\ \A o \in O : o.num < sent[q] /\ Current(o, a) /\ \A o2 \in O : InOrder(o, o2, a)
        /\ \A o \in net : o.from = q /\ o.rk = a.ours => o.n < a.sendCount
    BY DEF JointInv, InFlight, O, a
  <2>2. Outgoing(q)' \subseteq O \ {m}  BY DEF O
  <2> QED  BY <1>1, <1>3, <2>1, <2>2
<1>6. /\ \A o \in Outgoing(p)' :
             /\ Exists(p)' /\ o.num < sent'[p] /\ Current(o, session'[p])
             /\ ~ Exists(q)' => o.rk = session'[p].ours
             /\ \A b \in Copies(q)' : Reads(b, o, session'[p])
             /\ \A o2 \in Outgoing(p)' : InOrder(o, o2, session'[p])
      /\ \A o \in net' : o.from = p /\ o.rk = session'[p].ours => o.n < session'[p].sendCount
      /\ \A b \in Copies(q)' : Behind(b, session'[p])
  <2>1. Outgoing(p)' \subseteq Outgoing(p)  BY DEF p
  <2>2. CASE session[p] = base
    <3>1. /\ \A o \in Outgoing(p) :
               /\ o.num < sent[p] /\ Current(o, base)
               /\ \A b \in Copies(q) : Reads(b, o, base)
               /\ \A o2 \in Outgoing(p) : InOrder(o, o2, base)
          /\ \A o \in net : o.from = p /\ o.rk = base.ours => o.n < base.sendCount
      BY <1>0, <2>2 DEF JointInv, InFlight
    <3> QED  BY <1>1, <2>1, <3>1
  <2>3. CASE Outgoing(p) = {}
    <3>1. \A o \in net : o.from = p => o \in Outgoing(p)  BY InOutgoing DEF Outgoing
    <3> QED  BY <1>1, <2>1, <2>3, <3>1
  <2> QED  BY <2>2, <2>3 DEF p
<1>7. InFlight'  BY <1>0, <1>5, <1>6 DEF InFlight, p
<1>8. SetUpRight'
  <2>1. CASE q = Alice
    BY <1>1, <2>1 DEF JointInv, SetUpRight, a
  <2>2. CASE p = Alice
    <3>1. session[Alice] = base /\ Exists(Alice)  BY <1>0, <2>2 DEF p
    <3>2. \A o \in Outgoing(Alice)' : o \in Outgoing(Alice)  BY <2>2 DEF p
    <3>3. \A b \in Copies(Alice)' : ~ b.pending
      <4>1. q = Bob  BY <1>0, <2>2
      <4>2. ~ Unset  BY <4>1 DEF SetUpOnce, Exists
      <4>3. ~ base.pending  BY <3>1, <4>2 DEF Unset
      <4> QED  BY <2>2, <4>3 DEF p
    <3> QED  BY <1>1, <2>2, <3>1, <3>2, <3>3 DEF JointInv, SetUpRight
  <2> QED  BY <1>0, <2>1, <2>2
<1> QED  BY <1>4, <1>7, <1>8


LEMMA JointDecrypt ==
    ASSUME Flags, overlaps' = 0, ~ crossed', RatchetTypes, Sizes, OneCall, SetUpOnce, JointInv,
           NEW m \in net, decrypt(m)
    PROVE  JointInv'
<1> DEFINE q == m.from
           p == Peer(q)
           a == session[q]
           O == Outgoing(q)
           r == Outcome(m)
           base == Base(m)
           t == r.session
<1>0. /\ m \in MsgType /\ q \in Parties /\ p \in Parties /\ p # q /\ Peer(p) = q
      /\ \A x \in Parties : x = p \/ x = q
  BY DecryptStep, Sides
<1>1. /\ base \in {NoSession} \cup SessionType
      /\ m.first => base = ResponderSession(m) /\ base \in SessionType
      /\ ~ m.first => base = session[p]
      /\ session' = IF m.first THEN [session EXCEPT ![p] = base] ELSE session
      /\ Call(m).kind = "decrypt" /\ Call(m).msg = m /\ Call(m).result = r /\ r \in ResultType
      /\ calls' = [calls EXCEPT ![p] = calls[p] \cup {Call(m)}]
      /\ net' = net \ {m}
      /\ \A x \in Parties : \A b \in Copies(x)' :
           \/ b \in Copies(x)
           \/ x = p /\ m.first /\ b = base
           \/ x = p /\ r.error = "none" /\ b = t
  BY DecryptStep
<1>2. calls[p] = {} /\ sent' = sent /\ failed' = failed /\ ~ Crosses(m)
  <2>1. Begin(p, Call(m))  BY DEF decrypt, Call, Outcome, Base
  <2> QED  BY <1>0, <2>1, NoneInFlight DEF decrypt
<1>3. m \in O /\ Exists(q) /\ a \in SessionType /\ a \in Copies(q) /\ O \in SUBSET MsgType
  <2>1. m \in O  BY InOutgoing DEF Outgoing
  <2>2. Exists(q)  BY <1>0, <2>1 DEF JointInv, InFlight
  <2> QED  BY <1>0, <2>1, <2>2, WhoExists, OutgoingType DEF JointInv
<1>4. base.none => r = Throw("no session")  BY DEF Outcome
<1>5. ~ base.none => r = Receive(base, m, fresh + 1)  BY DEF Outcome
<1> HIDE DEF r, base, t
<1>6. calls'[p] = {Call(m)} /\ calls'[q] = calls[q]  BY <1>0, <1>1, <1>2 DEF RatchetTypes
<1>7. Outgoing(q)' \subseteq O \ {m}
  <2> SUFFICES ASSUME NEW o \in Outgoing(q)' PROVE o \in O /\ o # m  OBVIOUS
  <2>1. (o \in net' /\ o.from = q) \/ \E c \in calls[q] : c.kind = "encrypt" /\ o = c.msg
    BY <1>6, InOutgoing DEF Outgoing
  <2>2. CASE o \in net' /\ o.from = q  BY <1>1, <2>2, InOutgoing DEF Outgoing
  <2>3. CASE \E c \in calls[q] : c.kind = "encrypt" /\ o = c.msg
    <3>1. o.rk = a.ours /\ o.n = a.sendCount  BY <1>0, <2>3 DEF OneCall, Encrypts
    <3>2. m.rk = a.ours => m.n < a.sendCount  BY <1>0 DEF JointInv, InFlight
    <3>3. a.sendCount \in Nat  BY <1>3 DEF SessionType
    <3>4. o # m  BY <3>1, <3>2, <3>3
    <3> QED  BY <2>3, <3>4, InOutgoing DEF Outgoing
  <2> QED  BY <2>1, <2>2, <2>3
<1>8. Outgoing(p)' \subseteq Outgoing(p)
  <2> SUFFICES ASSUME NEW o \in Outgoing(p)' PROVE o \in Outgoing(p)  OBVIOUS
  <2>1. (o \in net' /\ o.from = p) \/ \E c \in {Call(m)} : c.kind = "encrypt" /\ o = c.msg
    BY <1>6, InOutgoing DEF Outgoing
  <2> QED  BY <1>1, <2>1, InOutgoing DEF Outgoing
<1>9. Copies(q)' \subseteq Copies(q)  BY <1>0, <1>1
<1>10. \A b \in Copies(p) : b = session[p] /\ Exists(p)  BY <1>2, InCopies DEF Copies, Exists
<1>11. ASSUME base.none PROVE JointInv'
  <2>1. ~ m.first /\ session' = session
    <3>1. ~ m.first  BY <1>1, <1>11 DEF SessionType
    <3> QED  BY <1>1, <3>1
  <2>2. r.error = "no session"  BY <1>4, <1>11, ThrowType
  <2>3. \A x \in Parties : Copies(x)' \subseteq Copies(x)  BY <1>1, <2>1, <2>2
  <2>4. \A x \in Parties : Outgoing(x)' \subseteq Outgoing(x)  BY <1>0, <1>7, <1>8
  <2>5. \A x \in Parties : session'[x].none = session[x].none /\ Stays(session[x], session'[x])
    BY <2>1 DEF Stays
  <2>6. InStep' /\ InFlight' /\ SetUpRight'  BY <1>1, <1>2, <2>1, <2>3, <2>4, <2>5, JointCarries
  <2>7. ~ Stores(Call(m))  BY <1>1, <2>2 DEF Stores
  <2>8. Agreed'  BY <1>0, <1>1, <1>2, <1>6, <2>2, <2>7 DEF JointInv, Agreed, DecryptsUnlessSkipLimit
  <2> QED  BY <2>6, <2>8 DEF JointInv
<1>12. ASSUME ~ base.none PROVE JointInv'
  <2>0. base \in SessionType /\ r = Receive(base, m, fresh + 1) /\ fresh + 1 \in Nat
    BY <1>1, <1>5, <1>12, StoredType DEF RatchetTypes
  <2>1. /\ CanReceive(base, a, O, m)
        /\ (session[p] = base /\ Exists(p)) \/ (Outgoing(p) = {} /\ q = Alice)
        /\ session'[p] = base /\ session'[q] = a
        /\ \A b \in Copies(p) : b = base
        /\ \A b \in Copies(q) : OneStepOn(b, a, base) /\ Behind(b, base)
    <3>1. CASE ~ m.first
      <4>1. base = session[p] /\ Exists(p) /\ session' = session  BY <1>1, <1>12, <3>1 DEF Exists
      <4>2. CanReceive(base, a, O, m)  BY <1>0, <1>2, <1>3, <4>1, StoredReceives
      <4>3. \A b \in Copies(q) : OneStepOn(b, a, base) /\ Behind(b, base)
        BY <1>0, <4>1 DEF JointInv, InStep, InFlight
      <4> QED  BY <1>10, <4>1, <4>2, <4>3
    <3>2. CASE m.first
      <4>1. q = Alice /\ p = Bob /\ session[Bob].none  BY <3>2, Sides DEF SetUpOnce, Peer
      <4>2. base = ResponderSession(m) /\ session'[p] = base /\ session'[q] = a
        BY <1>0, <1>1, <3>2 DEF RatchetTypes
      <4>3. CanReceive(base, a, O, m)  BY <1>0, <1>3, <3>2, <4>2, SetUpReceives
      <4>4. Copies(p) = {} /\ Outgoing(p) = {}
        <5>1. Copies(p) = {}  BY <4>1 DEF SetUpOnce
        <5>2. \A o \in Outgoing(p) : FALSE  BY <1>0, <4>1 DEF JointInv, InFlight, Exists
        <5> QED  BY <5>1, <5>2
      <4>5. ASSUME NEW b \in Copies(q) PROVE OneStepOn(b, a, base) /\ Behind(b, base)
        <5>1. OneStepOn(b, a, session[p]) /\ Behind(b, session[p])  BY <1>0 DEF JointInv, InStep, InFlight
        <5>2. SameStep(b, a)  BY <4>1, <5>1 DEF OneStepOn
        <5>3. b.theirs # base.ours
          <6>1. b.theirs < fresh /\ b.theirs \in Nat
            <7>1. Sized(b, fresh) /\ b \in SessionType  BY <1>0, CopyType DEF Sizes
            <7> QED  BY <7>1 DEF Sized, SessionType
          <6>2. base.ours = fresh /\ fresh \in Nat
            <7>1. fresh \in Nat /\ opk \in BOOLEAN  BY DEF RatchetTypes
            <7> QED  BY <1>0, <4>2, <7>1, ResponderFacts
          <6> QED  BY <6>1, <6>2
        <5> QED  BY <5>1, <5>2, <5>3 DEF OneStepOn, Behind
      <4> QED  BY <4>1, <4>2, <4>3, <4>4, <4>5
    <3> QED  BY <3>1, <3>2
  <2>2. /\ r.error \in {"none", "skip"}
        /\ r.error = "none" =>
             /\ r.key = m.key /\ WellMade(t) /\ Behind(t, a) /\ OneStepOn(t, base, a)
             /\ \A o \in O \ {m} : Reads(t, o, a)
    <3>1. WellMade(base) /\ Behind(base, a) /\ base.ours < fresh + 1 /\ (Ahead(a, base) \/ Ahead(base, a))
      BY <2>1 DEF CanReceive
    <3>2. a.rootKey # NoChain  BY <1>0, <1>3 DEF JointInv, InStep, WellMade
    <3>3. \A o \in O : Current(o, a) /\ Reads(base, o, a) /\ InOrder(m, o, a)
      BY <1>0, <1>3, <2>1 DEF JointInv, InFlight, CanReceive
    <3>4. m.rk = a.ours => m.n < a.sendCount  BY <1>0 DEF JointInv, InFlight
    <3>5. m.rk # base.theirs => \A o \in O : o.rk = a.ours  BY <2>1 DEF CanReceive
    <3> HIDE DEF O, a
    <3> QED  BY <1>3, <2>0, <3>1, <3>2, <3>3, <3>4, <3>5, ReceiveAgrees DEF t
  <2>3. r.error = "none" => t.pending = base.pending  BY <1>0, <2>0, ReceivePending DEF t
  <2>4. \A b \in Copies(p)' : b = base \/ (r.error = "none" /\ b = t)  BY <1>0, <1>1, <2>1
  <2>5. InStep' /\ InFlight' /\ SetUpRight'
    <3>1. CASE r.error = "none"
      BY <1>0, <1>1, <1>2, <1>3, <1>7, <1>8, <1>9, <2>0, <2>1, <2>2, <2>3, <2>4, <3>1, JointReceives
    <3>2. CASE r.error # "none"
      <4>1. \A b \in Copies(p)' : b = base \/ b = base  BY <2>4, <3>2
      <4>2. base \in Copies(p)' =>
              /\ WellMade(base) /\ Behind(base, a) /\ OneStepOn(base, base, a)
              /\ \A o \in O \ {m} : Reads(base, o, a)
        <5>1. base.sendCount >= base.sendCount  BY <2>0 DEF SessionType
        <5>2. OneStepOn(base, base, a)  BY <5>1 DEF OneStepOn, SameStep
        <5> QED  BY <2>1, <5>2 DEF CanReceive
      <4> QED  BY <1>0, <1>1, <1>2, <1>3, <1>7, <1>8, <1>9, <2>0, <2>1, <4>1, <4>2, JointReceives
    <3> QED  BY <3>1, <3>2
  <2>6. Stores(Call(m)) => r.error = "none"  BY <1>1 DEF Stores
  <2>7. Agreed'
    <3>1. \A x \in Parties : \A c \in calls'[x] : c = Call(m) \/ c \in calls[x]  BY <1>0, <1>6
    <3>2. /\ Call(m).result.error \in {"none", "skip", "no session"}
          /\ Stores(Call(m)) => Call(m).result.key = Call(m).msg.key
      BY <1>1, <2>2, <2>6
    <3>3. ASSUME NEW x \in Parties, NEW c \in calls'[x], c.kind = "decrypt"
          PROVE  /\ c.result.error \in {"none", "skip", "no session"}
                 /\ Stores(c) => c.result.key = c.msg.key
      BY <3>1, <3>2, <3>3 DEF JointInv, Agreed
    <3> QED  BY <1>2, <3>3 DEF JointInv, Agreed, DecryptsUnlessSkipLimit
  <2> QED  BY <2>5, <2>7 DEF JointInv
<1> QED  BY <1>11, <1>12

-----------------------------------------------------------------------------
LEMMA JointInit == Init => JointInv
<1> SUFFICES ASSUME Init PROVE JointInv  OBVIOUS
<1>1. \A p \in Parties : session[p].none /\ calls[p] = {}  BY DEF Init, NoSession
<1>2. \A p \in Parties : Copies(p) = {} /\ Outgoing(p) = {} /\ ~ Exists(p) /\ Peer(p) \in Parties
  <2>1. \A p \in Parties : Copies(p) = {}  BY <1>1, InCopies DEF Copies
  <2>2. \A p \in Parties : Outgoing(p) = {}  BY <1>1, InOutgoing DEF Outgoing, Init
  <2> QED  BY <1>1, <2>1, <2>2, Sides DEF Exists
<1>3. Alice \in Parties /\ Bob \in Parties /\ net = {} /\ failed = {}  BY Sides DEF Init
<1>4. InStep  BY <1>2, <1>3 DEF InStep
<1>5. InFlight  BY <1>2, <1>3 DEF InFlight
<1>6. SetUpRight  BY <1>2, <1>3 DEF SetUpRight
<1>7. Agreed  BY <1>1, <1>3 DEF Agreed, DecryptsUnlessSkipLimit
<1> QED  BY <1>4, <1>5, <1>6, <1>7 DEF JointInv

(***************************************************************************)
(* decrypt never takes a wrong key, for any number of messages, any limit  *)
(* on skipped keys and any losses, before a call of a manager is begun     *)
(* during another or a message overtakes one of an earlier ratchet step:   *)
(* it fails only by the limit, or for want of a session.                   *)
(***************************************************************************)
THEOREM BothEndsAgree == Spec => []EndsAgree
<1> DEFINE Inv == SessionInv /\ (overlaps = 0 /\ ~ crossed => JointInv)
<1>1. Init => Inv  BY SessionInvInit, JointInit
<1>2. ASSUME Inv, [Next]_vars PROVE Inv'
  <2>0. SessionInv'  BY <1>2, SessionInvStep
  <2>1. SUFFICES ASSUME overlaps' = 0, ~ crossed' PROVE JointInv'  BY <2>0
  <2>2. overlaps = 0 /\ ~ crossed  BY <1>2, <2>1, FlagsStep DEF SessionInv
  <2>3. Flags /\ RatchetTypes /\ Sizes /\ OneCall /\ SetUpOnce /\ JointInv
    BY <1>2, <2>2 DEF SessionInv, Tended
  <2>4. CASE \E w \in BOOLEAN : initSessionFromBundle(w)  BY <2>3, <2>4, JointBundle
  <2>5. CASE \E p \in Parties : encrypt(p)  BY <2>1, <2>3, <2>5, JointEncrypt
  <2>6. CASE \E m \in net : decrypt(m)  BY <2>1, <2>3, <2>6, JointDecrypt
  <2>7. CASE Ends
    <3>1. OneCall' /\ SetUpOnce' /\ RatchetTypes'  BY <2>0, <2>1 DEF SessionInv, Tended
    <3> QED  BY <2>3, <2>7, <3>1, JointEnds
  <2> QED  BY <1>2, <2>4, <2>5, <2>6, <2>7, NextCases
<1>3. Inv => EndsAgree  BY DEF JointInv, Agreed, EndsAgree
<1> QED  BY <1>1, <1>2, <1>3, PTL DEF Spec
=============================================================================
