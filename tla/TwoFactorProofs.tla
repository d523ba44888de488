-------------------------- MODULE TwoFactorProofs ---------------------------
(***************************************************************************)
(* Proofs about TwoFactor, for any number of overlapping requests, with    *)
(* crashes between any two statements.                                     *)
(***************************************************************************)
EXTENDS TwoFactor, TLAPS

(***************************************************************************)
(* A token that is in the table, or was not handed out yet, was not tried. *)
(***************************************************************************)
UntriedTokens ==
    \A t \in Tokens : t \in challenges \/ t > tokenCount => tries[t] = 0

TokensHandedOut == \A t \in challenges : t <= tokenCount

(***************************************************************************)
(* A code that is in the table, or in a set that is not stored yet, was    *)
(* not redeemed.                                                           *)
(***************************************************************************)
UnredeemedCodes ==
    \A k \in Codes :
        \/ k \in codes
        \/ k[1] > setCount
        \/ \E r \in Reqs : tx[r].set = k[1]
        => redeemed[k] = 0

(***************************************************************************)
(* Open transactions bring sets of their own, which nobody has seen.       *)
(***************************************************************************)
SetsApart ==
    /\ \A r \in Reqs : tx[r].set <= setCount
    /\ \A k \in codes : k[1] <= setCount
    /\ \A r \in Reqs : \A k \in codes : tx[r].set # k[1]
    /\ \A r, q \in Reqs : tx[r].set = tx[q].set /\ tx[r].set # 0 => r = q

(***************************************************************************)
(* Only a recovery code is redeemed, and a transaction has a set.          *)
(***************************************************************************)
Redeeming == \A r \in Reqs : pc[r] = "redeem" => proof[r].kind = "recovery"
Storing == \A r \in Reqs : pc[r] = "store" => tx[r].set # 0
OpenTx == \A r \in Reqs : pc[r] # "store" => tx[r].set = 0

Typed == TypeOK /\ Redeeming /\ Storing /\ OpenTx
TokenInv == Typed /\ UntriedTokens /\ TokensHandedOut /\ ChallengeSingleUse
CodeInv == Typed /\ UnredeemedCodes /\ SetsApart /\ RecoveryCodeSingleUse

(***************************************************************************)
(* As long as requests come one by one and none fails: one is under way at *)
(* most, 2FA is being enabled for a secret, it is on with codes or with    *)
(* codes to come, and an open transaction has deleted all there are.       *)
(***************************************************************************)
Alone == \A r, q \in Reqs : pc[r] # "idle" /\ pc[q] # "idle" => r = q
Enabling == \A r \in Reqs : pc[r] = "enable" => secret # NoSecret
CodesToCome == enabled => issued \/ \E r \in Reqs : pc[r] \in {"wipe", "store"}
WipesAll == \A r \in Reqs : pc[r] = "store" => tx[r].wiped = codes

Calm == /\ Alone /\ Enabling /\ CodesToCome /\ WipesAll /\ OneSetOfCodes
        /\ enabled => secret # NoSecret
CalmInv == Typed /\ (calm => Calm)

-----------------------------------------------------------------------------
(***************************************************************************)
(* What a request brings when it brings a recovery code.                   *)
(***************************************************************************)
LEMMA RecoveryProof ==
  ASSUME NEW p \in Proofs \cup {Wrong}, p.kind = "recovery"
  PROVE  p.of \in Codes
BY DEF Proofs, Wrong

(***************************************************************************)
(* The set a transaction inserts consists of codes.                        *)
(***************************************************************************)
LEMMA CodeSetType == \A g \in 1..MaxSets : CodeSet(g) \subseteq Codes
BY DEF CodeSet, Codes

(***************************************************************************)
(* Every statement of every request keeps the types.                       *)
(***************************************************************************)
LEMMA TypeStep == Typed /\ [Next]_vars => Typed'
<1> SUFFICES ASSUME Typed, [Next]_vars PROVE Typed'
  OBVIOUS
<1> USE TwoFactorAssumption
    DEF Typed, Redeeming, Storing, OpenTx, TypeOK, Goto, Start, Steps, tables, counters, history,
        Secrets, NoSecret, Tokens
<1>1. ASSUME NEW r \in Reqs, LoginReads(r) PROVE Typed'
  BY <1>1 DEF LoginReads
<1>2. ASSUME NEW r \in Reqs, totp_setup(r) PROVE Typed'
  BY <1>2 DEF totp_setup
<1>3. ASSUME NEW r \in Reqs, Statement(r) PROVE Typed'
  <2>1. CASE create_totp_challenge(r) BY <2>1 DEF create_totp_challenge
  <2>2. CASE create_session(r) BY <2>2 DEF create_session
  <2>3. CASE ChallengeReads(r) BY <2>3 DEF ChallengeReads, Verified
  <2>4. CASE consume_recovery_code(r)
    <3>1. proof[r].of \in Codes
      BY <2>4, RecoveryProof DEF consume_recovery_code
    <3>2. redeemed' \in [Codes -> Nat]
      BY <2>4, <3>1 DEF consume_recovery_code
    <3>3. pc' \in [Reqs -> Steps]
      BY <2>4 DEF consume_recovery_code
    <3> QED BY <2>4, <3>2, <3>3 DEF consume_recovery_code
  <2>5. CASE Enable(r) BY <2>5 DEF Enable
  <2>6. CASE Disable(r) BY <2>6 DEF Disable
  <2>7. CASE WipeCodes(r) BY <2>7 DEF WipeCodes
  <2>8. CASE CommitCodes(r)
    <3>1. tx[r].set \in 1..MaxSets
      BY <2>8 DEF CommitCodes
    <3>2. codes' \subseteq Codes
      BY <2>8, <3>1, CodeSetType DEF CommitCodes
    <3> QED BY <2>8, <3>2 DEF CommitCodes, NoTx
  <2>9. CASE Fails(r)
    <3>1. calm' \in BOOLEAN BY <2>9 DEF Fails
    <3>2. /\ pc' \in [Reqs -> Steps]
          /\ tx' \in [Reqs -> [wiped : SUBSET Codes, set : 0..MaxSets]]
      BY <2>9 DEF Fails, NoTx
    <3>3. Redeeming' /\ Storing' /\ OpenTx' BY <2>9 DEF Fails, NoTx
    <3> QED BY <2>9, <3>1, <3>2, <3>3 DEF Fails
  <2> QED BY <1>3, <2>1, <2>2, <2>3, <2>4, <2>5, <2>6, <2>7, <2>8, <2>9 DEF Statement
<1>4. ASSUME NEW r \in Reqs, NEW p \in Proofs \cup {Wrong}, NEW t \in challenges,
             consume_totp_challenge(r, t, p)
      PROVE  Typed'
  BY <1>4 DEF consume_totp_challenge
<1>5. ASSUME NEW r \in Reqs, NEW p \in Proofs \cup {Wrong}, ConfirmReads(r, p)
      PROVE  Typed'
  BY <1>5 DEF ConfirmReads
<1>6. ASSUME NEW r \in Reqs, NEW p \in Proofs \cup {Wrong},
             NEW next \in {"disable", "wipe"}, SettingReads(r, p, next)
      PROVE  Typed'
  <2>1. pc'[r] \in {"redeem", "idle", "disable", "wipe"}
    BY <1>6 DEF SettingReads, Verified
  <2>2. pc'[r] = "redeem" => proof'[r].kind = "recovery"
    BY <1>6 DEF SettingReads, Verified
  <2>3. /\ \A q \in Reqs : q # r => pc'[q] = pc[q] /\ proof'[q] = proof[q]
        /\ pc' \in [Reqs -> Steps] /\ proof' \in [Reqs -> Proofs \cup {Wrong}]
    BY <1>6, <2>1 DEF SettingReads
  <2> QED BY <1>6, <2>1, <2>2, <2>3 DEF SettingReads
<1>7. ASSUME NEW t \in challenges, ChallengeExpires(t) PROVE Typed'
  BY <1>7 DEF ChallengeExpires
<1>8. CASE Crash
  <2>1. calm' \in BOOLEAN BY <1>8 DEF Crash
  <2>2. /\ pc' \in [Reqs -> Steps]
        /\ tx' \in [Reqs -> [wiped : SUBSET Codes, set : 0..MaxSets]]
    BY <1>8 DEF Crash, NoTx
  <2>3. Redeeming' /\ Storing' /\ OpenTx' BY <1>8 DEF Crash, NoTx
  <2> QED BY <1>8, <2>1, <2>2, <2>3 DEF Crash
<1>9. CASE UNCHANGED vars BY <1>9 DEF vars
<1> QED BY <1>1, <1>2, <1>3, <1>4, <1>5, <1>6, <1>7, <1>8, <1>9 DEF Next

(***************************************************************************)
(* Every statement keeps the bookkeeping of challenge tokens.              *)
(***************************************************************************)
LEMMA TokenStep == TokenInv /\ [Next]_vars => TokenInv'
<1> SUFFICES ASSUME TokenInv, [Next]_vars
             PROVE  UntriedTokens' /\ TokensHandedOut' /\ ChallengeSingleUse'
  BY TypeStep DEF TokenInv
<1> DEFINE Goal == UntriedTokens' /\ TokensHandedOut' /\ ChallengeSingleUse'
<1> USE TwoFactorAssumption
    DEF TokenInv, Typed, UntriedTokens, TokensHandedOut, ChallengeSingleUse, TypeOK, tables,
        counters, history, Tokens
<1>1. CASE UNCHANGED <<challenges, tokenCount, tries>>
  BY <1>1
<1>2. ASSUME NEW r \in Reqs, create_totp_challenge(r) PROVE Goal
  BY <1>2 DEF create_totp_challenge
<1>3. ASSUME NEW r \in Reqs, NEW p \in Proofs \cup {Wrong}, NEW t \in challenges,
             consume_totp_challenge(r, t, p)
      PROVE  Goal
  BY <1>3 DEF consume_totp_challenge
<1>4. ASSUME NEW t \in challenges, ChallengeExpires(t) PROVE Goal
  BY <1>4 DEF ChallengeExpires
<1> QED
  BY <1>1, <1>2, <1>3, <1>4
  DEF Next, Statement, LoginReads, totp_setup, create_session, ChallengeReads,
      consume_recovery_code, Enable, Disable, WipeCodes, CommitCodes, ConfirmReads,
      SettingReads, Fails, Crash, vars

(***************************************************************************)
(* Every statement keeps the bookkeeping of recovery codes.                *)
(***************************************************************************)
LEMMA CodeStep == CodeInv /\ [Next]_vars => CodeInv'
<1> SUFFICES ASSUME CodeInv, [Next]_vars
             PROVE  UnredeemedCodes' /\ SetsApart' /\ RecoveryCodeSingleUse'
  BY TypeStep DEF CodeInv
<1> DEFINE Goal == UnredeemedCodes' /\ SetsApart' /\ RecoveryCodeSingleUse'
<1> USE TwoFactorAssumption
    DEF CodeInv, Typed, UnredeemedCodes, SetsApart, RecoveryCodeSingleUse, TypeOK, tables,
        counters, history
<1>1. CASE UNCHANGED <<codes, setCount, tx, redeemed>>
  BY <1>1
<1>2. ASSUME NEW r \in Reqs, consume_recovery_code(r) PROVE Goal
  <2>1. /\ tx' = tx /\ setCount' = setCount
        /\ codes' = codes \ {proof[r].of}
        /\ \A k \in Codes : k # proof[r].of => redeemed'[k] = redeemed[k]
    BY <1>2 DEF consume_recovery_code
  <2>2. SetsApart' BY <2>1
  <2>3. CASE proof[r].of \in codes
    <3>1. proof[r].of \in Codes BY <2>3
    <3>2. redeemed'[proof[r].of] = 1
      BY <1>2, <2>3, <3>1 DEF consume_recovery_code
    <3>3. RecoveryCodeSingleUse' BY <2>1, <3>2
    <3>4. proof[r].of \notin codes' BY <2>1
    <3>5. /\ ~(proof[r].of[1] > setCount)
          /\ \A q \in Reqs : tx[q].set # proof[r].of[1]
      <4>1. proof[r].of[1] \in Nat BY <3>1 DEF Codes
      <4> QED BY <2>3, <4>1
    <3>6. UnredeemedCodes' BY <2>1, <3>4, <3>5
    <3> QED BY <2>2, <3>3, <3>6
  <2>4. CASE proof[r].of \notin codes
    <3>1. \A k \in Codes : redeemed'[k] = redeemed[k]
      BY <1>2, <2>4 DEF consume_recovery_code
    <3> QED BY <2>1, <2>2, <2>4, <3>1
  <2> QED BY <2>3, <2>4
<1>3. ASSUME NEW r \in Reqs, WipeCodes(r) PROVE Goal
  <2>1. /\ codes' = codes /\ redeemed' = redeemed /\ setCount' = setCount + 1
        /\ tx'[r].set = setCount + 1
        /\ \A q \in Reqs : q # r => tx'[q] = tx[q]
    BY <1>3 DEF WipeCodes
  <2>2. \A k \in Codes : k[1] \in Nat BY DEF Codes
  <2>3. UnredeemedCodes'
    <3> SUFFICES ASSUME NEW k \in Codes,
                        \/ k \in codes
                        \/ k[1] > setCount + 1
                        \/ \E q \in Reqs : tx'[q].set = k[1]
                 PROVE  redeemed[k] = 0
      BY <2>1
    <3>1. k[1] > setCount \/ k \in codes \/ \E q \in Reqs : tx[q].set = k[1]
      BY <2>1, <2>2
    <3> QED BY <3>1
  <2>4. SetsApart'
    <3>1. \A q \in Reqs : tx[q].set \in Nat BY <2>1
    <3>2. \A q \in Reqs : tx'[q].set <= setCount + 1 BY <2>1, <3>1
    <3>3. \A k \in codes : k[1] <= setCount + 1 BY <2>2
    <3>4. \A q \in Reqs : \A k \in codes : tx'[q].set # k[1]
      <4> SUFFICES ASSUME NEW q \in Reqs, NEW k \in codes PROVE tx'[q].set # k[1]
        OBVIOUS
      <4>1. k[1] <= setCount /\ k[1] \in Nat BY <2>2
      <4>2. CASE q = r BY <4>1, <4>2, <2>1
      <4>3. CASE q # r BY <4>3, <2>1
      <4> QED BY <4>2, <4>3
    <3>5. \A p, q \in Reqs : tx'[p].set = tx'[q].set /\ tx'[p].set # 0 => p = q
      BY <2>1, <3>1
    <3> QED BY <2>1, <3>2, <3>3, <3>4, <3>5
  <2> QED BY <2>1, <2>3, <2>4
<1>4. ASSUME NEW r \in Reqs, CommitCodes(r) PROVE Goal
  <2>1. /\ codes' = (codes \ tx[r].wiped) \cup CodeSet(tx[r].set)
        /\ redeemed' = redeemed /\ setCount' = setCount
        /\ tx'[r].set = 0
        /\ \A q \in Reqs : q # r => tx'[q] = tx[q]
    BY <1>4 DEF CommitCodes, NoTx
  <2>2. tx[r].set # 0 /\ tx[r].set \in Nat
    BY <1>4 DEF CommitCodes, Goto, Storing
  <2>3. \A k \in CodeSet(tx[r].set) : k[1] = tx[r].set
    BY DEF CodeSet
  <2>4. \A k \in Codes : k[1] \in Nat /\ k[1] # 0 BY DEF Codes
  <2>5. \A k \in codes' : k \in codes \/ k[1] = tx[r].set
    BY <2>1, <2>3
  <2>6. UnredeemedCodes'
    <3> SUFFICES ASSUME NEW k \in Codes,
                        \/ k \in codes'
                        \/ k[1] > setCount
                        \/ \E q \in Reqs : tx'[q].set = k[1]
                 PROVE  redeemed[k] = 0
      BY <2>1
    <3>1. k[1] > setCount \/ k \in codes \/ \E q \in Reqs : tx[q].set = k[1]
      BY <2>1, <2>4, <2>5
    <3> QED BY <3>1
  <2>7. SetsApart'
    <3>1. \A q \in Reqs : tx'[q].set <= setCount BY <2>1
    <3>2. \A k \in codes' : k[1] <= setCount BY <2>5
    <3>3. \A q \in Reqs : \A k \in codes' : tx'[q].set # k[1]
      <4> SUFFICES ASSUME NEW q \in Reqs, NEW k \in codes' PROVE tx'[q].set # k[1]
        OBVIOUS
      <4>1. CASE q = r
        <5>1. k[1] # 0
          <6>1. CASE k \in codes BY <6>1, <2>4
          <6>2. CASE k[1] = tx[r].set BY <6>2, <2>2
          <6> QED BY <6>1, <6>2, <2>5
        <5> QED BY <4>1, <5>1, <2>1
      <4>2. CASE q # r
        <5>1. CASE k \in codes BY <4>2, <5>1, <2>1
        <5>2. CASE k[1] = tx[r].set BY <4>2, <5>2, <2>1, <2>2
        <5> QED BY <5>1, <5>2, <2>5
      <4> QED BY <4>1, <4>2
    <3>4. \A p, q \in Reqs : tx'[p].set = tx'[q].set /\ tx'[p].set # 0 => p = q
      BY <2>1
    <3> QED BY <2>1, <3>1, <3>2, <3>3, <3>4
  <2> QED BY <2>1, <2>6, <2>7
<1>5. CASE Crash
  <2>1. /\ codes' = codes /\ redeemed' = redeemed /\ setCount' = setCount
        /\ \A q \in Reqs : tx'[q].set = 0
    BY <1>5 DEF Crash, NoTx
  <2>2. \A k \in Codes : k[1] \in Nat /\ k[1] # 0 BY DEF Codes
  <2> QED BY <2>1, <2>2
<1>6. ASSUME NEW r \in Reqs, Fails(r) PROVE Goal
  <2>1. /\ codes' = codes /\ redeemed' = redeemed /\ setCount' = setCount
        /\ tx'[r].set = 0
        /\ \A q \in Reqs : q # r => tx'[q] = tx[q]
    BY <1>6 DEF Fails, NoTx
  <2>2. \A k \in Codes : k[1] \in Nat /\ k[1] # 0 BY DEF Codes
  <2>3. UnredeemedCodes'
    <3> SUFFICES ASSUME NEW k \in Codes,
                        \/ k \in codes
                        \/ k[1] > setCount
                        \/ \E q \in Reqs : tx'[q].set = k[1]
                 PROVE  redeemed[k] = 0
      BY <2>1
    <3>1. k[1] > setCount \/ k \in codes \/ \E q \in Reqs : tx[q].set = k[1]
      BY <2>1, <2>2
    <3> QED BY <3>1
  <2>4. SetsApart'
    <3>1. \A q \in Reqs : tx'[q].set <= setCount BY <2>1
    <3>2. \A q \in Reqs : \A k \in codes : tx'[q].set # k[1] BY <2>1, <2>2
    <3>3. \A p, q \in Reqs : tx'[p].set = tx'[q].set /\ tx'[p].set # 0 => p = q
      BY <2>1
    <3> QED BY <2>1, <3>1, <3>2, <3>3
  <2> QED BY <2>1, <2>3, <2>4
<1> QED
  BY <1>1, <1>2, <1>3, <1>4, <1>5, <1>6
  DEF Next, Statement, LoginReads, totp_setup, create_totp_challenge, create_session,
      ChallengeReads, consume_totp_challenge, Enable, Disable, ConfirmReads,
      SettingReads, ChallengeExpires, vars

(***************************************************************************)
(* Every statement keeps a calm account in order.                          *)
(***************************************************************************)
LEMMA CalmStep == CalmInv /\ [Next]_vars => CalmInv'
<1> SUFFICES ASSUME CalmInv, [Next]_vars, calm' PROVE Calm'
  BY TypeStep DEF CalmInv
<1> USE TwoFactorAssumption
    DEF CalmInv, Calm, Typed, Alone, Enabling, CodesToCome, WipesAll, OneSetOfCodes, TypeOK,
        Goto, Start, tables, counters, history, NoSecret
<1>1. ASSUME NEW r \in Reqs, LoginReads(r) PROVE Calm'
  BY <1>1 DEF LoginReads
<1>2. ASSUME NEW r \in Reqs, totp_setup(r) PROVE Calm'
  BY <1>2 DEF totp_setup
<1>3. ASSUME NEW r \in Reqs, Statement(r) PROVE Calm'
  <2>1. CASE create_totp_challenge(r) BY <2>1 DEF create_totp_challenge
  <2>2. CASE create_session(r) BY <2>2 DEF create_session
  <2>3. CASE ChallengeReads(r) BY <2>3 DEF ChallengeReads, Verified
  <2>4. CASE consume_recovery_code(r) BY <2>4 DEF consume_recovery_code
  <2>5. CASE Enable(r) BY <2>5 DEF Enable
  <2>6. CASE Disable(r) BY <2>6 DEF Disable
  <2>7. CASE WipeCodes(r) BY <2>7 DEF WipeCodes
  <2>8. CASE CommitCodes(r)
    <3>1. codes' = CodeSet(tx[r].set) BY <2>8 DEF CommitCodes
    <3>2. OneSetOfCodes' BY <3>1 DEF CodeSet
    <3>3. Alone' /\ Enabling' /\ CodesToCome' /\ WipesAll' /\ (enabled' => secret' # NoSecret)
      BY <2>8 DEF CommitCodes
    <3> QED BY <3>2, <3>3
  <2>9. CASE Fails(r) BY <2>9 DEF Fails
  <2> QED BY <1>3, <2>1, <2>2, <2>3, <2>4, <2>5, <2>6, <2>7, <2>8, <2>9 DEF Statement
<1>4. ASSUME NEW r \in Reqs, NEW p \in Proofs \cup {Wrong}, NEW t \in challenges,
             consume_totp_challenge(r, t, p)
      PROVE  Calm'
  BY <1>4 DEF consume_totp_challenge
<1>5. ASSUME NEW r \in Reqs, NEW p \in Proofs \cup {Wrong}, ConfirmReads(r, p)
      PROVE  Calm'
  BY <1>5 DEF ConfirmReads
<1>6. ASSUME NEW r \in Reqs, NEW p \in Proofs \cup {Wrong},
             NEW next \in {"disable", "wipe"}, SettingReads(r, p, next)
      PROVE  Calm'
  BY <1>6 DEF SettingReads, Verified
<1>7. ASSUME NEW t \in challenges, ChallengeExpires(t) PROVE Calm'
  BY <1>7 DEF ChallengeExpires
<1>8. CASE Crash BY <1>8 DEF Crash
<1>9. CASE UNCHANGED vars BY <1>9 DEF vars
<1> QED BY <1>1, <1>2, <1>3, <1>4, <1>5, <1>6, <1>7, <1>8, <1>9 DEF Next

-----------------------------------------------------------------------------
(***************************************************************************)
(* An account without 2FA satisfies the invariants.                        *)
(***************************************************************************)
LEMMA InitInv == Init => TokenInv /\ CodeInv
<1> SUFFICES ASSUME Init PROVE TokenInv /\ CodeInv
  OBVIOUS
<1> USE TwoFactorAssumption DEF Init
<1>1. Typed
  <2>1. Redeeming /\ Storing /\ OpenTx
    BY DEF Redeeming, Storing, OpenTx, NoTx
  <2>2. enabled \in BOOLEAN /\ issued \in BOOLEAN /\ calm \in BOOLEAN
    OBVIOUS
  <2>3. tx \in [Reqs -> [wiped : SUBSET Codes, set : 0..MaxSets]]
    BY DEF NoTx
  <2>4. proof \in [Reqs -> Proofs \cup {Wrong}]
    OBVIOUS
  <2>5. /\ pc \in [Reqs -> Steps] /\ goal \in [Reqs -> {"session", "disable", "wipe"}]
        /\ tries \in [Tokens -> Nat] /\ redeemed \in [Codes -> Nat]
    BY DEF Steps
  <2>6. /\ secretCount \in 0..MaxSecrets /\ setCount \in 0..MaxSets
        /\ tokenCount \in 0..MaxTokens
    OBVIOUS
  <2> QED BY <2>1, <2>2, <2>3, <2>4, <2>5, <2>6 DEF Typed, TypeOK
<1>2. UntriedTokens /\ TokensHandedOut /\ ChallengeSingleUse
  BY DEF UntriedTokens, TokensHandedOut, ChallengeSingleUse
<1>3. UnredeemedCodes /\ RecoveryCodeSingleUse
  BY DEF UnredeemedCodes, RecoveryCodeSingleUse
<1>4. SetsApart
  BY DEF SetsApart, NoTx
<1> QED BY <1>1, <1>2, <1>3, <1>4 DEF TokenInv, CodeInv

(***************************************************************************)
(* However many requests bring the same challenge token, and wherever the  *)
(* server dies, one code is tried against it (db.rs 714-727).              *)
(***************************************************************************)
THEOREM ChallengesAreSingleUse == Spec => []ChallengeSingleUse
<1>1. TokenInv => ChallengeSingleUse BY DEF TokenInv
<1> QED BY InitInv, TokenStep, <1>1, PTL DEF Spec

(***************************************************************************)
(* A recovery code gets one request through, in any interleaving of        *)
(* logins, regenerations and crashes (db.rs 741-797).                      *)
(***************************************************************************)
THEOREM RecoveryCodesAreSingleUse == Spec => []RecoveryCodeSingleUse
<1>1. CodeInv => RecoveryCodeSingleUse BY DEF CodeInv
<1> QED BY InitInv, CodeStep, <1>1, PTL DEF Spec

(***************************************************************************)
(* The tables, the requests under way and their transactions keep their    *)
(* types (users, totp_challenges, recovery_codes).                         *)
(***************************************************************************)
THEOREM TwoFactorTypes == Spec => []TypeOK
<1>1. Init => Typed BY InitInv DEF TokenInv
<1>2. Typed => TypeOK BY DEF Typed
<1> QED BY <1>1, <1>2, TypeStep, PTL DEF Spec

(***************************************************************************)
(* Before the first request the account is in order.                       *)
(***************************************************************************)
LEMMA CalmInit == Init => CalmInv
<1> SUFFICES ASSUME Init PROVE CalmInv
  OBVIOUS
<1>1. Typed BY InitInv DEF TokenInv
<1>2. Calm
  BY DEF Init, Calm, Alone, Enabling, CodesToCome, WipesAll, OneSetOfCodes
<1> QED BY <1>1, <1>2 DEF CalmInv

(***************************************************************************)
(* As long as requests come one by one and none fails, 2FA is on only with *)
(* a secret and backup codes, and these are of one set, for any number of  *)
(* codes in a set (auth.rs 1281-1458, db.rs 741-764).                      *)
(***************************************************************************)
THEOREM AccountStaysInOrder == Spec => []InOrderWhileCalm
<1>1. CalmInv => InOrderWhileCalm
  BY DEF CalmInv, Calm, InOrderWhileCalm, EnabledHasSecret, EnabledWithCodes, Quiet, CodesToCome
<1> QED BY <1>1, CalmInit, CalmStep, PTL DEF Spec

-----------------------------------------------------------------------------
(* TwoFactor implements OneTime, twice.                                    *)

(***************************************************************************)
(* Every statement issues, tries or withdraws challenge tokens, or leaves  *)
(* them as they are.                                                       *)
(***************************************************************************)
LEMMA TokenRefinement ==
  TokenInv /\ [Next]_vars => [ChallengeToken!Next]_(ChallengeToken!vars)
<1> SUFFICES ASSUME TokenInv, [Next]_vars
             PROVE  ChallengeToken!Next \/ UNCHANGED ChallengeToken!vars
  OBVIOUS
<1> USE TwoFactorAssumption
    DEF TokenInv, Typed, UntriedTokens, TokensHandedOut, TypeOK, tables, counters, history,
        Tokens
<1> DEFINE Goal == ChallengeToken!Next \/ UNCHANGED ChallengeToken!vars
<1>1. CASE UNCHANGED <<challenges, tokenCount, tries>>
  <2>1. TokenState' = TokenState BY <1>1 DEF TokenState
  <2> QED BY <1>1, <2>1 DEF ChallengeToken!vars
<1>2. ASSUME NEW r \in Reqs, create_totp_challenge(r) PROVE Goal
  <2>1. /\ tries' = tries /\ tokenCount' = tokenCount + 1
        /\ challenges' = challenges \cup {tokenCount + 1}
    BY <1>2 DEF create_totp_challenge
  <2>2. ASSUME NEW t \in Tokens
        PROVE  TokenState'[t] = TokenState[t] \/ (TokenState[t] = "unissued" /\ TokenState'[t] = "live")
    BY <2>1 DEF TokenState
  <2>3. ChallengeToken!Replace
    BY <2>1, <2>2 DEF ChallengeToken!Replace, ChallengeToken!Moves
  <2> QED BY <2>3 DEF ChallengeToken!Next
<1>3. ASSUME NEW r \in Reqs, NEW p \in Proofs \cup {Wrong}, NEW t \in challenges,
             consume_totp_challenge(r, t, p)
      PROVE  Goal
  <2>1. /\ tries' = [tries EXCEPT ![t] = @ + 1] /\ tokenCount' = tokenCount
        /\ challenges' = challenges \ {t} /\ t \in Tokens /\ tries[t] = 0
    BY <1>3 DEF consume_totp_challenge
  <2>2. TokenState[t] = "live" BY <2>1 DEF TokenState
  <2>3. TokenState'[t] = "spent" BY <2>1 DEF TokenState
  <2>4. ASSUME NEW i \in Tokens, i # t PROVE TokenState'[i] = TokenState[i]
    BY <2>1, <2>4 DEF TokenState
  <2>5. TokenState' = [TokenState EXCEPT ![t] = "spent"]
    BY <2>3, <2>4 DEF TokenState
  <2>6. ChallengeToken!Use(t) BY <2>1, <2>2, <2>5 DEF ChallengeToken!Use
  <2> QED BY <2>1, <2>6 DEF ChallengeToken!Next
<1>4. ASSUME NEW t \in challenges, ChallengeExpires(t) PROVE Goal
  <2>1. /\ tries' = tries /\ tokenCount' = tokenCount /\ challenges' = challenges \ {t}
    BY <1>4 DEF ChallengeExpires
  <2>2. ASSUME NEW i \in Tokens
        PROVE  TokenState'[i] = TokenState[i] \/ (TokenState[i] = "live" /\ TokenState'[i] = "void")
    BY <2>1 DEF TokenState
  <2>3. ChallengeToken!Replace
    BY <2>1, <2>2 DEF ChallengeToken!Replace, ChallengeToken!Moves
  <2> QED BY <2>3 DEF ChallengeToken!Next
<1> QED
  BY <1>1, <1>2, <1>3, <1>4
  DEF Next, Statement, LoginReads, totp_setup, create_session, ChallengeReads,
      consume_recovery_code, Enable, Disable, WipeCodes, CommitCodes, ConfirmReads,
      SettingReads, Fails, Crash, vars

(***************************************************************************)
(* Every statement issues, redeems or withdraws recovery codes, or leaves  *)
(* them as they are.                                                       *)
(***************************************************************************)
LEMMA CodeRefinement ==
  CodeInv /\ [Next]_vars => [RecoveryCode!Next]_(RecoveryCode!vars)
<1> SUFFICES ASSUME CodeInv, [Next]_vars
             PROVE  RecoveryCode!Next \/ UNCHANGED RecoveryCode!vars
  OBVIOUS
<1> USE TwoFactorAssumption DEF CodeInv, Typed, TypeOK, tables, counters, history
<1> DEFINE Goal == RecoveryCode!Next \/ UNCHANGED RecoveryCode!vars
           Kept == \A k \in Codes : \/ CodeState'[k] = CodeState[k]
                                    \/ CodeState[k] = "unissued" /\ CodeState'[k] \in {"live", "void"}
                                    \/ CodeState[k] = "live" /\ CodeState'[k] = "void"
<1>0. ASSUME Kept, redeemed' = redeemed PROVE Goal
  <2>1. RecoveryCode!Replace
    BY <1>0 DEF RecoveryCode!Replace, RecoveryCode!Moves
  <2> QED BY <2>1 DEF RecoveryCode!Next
<1>a. \A k \in Codes : k[1] \in Nat /\ k[1] # 0 BY DEF Codes
<1>1. CASE UNCHANGED <<codes, setCount, tx, redeemed>>
  <2>1. CodeState' = CodeState BY <1>1 DEF CodeState
  <2> QED BY <1>1, <2>1 DEF RecoveryCode!vars
<1>2. ASSUME NEW r \in Reqs, consume_recovery_code(r) PROVE Goal
  <2> DEFINE k == proof[r].of
  <2>1. /\ tx' = tx /\ setCount' = setCount /\ codes' = codes \ {k}
        /\ redeemed' = [redeemed EXCEPT ![k] = IF k \in codes THEN @ + 1 ELSE @]
    BY <1>2 DEF consume_recovery_code
  <2>2. CASE k \in codes
    <3>1. k \in Codes /\ redeemed[k] = 0 BY <2>2 DEF UnredeemedCodes
    <3>2. CodeState[k] = "live" BY <2>2, <3>1 DEF CodeState
    <3>3. redeemed' = [redeemed EXCEPT ![k] = @ + 1] BY <2>1, <2>2
    <3>4. CodeState'[k] = "spent" BY <3>1, <3>3 DEF CodeState
    <3>5. ASSUME NEW j \in Codes, j # k PROVE CodeState'[j] = CodeState[j]
      BY <2>1, <3>1, <3>3, <3>5 DEF CodeState
    <3>6. CodeState' = [CodeState EXCEPT ![k] = "spent"]
      <4> DEFINE S == [CodeState EXCEPT ![k] = "spent"]
                 T == CodeState'
      <4>1. DOMAIN CodeState = Codes BY DEF CodeState
      <4>2. T = [j \in Codes |-> T[j]] BY DEF CodeState
      <4>3. S = [j \in Codes |-> S[j]] BY <4>1
      <4>4. ASSUME NEW j \in Codes PROVE S[j] = T[j]
        BY <3>4, <3>5, <4>1
      <4> HIDE DEF S, T
      <4>5. S = T BY <4>2, <4>3, <4>4
      <4> QED BY <4>5 DEF S, T
    <3>7. RecoveryCode!Use(k) BY <3>2, <3>3, <3>6 DEF RecoveryCode!Use
    <3> QED BY <3>1, <3>7 DEF RecoveryCode!Next
  <2>3. CASE k \notin codes
    <3>1. codes' = codes /\ redeemed' = redeemed BY <2>1, <2>3
    <3>2. CodeState' = CodeState BY <2>1, <3>1 DEF CodeState
    <3> QED BY <3>1, <3>2 DEF RecoveryCode!vars
  <2> QED BY <2>2, <2>3
<1>3. ASSUME NEW r \in Reqs, WipeCodes(r) PROVE Goal
  <2>1. /\ codes' = codes /\ redeemed' = redeemed /\ setCount' = setCount + 1
        /\ tx'[r].set = setCount + 1 /\ tx[r].set = 0
        /\ \A q \in Reqs : q # r => tx'[q] = tx[q]
    BY <1>3 DEF WipeCodes, OpenTx, Goto
  <2>2. ASSUME NEW k \in Codes PROVE CodeState'[k] = CodeState[k]
    <3>1. k[1] \in Nat /\ k[1] # 0 /\ setCount \in Nat BY <1>a
    <3>2. \A q \in Reqs : tx[q].set = k[1] => tx'[q].set = k[1]
      BY <2>1, <3>1
    <3>3. \A q \in Reqs : tx'[q].set = k[1] => tx[q].set = k[1] \/ k[1] = setCount + 1
      BY <2>1
    <3>4. k[1] = setCount + 1 => tx'[r].set = k[1] BY <2>1
    <3>5. (k[1] > setCount + 1 \/ \E q \in Reqs : tx'[q].set = k[1])
            <=> (k[1] > setCount \/ \E q \in Reqs : tx[q].set = k[1])
      <4> DEFINE g == k[1]
                 Old(q) == tx[q].set = g
                 New(q) == tx'[q].set = g
      <4>1. /\ g \in Nat /\ setCount \in Nat
            /\ \A q \in Reqs : Old(q) => New(q)
            /\ \A q \in Reqs : New(q) => Old(q) \/ g = setCount + 1
            /\ g = setCount + 1 => New(r)
        BY <3>1, <3>2, <3>3, <3>4
      <4> HIDE DEF g, Old, New
      <4>2. (g > setCount + 1 \/ \E q \in Reqs : New(q))
              <=> (g > setCount \/ \E q \in Reqs : Old(q))
        BY <4>1
      <4> QED BY <4>2 DEF g, Old, New
    <3> QED BY <2>1, <3>5 DEF CodeState
  <2> QED BY <1>0, <2>1, <2>2
<1>4. ASSUME NEW r \in Reqs, CommitCodes(r) PROVE Goal
  <2>1. /\ codes' = (codes \ tx[r].wiped) \cup CodeSet(tx[r].set)
        /\ redeemed' = redeemed /\ setCount' = setCount
        /\ tx'[r].set = 0
        /\ \A q \in Reqs : q # r => tx'[q] = tx[q]
    BY <1>4 DEF CommitCodes, NoTx
  <2>2. tx[r].set # 0 BY <1>4 DEF CommitCodes, Goto, Storing
  <2>3. ASSUME NEW k \in Codes
        PROVE  k \in CodeSet(tx[r].set) <=> k[1] = tx[r].set
    BY DEF CodeSet, Codes
  <2>4. ASSUME NEW k \in Codes PROVE
          \/ CodeState'[k] = CodeState[k]
          \/ CodeState[k] = "unissued" /\ CodeState'[k] \in {"live", "void"}
          \/ CodeState[k] = "live" /\ CodeState'[k] = "void"
    <3>1. CASE k[1] = tx[r].set
      <4>1. k \notin codes /\ k \in codes' BY <2>1, <2>3, <3>1 DEF SetsApart
      <4> QED BY <2>1, <3>1, <4>1 DEF CodeState
    <3>2. CASE k[1] # tx[r].set
      <4>1. k \in codes' => k \in codes BY <2>1, <2>3, <3>2
      <4>2. (\E q \in Reqs : tx'[q].set = k[1]) <=> (\E q \in Reqs : tx[q].set = k[1])
        BY <2>1, <1>a, <3>2
      <4>3. k \in codes => k[1] <= setCount /\ ~ \E q \in Reqs : tx[q].set = k[1]
        BY DEF SetsApart
      <4> QED BY <2>1, <4>1, <4>2, <4>3, <1>a DEF CodeState
    <3> QED BY <3>1, <3>2
  <2> QED BY <1>0, <2>1, <2>4
<1>5. ASSUME codes' = codes, redeemed' = redeemed, setCount' = setCount,
             \A q \in Reqs : tx'[q].set \in {0, tx[q].set}
      PROVE  Goal
  <2>1. ASSUME NEW k \in Codes, \E q \in Reqs : tx'[q].set = k[1]
        PROVE  \E q \in Reqs : tx[q].set = k[1]
    BY <1>5, <1>a, <2>1
  <2>2. ASSUME NEW k \in Codes
        PROVE  CodeState'[k] = CodeState[k] \/ (CodeState[k] = "unissued" /\ CodeState'[k] = "void")
    BY <1>5, <2>1 DEF CodeState
  <2> QED BY <1>0, <1>5, <2>2
<1>6. CASE Crash
  BY <1>5, <1>6 DEF Crash, NoTx
<1>7. ASSUME NEW r \in Reqs, Fails(r) PROVE Goal
  <2>1. \A q \in Reqs : tx'[q].set \in {0, tx[q].set} BY <1>7 DEF Fails, NoTx
  <2> QED BY <1>5, <1>7, <2>1 DEF Fails
<1> QED
  BY <1>1, <1>2, <1>3, <1>4, <1>6, <1>7
  DEF Next, Statement, LoginReads, totp_setup, create_totp_challenge, create_session,
      ChallengeReads, consume_totp_challenge, Enable, Disable, ConfirmReads,
      SettingReads, ChallengeExpires, vars

(***************************************************************************)
(* Nothing has been issued to an account without 2FA.                      *)
(***************************************************************************)
LEMMA RefinementInit == Init => ChallengeToken!Init /\ RecoveryCode!Init
<1> SUFFICES ASSUME Init PROVE ChallengeToken!Init /\ RecoveryCode!Init
  OBVIOUS
<1> USE TwoFactorAssumption DEF Init
<1>1. \A t \in Tokens : TokenState[t] = "unissued" BY DEF TokenState, Tokens
<1>2. \A k \in Codes : CodeState[k] = "unissued" BY DEF CodeState, Codes
<1>3. ChallengeToken!Init BY <1>1 DEF ChallengeToken!Init, TokenState
<1>4. RecoveryCode!Init BY <1>2 DEF RecoveryCode!Init, CodeState
<1> QED BY <1>3, <1>4

(***************************************************************************)
(* Challenge tokens are one-time items: one that was tried or expired does *)
(* not come back, for any number of tokens and requests (db.rs 714-727).   *)
(***************************************************************************)
THEOREM ChallengesImplementOneTime == Spec => ChallengesOneTime
<1> QED
  BY InitInv, RefinementInit, TokenStep, TokenRefinement, PTL
  DEF Spec, ChallengesOneTime, ChallengeToken!Spec

(***************************************************************************)
(* Recovery codes are one-time items: one that was redeemed, replaced or   *)
(* rolled back does not come back, for any number of sets and requests     *)
(* (db.rs 741-797).                                                        *)
(***************************************************************************)
THEOREM RecoveryCodesImplementOneTime == Spec => RecoveryCodesOneTime
<1> QED
  BY InitInv, RefinementInit, CodeStep, CodeRefinement, PTL
  DEF Spec, RecoveryCodesOneTime, RecoveryCode!Spec
=============================================================================
