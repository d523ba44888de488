----------------------------- MODULE TwoFactor ------------------------------
(***************************************************************************)
(* Two-factor login of one account: login, totp_challenge, totp_setup,     *)
(* totp_confirm, totp_disable and recovery_codes_generate of               *)
(* server/src/auth.rs over the users, totp_challenges and recovery_codes   *)
(* tables (server/src/db.rs).                                              *)
(*                                                                         *)
(* A request reads the account's row once and then runs its statements one *)
(* by one; requests of the same account overlap at every statement.  The   *)
(* account's owner presents a TOTP code of some secret, a recovery code,   *)
(* or something that is neither.                                           *)
(***************************************************************************)
EXTENDS Naturals, FiniteSets

CONSTANTS
    Reqs,         \* requests that may be under way at the same time
    MaxSecrets,   \* bound: secrets generated by totp_setup
    MaxSets,      \* bound: sets of recovery codes generated
    PerSet,       \* RECOVERY_CODE_COUNT: codes in a set (10 in the code)
    MaxTokens,    \* bound: challenge tokens issued
    MayCrash      \* TRUE: a statement may fail, and the server may die

ASSUME TwoFactorAssumption ==
    /\ MaxSecrets \in Nat /\ MaxSets \in Nat /\ PerSet \in Nat /\ MaxTokens \in Nat
    /\ MayCrash \in BOOLEAN

NoSecret == 0
Secrets == 1..MaxSecrets
Codes == (1..MaxSets) \X (1..PerSet)
Tokens == 1..MaxTokens
CodeSet(g) == {g} \X (1..PerSet)

VARIABLES
    enabled,     \* users.totp_enabled
    secret,      \* users.totp_secret
    codes,       \* recovery_codes
    challenges,  \* totp_challenges that have not expired
    pc,          \* Reqs -> the statement the request runs next
    goal,        \* Reqs -> what a verified request goes on to do
    proof,       \* Reqs -> the code that came with the request
    tx,          \* Reqs -> [wiped, set]: the open transaction on recovery_codes
    secretCount, setCount, tokenCount,   \* how many were generated
    tries,       \* history: Tokens -> requests that consumed the token
    redeemed,    \* history: Codes -> requests that were let through by the code
    issued,      \* history: a set of codes was stored since 2FA was last enabled
    calm         \* history: requests came one after the other, and none failed

tables == <<enabled, secret, codes, challenges>>
counters == <<secretCount, setCount, tokenCount>>
history == <<tries, redeemed, issued>>
vars == <<tables, pc, goal, proof, tx, counters, history, calm>>

Proofs == [kind : {"totp"}, of : Secrets] \cup [kind : {"recovery"}, of : Codes]
Wrong == [kind |-> "totp", of |-> NoSecret]
NoTx == [wiped |-> {}, set |-> 0]

Steps == {"idle", "issue", "session", "challenged", "redeem", "enable", "disable",
          "wipe", "store"}

TypeOK ==
    /\ enabled \in BOOLEAN
    /\ secret \in Secrets \cup {NoSecret}
    /\ codes \subseteq Codes
    /\ challenges \subseteq Tokens
    /\ pc \in [Reqs -> Steps]
    /\ goal \in [Reqs -> {"session", "disable", "wipe"}]
    /\ proof \in [Reqs -> Proofs \cup {Wrong}]
    /\ tx \in [Reqs -> [wiped : SUBSET Codes, set : 0..MaxSets]]
    /\ secretCount \in 0..MaxSecrets
    /\ setCount \in 0..MaxSets
    /\ tokenCount \in 0..MaxTokens
    /\ tries \in [Tokens -> Nat]
    /\ redeemed \in [Codes -> Nat]
    /\ issued \in BOOLEAN /\ calm \in BOOLEAN

Init ==
    /\ enabled = FALSE /\ secret = NoSecret /\ codes = {} /\ challenges = {}
    /\ pc = [r \in Reqs |-> "idle"]
    /\ goal = [r \in Reqs |-> "session"]
    /\ proof = [r \in Reqs |-> Wrong]
    /\ tx = [r \in Reqs |-> NoTx]
    /\ secretCount = 0 /\ setCount = 0 /\ tokenCount = 0
    /\ tries = [t \in Tokens |-> 0]
    /\ redeemed = [k \in Codes |-> 0]
    /\ issued = FALSE /\ calm = TRUE

-----------------------------------------------------------------------------
Goto(r, from, to) ==
    /\ pc[r] = from
    /\ pc' = [pc EXCEPT ![r] = to]
    /\ UNCHANGED calm

(***************************************************************************)
(* A request arrives; calm records whether it is the only one.             *)
(***************************************************************************)
Start(r, to) ==
    /\ pc[r] = "idle"
    /\ pc' = [pc EXCEPT ![r] = to]
    /\ calm' = (calm /\ \A q \in Reqs : pc[q] = "idle")

(***************************************************************************)
(* login with the right password: the row that is read decides between a   *)
(* session and a challenge.                                                *)
(***************************************************************************)
LoginReads(r) ==
    /\ Start(r, IF enabled THEN "issue" ELSE "session")
    /\ UNCHANGED <<tables, goal, proof, tx, counters, history>>

create_totp_challenge(r) ==
    /\ Goto(r, "issue", "idle")
    /\ tokenCount < MaxTokens
    /\ tokenCount' = tokenCount + 1
    /\ challenges' = challenges \cup {tokenCount + 1}
    /\ UNCHANGED <<enabled, secret, codes, goal, proof, tx, secretCount, setCount,
                   history>>

(***************************************************************************)
(* The request ends with a session token for its client.                   *)
(***************************************************************************)
create_session(r) ==
    /\ Goto(r, "session", "idle")
    /\ UNCHANGED <<tables, goal, proof, tx, counters, history>>

ChallengeExpires(t) ==
    /\ t \in challenges
    /\ challenges' = challenges \ {t}
    /\ UNCHANGED <<enabled, secret, codes, pc, goal, proof, tx, counters, history, calm>>

(***************************************************************************)
(* A variant of consume_totp_challenge that leaves the token in the table. *)
(***************************************************************************)
peek_totp_challenge(r, t, p) ==
    /\ t \in challenges
    /\ Start(r, "challenged")
    /\ proof' = [proof EXCEPT ![r] = p]
    /\ tries' = [tries EXCEPT ![t] = @ + 1]
    /\ UNCHANGED <<tables, goal, tx, counters, redeemed, issued>>

(***************************************************************************)
(* totp_challenge: the token is deleted by the statement that finds it,    *)
(* whatever becomes of the code.                                           *)
(***************************************************************************)
consume_totp_challenge(r, t, p) ==
    /\ t \in challenges
    /\ Start(r, "challenged")
    /\ challenges' = challenges \ {t}
    /\ proof' = [proof EXCEPT ![r] = p]
    /\ tries' = [tries EXCEPT ![t] = @ + 1]
    /\ UNCHANGED <<enabled, secret, codes, goal, tx, counters, redeemed, issued>>

(***************************************************************************)
(* verify_totp_or_recovery, on the row just read: a TOTP code is settled   *)
(* at once, a recovery code by one more statement.                         *)
(***************************************************************************)
Verified(p, next) ==
    IF p.kind = "recovery" THEN "redeem"
    ELSE IF p.of = secret THEN next
    ELSE "idle"

ChallengeReads(r) ==
    /\ Goto(r, "challenged",
            IF secret = NoSecret THEN "idle" ELSE Verified(proof[r], "session"))
    /\ goal' = [goal EXCEPT ![r] = "session"]
    /\ UNCHANGED <<tables, proof, tx, counters, history>>

(***************************************************************************)
(* Rows that an open transaction has deleted are locked until it ends.  A  *)
(* transaction whose DELETE meets such rows waits for the one that started *)
(* before it (set numbers grow in that order).                             *)
(***************************************************************************)
Blocked(r) ==
    \E q \in Reqs : /\ tx[q].set \in 1..(tx[r].set - 1)
                   /\ tx[q].wiped \cap tx[r].wiped # {}

Locked(r) == UNION {tx[q].wiped : q \in {q \in Reqs \ {r} : ~ Blocked(q)}}

(***************************************************************************)
(* A variant of consume_recovery_code that leaves the code in the table.   *)
(***************************************************************************)
check_recovery_code(r) ==
    LET k == proof[r].of
    IN  /\ pc[r] = "redeem"
        /\ k \notin Locked(r)
        /\ Goto(r, "redeem", IF k \in codes THEN goal[r] ELSE "idle")
        /\ redeemed' = [redeemed EXCEPT ![k] = IF k \in codes THEN @ + 1 ELSE @]
        /\ UNCHANGED <<tables, goal, proof, tx, counters, tries, issued>>

consume_recovery_code(r) ==
    LET k == proof[r].of
    IN  /\ pc[r] = "redeem"
        /\ k \notin Locked(r)
        /\ Goto(r, "redeem", IF k \in codes THEN goal[r] ELSE "idle")
        /\ codes' = codes \ {k}
        /\ redeemed' = [redeemed EXCEPT ![k] = IF k \in codes THEN @ + 1 ELSE @]
        /\ UNCHANGED <<enabled, secret, challenges, goal, proof, tx, counters, tries, issued>>

-----------------------------------------------------------------------------
(* The settings of an authenticated session.                               *)

(***************************************************************************)
(* A variant of totp_setup whose secret is not the one it generated.       *)
(***************************************************************************)
totp_setup_mismatch(r) ==
    /\ Start(r, "idle")
    /\ secretCount < MaxSecrets
    /\ secretCount' = secretCount + 1
    /\ secret' = secretCount + 2
    /\ UNCHANGED <<enabled, codes, challenges, goal, proof, tx, setCount, tokenCount,
                   history>>

(***************************************************************************)
(* totp_setup stores a fresh secret, whether or not 2FA is on.             *)
(***************************************************************************)
totp_setup(r) ==
    /\ Start(r, "idle")
    /\ secretCount < MaxSecrets
    /\ secretCount' = secretCount + 1
    /\ secret' = secretCount + 1
    /\ UNCHANGED <<enabled, codes, challenges, goal, proof, tx, setCount, tokenCount,
                   history>>

(***************************************************************************)
(* totp_confirm: the code matches the secret of the row that was read.     *)
(***************************************************************************)
ConfirmReads(r, p) ==
    /\ secret # NoSecret /\ p.kind = "totp" /\ p.of = secret
    /\ Start(r, "enable")
    /\ UNCHANGED <<tables, goal, proof, tx, counters, history>>

(***************************************************************************)
(* A variant of Enable that ends the request without backup codes.         *)
(***************************************************************************)
EnableWithoutCodes(r) ==
    /\ Goto(r, "enable", "idle")
    /\ enabled' = TRUE
    /\ issued' = (enabled /\ issued)
    /\ UNCHANGED <<secret, codes, challenges, goal, proof, tx, counters, tries, redeemed>>

Enable(r) ==
    /\ Goto(r, "enable", "wipe")
    /\ enabled' = TRUE
    /\ issued' = (enabled /\ issued)
    /\ UNCHANGED <<secret, codes, challenges, goal, proof, tx, counters, tries,
                   redeemed>>

(***************************************************************************)
(* totp_disable and recovery_codes_generate check that 2FA is on, then the *)
(* code, and go on to next.                                                *)
(***************************************************************************)
SettingReads(r, p, next) ==
    /\ enabled /\ secret # NoSecret
    /\ Start(r, Verified(p, next))
    /\ goal' = [goal EXCEPT ![r] = next]
    /\ proof' = [proof EXCEPT ![r] = p]
    /\ UNCHANGED <<tables, tx, counters, history>>

Disable(r) ==
    /\ Goto(r, "disable", "idle")
    /\ enabled' = FALSE
    /\ secret' = NoSecret
    /\ UNCHANGED <<codes, challenges, goal, proof, tx, counters, history>>

(***************************************************************************)
(* store_recovery_codes: a transaction deletes the rows its DELETE sees    *)
(* when it starts, then inserts a new set and commits.  Rows that another  *)
(* transaction commits while the DELETE waits are not among them.          *)
(***************************************************************************)
WipeCodes(r) ==
    /\ Goto(r, "wipe", "store")
    /\ setCount < MaxSets
    /\ setCount' = setCount + 1
    /\ tx' = [tx EXCEPT ![r] = [wiped |-> codes, set |-> setCount + 1]]
    /\ UNCHANGED <<tables, goal, proof, secretCount, tokenCount, history>>

CommitCodes(r) ==
    /\ Goto(r, "store", "idle")
    /\ ~ Blocked(r)
    /\ codes' = (codes \ tx[r].wiped) \cup CodeSet(tx[r].set)
    /\ tx' = [tx EXCEPT ![r] = NoTx]
    /\ issued' = TRUE
    /\ UNCHANGED <<enabled, secret, challenges, goal, proof, counters, tries,
                   redeemed>>

(***************************************************************************)
(* A statement returns an error: its request answers 500 and ends, and a   *)
(* transaction it has open rolls back.                                     *)
(***************************************************************************)
Fails(r) ==
    /\ MayCrash
    /\ pc[r] # "idle"
    /\ pc' = [pc EXCEPT ![r] = "idle"]
    /\ calm' = FALSE
    /\ tx' = [tx EXCEPT ![r] = NoTx]
    /\ UNCHANGED <<tables, goal, proof, counters, history>>

(***************************************************************************)
(* The server dies: requests end where they are, open transactions roll    *)
(* back, the tables stay.                                                  *)
(***************************************************************************)
Crash ==
    /\ MayCrash
    /\ pc' = [r \in Reqs |-> "idle"]
    /\ calm' = FALSE
    /\ tx' = [r \in Reqs |-> NoTx]
    /\ UNCHANGED <<tables, goal, proof, counters, history>>

-----------------------------------------------------------------------------
Statement(r) ==
    \/ create_totp_challenge(r) \/ create_session(r) \/ ChallengeReads(r)
    \/ consume_recovery_code(r) \/ Enable(r) \/ Disable(r)
    \/ WipeCodes(r) \/ CommitCodes(r) \/ Fails(r)

Next ==
    \/ \E r \in Reqs : LoginReads(r) \/ totp_setup(r) \/ Statement(r)
    \/ \E r \in Reqs : \E p \in Proofs \cup {Wrong} :
          \/ \E t \in challenges : consume_totp_challenge(r, t, p)
          \/ ConfirmReads(r, p)
          \/ SettingReads(r, p, "disable")
          \/ SettingReads(r, p, "wipe")
    \/ \E t \in challenges : ChallengeExpires(t)
    \/ Crash

Spec == Init /\ [][Next]_vars

-----------------------------------------------------------------------------
(***************************************************************************)
(* A challenge token lets one code be tried, also when several requests    *)
(* bring it at once ("deleted on first use regardless of outcome").        *)
(***************************************************************************)
ChallengeSingleUse == \A t \in Tokens : tries[t] <= 1

(***************************************************************************)
(* A recovery code lets one request through, through regenerations,        *)
(* crashes and overlapping requests ("single-use").                        *)
(***************************************************************************)
RecoveryCodeSingleUse == \A k \in Codes : redeemed[k] <= 1

(***************************************************************************)
(* As long as requests come one by one and none fails, the account is in   *)
(* order: 2FA is on only with a secret, without which neither a TOTP code  *)
(* nor a recovery code gets its owner in (totp_challenge, 1225); with no   *)
(* request under way it is on only if backup codes were handed out         *)
(* (auth.rs 1327, "Enable 2FA and generate backup codes atomically"); and  *)
(* the codes are of one set (006_totp_and_recovery.sql 34, "old codes are  *)
(* wiped first").                                                          *)
(***************************************************************************)
Quiet == \A r \in Reqs : pc[r] = "idle"
EnabledHasSecret == enabled => secret # NoSecret
EnabledWithCodes == Quiet /\ enabled => issued
OneSetOfCodes == \A j, k \in codes : j[1] = k[1]
InOrderWhileCalm == calm => EnabledHasSecret /\ EnabledWithCodes /\ OneSetOfCodes

-----------------------------------------------------------------------------
(***************************************************************************)
(* Recovery codes and challenge tokens as one-time items.  The codes of a  *)
(* transaction that is still open are not issued yet, those of one that    *)
(* was rolled back never are.                                              *)
(***************************************************************************)
CodeState ==
    [k \in Codes |->
        IF redeemed[k] > 0 THEN "spent"
        ELSE IF k \in codes THEN "live"
        ELSE IF k[1] > setCount \/ (\E r \in Reqs : tx[r].set = k[1]) THEN "unissued"
        ELSE "void"]

TokenState ==
    [t \in Tokens |->
        IF tries[t] > 0 THEN "spent"
        ELSE IF t \in challenges THEN "live"
        ELSE IF t > tokenCount THEN "unissued"
        ELSE "void"]

RecoveryCode == INSTANCE OneTime WITH Items <- Codes, state <- CodeState, uses <- redeemed
ChallengeToken == INSTANCE OneTime WITH Items <- Tokens, state <- TokenState, uses <- tries

(***************************************************************************)
(* store_recovery_codes and consume_recovery_code implement one-time items *)
(* under all interleavings, rollbacks and crashes: a code that was used or *)
(* wiped never counts again.                                               *)
(***************************************************************************)
RecoveryCodesOneTime == RecoveryCode!Spec

(***************************************************************************)
(* create_totp_challenge, its expiry and consume_totp_challenge implement  *)
(* one-time items: an expired or tried token lets no further code in.      *)
(***************************************************************************)
ChallengesOneTime == ChallengeToken!Spec
=============================================================================
