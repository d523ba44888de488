---------------------------- MODULE AccountProofs ---------------------------
(***************************************************************************)
(* What Account promises for every number of calls, tokens, secrets,       *)
(* visits and faults: the code form of LoginPage has its token, the owner  *)
(* is not locked out, and the security panel shows the account as it is.   *)
(***************************************************************************)
EXTENDS Account, TLAPS

-----------------------------------------------------------------------------
(* The inductive invariant.                                                *)

(***************************************************************************)
(* What the number of a call can be, by its route.                         *)
(***************************************************************************)
NumberFits(c) ==
    /\ c.op \in LoginCalls => c.num \in 0..tokens
    /\ c.op \in PanelCalls => c.num \in 0..generated
    /\ c.op \in {"setup", "confirm", "generate"} /\ c.state = "ok" => c.num # None
    /\ c.op \in Gets => c.num \in {0, 1} /\ c.num <= generated
NumbersFit == \A c \in calls : NumberFits(c)

(***************************************************************************)
(* What a form on display is about is there.                               *)
(***************************************************************************)
FormsFilled ==
    /\ mode = "totp" => challengeToken # None
    /\ setupStep = "qr" => setupSecret # None
    /\ secret <= generated /\ setupSecret <= generated
    /\ enabled \/ Confirming => generated # 0
    /\ \A g \in Gets : cache[g].num <= generated

TypeInv == TypeOK /\ NumbersFit /\ FormsFilled

(***************************************************************************)
(* A right code of a confirmation under way is of a secret in the app.     *)
(***************************************************************************)
ConfirmProvesEntry ==
    \A c \in calls :
        c.op = "confirm" /\ c.code = "right" /\ c.state = "sent" => c.num \in app

(***************************************************************************)
(* The app has the secret that login checks, or will check next.           *)
(***************************************************************************)
EntryHeld == enabled \/ Confirming => replaced \/ secret \in app

(***************************************************************************)
(* The calls the panel depends on: every one that changes the account, and *)
(* the status it is waiting for.                                           *)
(***************************************************************************)
Matters(c) == c.op \in PanelCalls \/ (c.op \in Gets /\ c.shown)
Live == {c \in calls : Matters(c)}

(***************************************************************************)
(* A closed panel waits for nothing.                                       *)
(***************************************************************************)
Quiet == ~ showSecurity => \A c \in Live : ~ c.shown

(***************************************************************************)
(* A call that changes the account is waited for, and is the only one.     *)
(***************************************************************************)
Alone == \A c \in Live : c.op \in PanelCalls => c.shown /\ \A d \in Live : d = c

(***************************************************************************)
(* A status on its way from the server is still the account's.             *)
(***************************************************************************)
StatusTrue ==
    \A c \in Live :
        c.op \in Gets /\ Answered(c) /\ c.via # "cache" =>
            c.state = "ok" /\ (c.num = 1) = enabled

(***************************************************************************)
(* The panel differs from the account only by an answer on its way.        *)
(***************************************************************************)
Turned(c) ==
    \/ c.op = "confirm" /\ c.state \in {"enabled", "ok"}
    \/ c.op = "disable" /\ c.state = "ok"
Mirrors ==
    /\ Live = {} => totpEnabled = enabled
    /\ \A c \in Live : c.op \in PanelCalls =>
          enabled = IF Turned(c) THEN c.op = "confirm" ELSE totpEnabled

(***************************************************************************)
(* The codes on their way are the newest, and so are the ones on display   *)
(* when none are on their way.                                             *)
(***************************************************************************)
BringsCodes(c) == c.op \in {"confirm", "generate"} /\ c.state = "ok"
CodesNewest ==
    /\ \A c \in Live : BringsCodes(c) => c.num = codeSet
    /\ backupCodes # None /\ (\A c \in Live : ~ BringsCodes(c)) => backupCodes = codeSet

PanelInv ==
    /\ Quiet
    /\ showSecurity /\ ~ doubt => Alone /\ StatusTrue /\ Mirrors /\ CodesNewest

AccountInv == TypeInv /\ EntryHeld /\ ConfirmProvesEntry /\ PanelInv

-----------------------------------------------------------------------------
(* Calls.                                                                  *)

(***************************************************************************)
(* What a GET of the panel starts: a call it waits for, from the cache or  *)
(* to the server, and perhaps one for the cache only.                      *)
(***************************************************************************)
LEMMA FetchedCalls ==
    ASSUME TypeInv, NEW d \in Fetch("status")
    PROVE  /\ d \in CallType /\ d.op = "status" /\ d.num \in {0, 1} /\ d.num <= generated
           /\ d.state \in {"sent", "ok"} /\ (d.state = "sent" \/ d.via = "cache")
<1> DEFINE c == Call("status", "right", None)
           k == [c EXCEPT !.num = cache["status"].num, !.state = "ok", !.via = "cache"]
           u == [c EXCEPT !.shown = FALSE]
<1>0. "status" \in Gets  BY DEF Gets
<1>1. /\ MaxChanges + MaxTokens \in Nat /\ None \in 0..(MaxChanges + MaxTokens)
      /\ generated \in Nat
      /\ generated <= MaxChanges + MaxTokens
  BY AccountAssumption DEF TypeInv, TypeOK, Numbers, None
<1>2. /\ c \in CallType /\ c.op = "status" /\ c.num = None /\ c.state = "sent"
      /\ c.via \in {"network", "worker"}
  BY <1>0, <1>1 DEF Call, CallType, Underway
<1>3. cache["status"].num \in {0, 1} /\ cache["status"].num <= generated
  BY <1>0 DEF TypeInv, TypeOK, FormsFilled
<1>4. cache["status"].num \in 0..(MaxChanges + MaxTokens)
  BY <1>1, <1>3
<1> HIDE DEF c
<1>5. /\ k \in CallType /\ k.op = "status" /\ k.num = cache["status"].num
      /\ k.state = "ok" /\ k.via = "cache"
  BY <1>2, <1>4 DEF CallType
<1>6. /\ u \in CallType /\ u.op = "status" /\ u.num = None /\ u.state = "sent"
  BY <1>2 DEF CallType
<1>7. d \in {c, k, u}  BY DEF Fetch, c
<1> HIDE DEF k, u
<1> QED  BY <1>1, <1>2, <1>3, <1>5, <1>6, <1>7 DEF None

-----------------------------------------------------------------------------
(* Types.                                                                  *)

(***************************************************************************)
(* The bounds as numbers.                                                  *)
(***************************************************************************)
LEMMA Counted ==
    ASSUME TypeInv
    PROVE  /\ MaxChanges \in Nat /\ MaxTokens \in Nat /\ MaxVisits \in Nat /\ MaxFaults \in Nat
           /\ tokens \in Nat /\ tokens <= MaxTokens
           /\ generated \in Nat /\ generated <= MaxChanges
           /\ None \in 0..(MaxChanges + MaxTokens) /\ None \in 0..tokens /\ None \in 0..generated
  BY AccountAssumption DEF TypeInv, TypeOK, Numbers, None

(***************************************************************************)
(* A step that lets go of calls, and adds calls whose numbers fit.         *)
(***************************************************************************)
LEMMA CallsFit ==
    ASSUME TypeInv, tokens' \in Nat, generated' \in Nat,
           tokens <= tokens', generated <= generated',
           \A d \in calls' : d \in calls \/ (d \in CallType /\ NumberFits(d)')
    PROVE  calls' \subseteq CallType /\ NumbersFit'
<1>1. calls \subseteq CallType /\ NumbersFit  BY DEF TypeInv, TypeOK
<1>2. ASSUME NEW d \in calls PROVE NumberFits(d)'
  BY <1>1, Counted DEF NumbersFit, NumberFits, CallType
<1> QED  BY <1>1, <1>2 DEF NumbersFit

(***************************************************************************)
(* A call sent, with a number that fits.                                   *)
(***************************************************************************)
LEMMA SentFits ==
    ASSUME TypeInv, UNCHANGED <<tokens, generated>>,
           NEW op \in LoginCalls \cup PanelCalls, NEW code \in {"right", "backup", "wrong"},
           NEW num, op \in LoginCalls => num \in 0..tokens, op \in PanelCalls => num \in 0..generated,
           calls' = calls \cup {Call(op, code, num)}
    PROVE  calls' \subseteq CallType /\ NumbersFit'
<1>1. num \in 0..(MaxChanges + MaxTokens)  BY Counted
<1>2. Call(op, code, num).op = op /\ Call(op, code, num).num = num
      /\ Call(op, code, num).state = "sent" /\ Call(op, code, num) \in CallType
  BY <1>1 DEF Call, CallType, Underway
<1>3. PICK d : d = Call(op, code, num)  OBVIOUS
<1>4. NumberFits(d)'
  BY <1>2, <1>3 DEF NumberFits, Gets, LoginCalls, PanelCalls
<1> QED  BY <1>2, <1>3, <1>4, Counted, CallsFit

(***************************************************************************)
(* A call answered, with a number that fits.                               *)
(***************************************************************************)
LEMMA AnsweredFits ==
    ASSUME TypeInv, tokens' \in Nat, generated' \in Nat,
           tokens <= tokens', generated <= generated',
           tokens' <= MaxTokens, generated' <= MaxChanges,
           NEW c \in calls, NEW s \in Underway \cup {"ok", "refused"}, NEW num, Answer(c, s, num),
           c.op \in LoginCalls => num \in 0..tokens',
           c.op \in PanelCalls => num \in 0..generated',
           c.op \in {"setup", "confirm", "generate"} /\ s = "ok" => num # None,
           c.op \in Gets => num \in {0, 1} /\ num <= generated'
    PROVE  calls' \subseteq CallType /\ NumbersFit'
<1>0. c \in CallType  BY DEF TypeInv, TypeOK
<1>1. c.op \in LoginCalls \cup PanelCalls \cup Gets  BY <1>0 DEF CallType
<1>2. num \in 0..(MaxChanges + MaxTokens)  BY <1>1, Counted
<1>3. PICK d : d = [c EXCEPT !.state = s, !.num = num]  OBVIOUS
<1>4. d \in CallType /\ d.op = c.op /\ d.num = num /\ d.state = s
  BY <1>0, <1>2, <1>3 DEF CallType
<1>5. NumberFits(d)'  BY <1>4 DEF NumberFits
<1> QED  BY <1>3, <1>4, <1>5, CallsFit DEF Answer

(***************************************************************************)
(* Calls that are not waited for any more, or gone.                        *)
(***************************************************************************)
LEMMA AbandonedFits ==
    ASSUME TypeInv, UNCHANGED <<tokens, generated>>,
           \A d \in calls' : d \in calls \/ \E c \in calls : d = [c EXCEPT !.shown = FALSE]
    PROVE  calls' \subseteq CallType /\ NumbersFit'
<1>1. calls \subseteq CallType /\ NumbersFit  BY DEF TypeInv, TypeOK
<1>2. ASSUME NEW c \in calls, NEW d, d = [c EXCEPT !.shown = FALSE]
      PROVE  d \in CallType /\ NumberFits(d)'
  <2>1. d \in CallType /\ d.op = c.op /\ d.num = c.num /\ d.state = c.state
    BY <1>1, <1>2 DEF CallType
  <2> QED  BY <1>1, <2>1 DEF NumbersFit, NumberFits
<1> QED  BY <1>2, Counted, CallsFit

-----------------------------------------------------------------------------
(* The routes of the server keep the types.                                *)

(***************************************************************************)
(* A route answers its call or moves it on, and only a right code moves a  *)
(* confirmation to the step that turns 2FA on.                             *)
(***************************************************************************)
LEMMA ServeAnswers ==
    ASSUME NEW c, Serve(c) \/ StatementFails(c)
    PROVE  \E s, num :
              /\ s \in {"verified", "enabled", "ok", "refused"} /\ Answer(c, s, num)
              /\ s # "verified" \/ c.op # "confirm" \/ secret # None
<1>1. CASE register(c) \/ login(c) \/ totp_challenge(c)
  BY <1>1 DEF register, login, totp_challenge, Ok, Refuse
<1>2. CASE totp_setup(c) \/ totp_disable(c) \/ store_recovery_codes(c) \/ recovery_codes_status(c)
  BY <1>2 DEF totp_setup, totp_disable, store_recovery_codes, recovery_codes_status, Ok
<1>3. CASE totp_confirm(c)
  <2>1. CASE secret # None /\ c.code = "right" /\ c.num = secret
    BY <1>3, <2>1 DEF totp_confirm, Advance
  <2>2. CASE ~ (secret # None /\ c.code = "right" /\ c.num = secret)
    BY <1>3, <2>2 DEF totp_confirm, Refuse
  <2> QED  BY <2>1, <2>2
<1>4. CASE set_totp_enabled(c)  BY <1>4 DEF set_totp_enabled, Advance
<1>5. CASE SettingReads(c)
  <2>1. c.op # "confirm"  BY <1>5 DEF SettingReads, Served, At
  <2>2. Answer(c, "verified", c.num) \/ Answer(c, "refused", None)
    BY <1>5 DEF SettingReads, Advance, Refuse
  <2> QED  BY <2>1, <2>2
<1>6. CASE StatementFails(c)  BY <1>6 DEF StatementFails, Refuse
<1> QED  BY <1>1, <1>2, <1>3, <1>4, <1>5, <1>6 DEF Serve

(***************************************************************************)
(* Any other answer leaves no new confirmation about to turn 2FA on.       *)
(***************************************************************************)
LEMMA AnsweredConfirming ==
    ASSUME TypeInv, NEW c \in calls, NEW s, NEW num, Answer(c, s, num),
           s # "verified" \/ c.op # "confirm"
    PROVE  Confirming' => Confirming
<1>1. PICK d : d = [c EXCEPT !.state = s, !.num = num]  OBVIOUS
<1>2. d.op = c.op /\ d.state = s  BY <1>1 DEF TypeInv, TypeOK, CallType
<1> QED  BY <1>1, <1>2 DEF Answer, Confirming

(***************************************************************************)
(* 2FA is on, or about to be, only when there was a secret once.           *)
(***************************************************************************)
LEMMA ServeGenerated ==
    ASSUME TypeInv, NEW c \in calls, Serve(c) \/ StatementFails(c)
    PROVE  enabled' \/ Confirming' => generated' # 0
<1>1. generated' \in {generated, generated + 1}
  BY DEF Serve, register, login, totp_challenge, totp_setup, totp_confirm, set_totp_enabled,
         SettingReads, totp_disable, store_recovery_codes, recovery_codes_status, StatementFails,
         account
<1>2. enabled' => enabled \/ Confirming
  BY DEF Serve, register, login, totp_challenge, totp_setup, totp_confirm, set_totp_enabled,
         SettingReads, totp_disable, store_recovery_codes, recovery_codes_status, StatementFails,
         account, At, Confirming
<1>3. Confirming' => Confirming \/ secret # None
  <2>1. PICK s, num :
           Answer(c, s, num) /\ (s # "verified" \/ c.op # "confirm" \/ secret # None)
    BY ServeAnswers
  <2> QED  BY <2>1, AnsweredConfirming
<1>4. secret # None => generated # 0
  BY Counted DEF TypeInv, TypeOK, FormsFilled, Numbers, None
<1>5. enabled \/ Confirming => generated # 0  BY DEF TypeInv, FormsFilled
<1> QED  BY <1>1, <1>2, <1>3, <1>4, <1>5, Counted

LEMMA ServeTypes ==
    ASSUME TypeInv, NEW c \in calls, Serve(c) \/ StatementFails(c)
    PROVE  TypeInv'
<1>0. c \in CallType /\ NumberFits(c)  BY DEF TypeInv, TypeOK, NumbersFit
<1>a. enabled' \/ Confirming' => generated' # 0  BY ServeGenerated
<1> USE <1>a
<1>b. ASSUME c.op \in PanelCalls \cup Gets, UNCHANGED <<tokens, generated>>,
             NEW s \in {"verified", "enabled", "ok", "refused"}, NEW num \in {c.num, None},
             Answer(c, s, num), c.op \notin {"setup", "confirm", "generate"} \/ s # "ok"
      PROVE  calls' \subseteq CallType /\ NumbersFit'
  <2>1. c.op \notin LoginCalls  BY <1>b DEF LoginCalls, PanelCalls, Gets
  <2>2. c.op \in PanelCalls => num \in 0..generated  BY <1>0, <1>b, Counted DEF NumberFits
  <2>3. c.op \in Gets => num \in {0, 1} /\ num <= generated
    BY <1>0, <1>b, Counted DEF NumberFits, None
  <2> QED  BY <1>b, <2>1, <2>2, <2>3, Counted, AnsweredFits DEF Underway
<1>1. CASE register(c)
  <2>1. calls' \subseteq CallType /\ NumbersFit'
    BY <1>1, Counted, AnsweredFits
       DEF register, Served, At, Ok, Refuse, Underway, LoginCalls, PanelCalls, Gets
  <2> QED  BY <1>1, <2>1
       DEF register, Served, At, TypeInv, TypeOK, FormsFilled, bounded, worker, loginPage, panel, owner
<1>2. CASE login(c)
  <2>1. /\ tokens' \in 0..MaxTokens /\ tokens <= tokens' /\ generated' = generated
        /\ challenges' \subseteq 1..tokens'
    <3>0. challenges \subseteq 1..tokens  BY DEF TypeInv, TypeOK
    <3>1. \/ tokens < MaxTokens /\ tokens' = tokens + 1 /\ challenges' = challenges \cup {tokens + 1}
          \/ UNCHANGED <<tokens, challenges>>
      BY <1>2 DEF login
    <3>2. ASSUME NEW t \in challenges' PROVE t \in 1..tokens'
      <4>1. t \in challenges \/ (t = tokens + 1 /\ tokens' = tokens + 1)  BY <3>1
      <4>2. t \in 1..tokens \/ (t = tokens + 1 /\ tokens' = tokens + 1)  BY <3>0, <4>1
      <4> QED  BY <3>1, <4>2, Counted
    <3> QED  BY <1>2, <3>1, <3>2, Counted DEF login
  <2>2. calls' \subseteq CallType /\ NumbersFit'
    BY <1>2, <2>1, Counted, AnsweredFits
       DEF login, Served, At, Ok, Refuse, Underway, LoginCalls, PanelCalls, Gets
  <2>3. challengeToken' \in 0..tokens'
    BY <1>2, <2>1, Counted DEF login, Served, At, loginPage, TypeInv, TypeOK
  <2> QED  BY <1>2, <2>1, <2>2, <2>3
       DEF login, Served, At, TypeInv, TypeOK, FormsFilled, bounded, worker, loginPage, panel, owner
<1>3. CASE totp_challenge(c)
  <2>1. calls' \subseteq CallType /\ NumbersFit'
    BY <1>3, Counted, AnsweredFits
       DEF totp_challenge, Served, At, Ok, Refuse, Underway, LoginCalls, PanelCalls, Gets
  <2>2. challenges' \subseteq 1..tokens'  BY <1>3 DEF totp_challenge, TypeInv, TypeOK
  <2> QED  BY <1>3, <2>1, <2>2
       DEF totp_challenge, Served, At, TypeInv, TypeOK, FormsFilled, bounded, worker, loginPage, panel,
           owner
<1>4. CASE totp_setup(c)
  <2>1. /\ generated' = generated + 1 /\ generated' \in Numbers /\ secret' = generated'
        /\ tokens' = tokens /\ UNCHANGED <<cache, setupSecret>>
    BY <1>4, Counted DEF totp_setup, Served, At, Numbers, worker, panel
  <2>2. calls' \subseteq CallType /\ NumbersFit'
    BY <1>4, <2>1, Counted, AnsweredFits
       DEF totp_setup, Served, At, Ok, Underway, LoginCalls, PanelCalls, Gets, Numbers, None
  <2>3. FormsFilled'
    BY <1>4, <2>1, Counted
       DEF totp_setup, Served, At, TypeInv, TypeOK, Numbers, FormsFilled, loginPage, panel, None
  <2> QED  BY <1>4, <2>1, <2>2, <2>3
       DEF totp_setup, Served, At, TypeInv, TypeOK, bounded, worker, loginPage, panel, owner
<1>5. CASE totp_confirm(c) \/ SettingReads(c)
  <2>1. /\ c.op \in PanelCalls /\ UNCHANGED account /\ replaced' \in BOOLEAN
        /\ UNCHANGED <<bounded, worker, signedIn, loginPage, showSecurity, panel, owner, doubt>>
    BY <1>5 DEF totp_confirm, SettingReads, Served, At, PanelCalls, TypeInv, TypeOK
  <2>2. Answer(c, "verified", c.num) \/ Answer(c, "refused", None)
    BY <1>5 DEF totp_confirm, SettingReads, Advance, Refuse
  <2>3. calls' \subseteq CallType /\ NumbersFit'  BY <1>b, <2>1, <2>2 DEF account
  <2> QED  BY <2>1, <2>3
       DEF account, TypeInv, TypeOK, FormsFilled, bounded, worker, loginPage, panel, owner
<1>6. CASE set_totp_enabled(c)
  <2>1. c.op \in PanelCalls /\ Answer(c, "enabled", c.num) /\ UNCHANGED <<tokens, generated>>
    BY <1>6 DEF set_totp_enabled, At, PanelCalls, Advance
  <2>2. calls' \subseteq CallType /\ NumbersFit'  BY <1>b, <2>1
  <2> QED  BY <1>6, <2>2
       DEF set_totp_enabled, At, TypeInv, TypeOK, FormsFilled, bounded, worker, loginPage, panel,
           owner
<1>7. CASE store_recovery_codes(c)
  <2>1. /\ generated' = generated + 1 /\ generated' \in Numbers /\ generated <= generated'
        /\ codeSet' \in Numbers /\ generated' # None /\ tokens' = tokens
        /\ UNCHANGED <<cache, setupSecret>>
    BY <1>7, Counted DEF store_recovery_codes, StoresCodes, At, Numbers, None, worker, panel
  <2>2. c.op \in PanelCalls /\ c.op \notin LoginCalls \cup Gets /\ Answer(c, "ok", generated')
    BY <1>7, <2>1 DEF store_recovery_codes, StoresCodes, At, PanelCalls, LoginCalls, Gets, Ok
  <2>3. calls' \subseteq CallType /\ NumbersFit'
    BY <2>1, <2>2, Counted, AnsweredFits DEF Numbers, Underway
  <2>4. FormsFilled'
    BY <1>7, <2>1, Counted
       DEF store_recovery_codes, StoresCodes, At, TypeInv, TypeOK, Numbers, FormsFilled, loginPage,
           panel
  <2> QED  BY <1>7, <2>1, <2>3, <2>4
       DEF store_recovery_codes, StoresCodes, At, TypeInv, TypeOK, bounded, worker, loginPage,
           panel, owner
<1>8. CASE totp_disable(c)
  <2>1. /\ c.op = "disable" /\ c.op \in PanelCalls /\ Answer(c, "ok", None)
        /\ UNCHANGED <<tokens, generated>>
    BY <1>8 DEF totp_disable, At, PanelCalls, Ok
  <2>2. calls' \subseteq CallType /\ NumbersFit'  BY <1>b, <2>1
  <2>3. /\ secret' \in Numbers /\ secret' <= generated' /\ enabled' \in BOOLEAN
    <3>1. secret' = None /\ generated' = generated /\ enabled' = FALSE  BY <1>8 DEF totp_disable
    <3>2. 0 <= generated /\ 0 \in 0..MaxChanges  BY Counted
    <3> QED  BY <3>1, <3>2 DEF Numbers, None
  <2>4. replaced' \in BOOLEAN
    <3>1. Confirming \in BOOLEAN  BY DEF Confirming
    <3> QED  BY <1>8, <3>1 DEF totp_disable
  <2> QED  BY <1>8, <2>2, <2>3, <2>4
       DEF totp_disable, At, TypeInv, TypeOK, FormsFilled, bounded, worker, loginPage, panel, owner
<1>9. CASE recovery_codes_status(c)
  <2>1. enabled => 1 <= generated
    BY Counted DEF TypeInv, FormsFilled
  <2>2. calls' \subseteq CallType /\ NumbersFit'
    BY <1>9, <2>1, Counted, AnsweredFits
       DEF recovery_codes_status, Served, At, Ok, Underway, LoginCalls, PanelCalls, Gets, account
  <2> QED  BY <1>9, <2>2
       DEF recovery_codes_status, Served, At, TypeInv, TypeOK, FormsFilled, account, bounded, worker,
           loginPage, panel, owner
<1>10. CASE StatementFails(c)
  <2>1. /\ UNCHANGED <<account, visits, worker, signedIn, loginPage, showSecurity, panel, owner, replaced>>
        /\ faults' \in 0..MaxFaults /\ doubt' \in BOOLEAN /\ Answer(c, "refused", None)
    BY <1>10, Counted DEF StatementFails, TypeInv, TypeOK, Refuse
  <2>2. calls' \subseteq CallType /\ NumbersFit'
    BY <2>1, Counted, AnsweredFits DEF account, None, Underway
  <2> QED  BY <2>1, <2>2
       DEF account, TypeInv, TypeOK, FormsFilled, worker, loginPage, panel, owner
<1> QED  BY <1>1, <1>2, <1>3, <1>4, <1>5, <1>6, <1>7, <1>8, <1>9, <1>10 DEF Serve

-----------------------------------------------------------------------------
(* The answers and the failures keep the types.                            *)

LEMMA AnswerTypes ==
    ASSUME TypeInv, NEW c \in calls, OnAnswer(c) \/ CallFails(c)
    PROVE  TypeInv'
<1>0. c \in CallType /\ NumberFits(c)  BY DEF TypeInv, TypeOK, NumbersFit
<1>1. UNCHANGED account
  BY DEF OnAnswer, OnSubmitAnswer, OnTotpAnswer, OnStatus, OnRefused, OnSetup, OnConfirm,
         OnDisable, OnGenerate, Unseen, CallFails, Succeeded, Arrived
<1>2. UNCHANGED <<exists, enabled, secret, codeSet, challenges, generated, tokens>>
  BY <1>1 DEF account
<1>3. calls' = calls \ {c} \/ calls' = (calls \ {c}) \cup {[c EXCEPT !.shown = FALSE]}
  BY DEF OnAnswer, OnSubmitAnswer, OnTotpAnswer, OnStatus, OnRefused, OnSetup, OnConfirm,
         OnDisable, OnGenerate, Unseen, CallFails, Succeeded, Arrived
<1>4. calls' \subseteq CallType /\ NumbersFit'
  <2>1. \A d \in calls' : d \in calls \/ \E k \in calls : d = [k EXCEPT !.shown = FALSE]
    BY <1>3
  <2> QED  BY <1>2, <2>1, AbandonedFits
<1>a. Confirming' => Confirming
  <2>1. LET d == [c EXCEPT !.shown = FALSE] IN d.op = c.op /\ d.state = c.state
    BY <1>0 DEF CallType
  <2> QED  BY <1>3, <2>1 DEF Confirming
<1>5. ASSUME Put(c)
      PROVE  /\ cache' \in [Gets -> [hit : BOOLEAN, num : {0, 1}]]
             /\ \A g \in Gets : cache'[g].num <= generated
  <2>1. /\ cache \in [Gets -> [hit : BOOLEAN, num : {0, 1}]]
        /\ \A g \in Gets : cache[g].num <= generated
    BY DEF TypeInv, TypeOK, FormsFilled
  <2>2. CASE c.op \in Gets
    <3>1. c.num \in {0, 1} /\ c.num <= generated  BY <1>0, <2>2 DEF NumberFits
    <3> QED  BY <1>5, <2>1, <3>1 DEF Put
  <2>3. CASE c.op \notin Gets  BY <1>5, <2>1, <2>3 DEF Put
  <2> QED  BY <2>2, <2>3
<1> USE <1>2, <1>4, <1>a
<1>6. CASE OnSubmitAnswer(c)
  <2>1. c.num \in 0..tokens
    BY <1>0, <1>6 DEF OnSubmitAnswer, Arrived, NumberFits, LoginCalls
  <2>2. /\ signedIn' \in BOOLEAN /\ mode' \in {"login", "register", "totp"}
        /\ challengeToken' \in 0..tokens /\ (mode' = "totp" => challengeToken' # None)
    <3>1. CASE c.state = "ok" /\ c.num # None
      BY <1>6, <2>1, <3>1 DEF OnSubmitAnswer, TypeInv, TypeOK
    <3>2. CASE ~ (c.state = "ok" /\ c.num # None)
      BY <1>6, <3>2 DEF OnSubmitAnswer, loginPage, TypeInv, TypeOK, FormsFilled
    <3> QED  BY <3>1, <3>2
  <2> QED  BY <1>6, <2>2
       DEF OnSubmitAnswer, Arrived, TypeInv, TypeOK, FormsFilled, bounded, panel, owner
<1>7. CASE OnTotpAnswer(c)
  BY <1>7 DEF OnTotpAnswer, Arrived, TypeInv, TypeOK, FormsFilled, bounded, panel, owner, loginPage
<1>8. CASE OnStatus(c)
  <2>1. Put(c)  BY <1>8 DEF OnStatus
  <2> QED  BY <1>5, <1>8, <2>1
       DEF OnStatus, Arrived, TypeInv, TypeOK, FormsFilled, bounded, owner, loginPage
<1>9. CASE OnRefused(c)
  BY <1>9 DEF OnRefused, Arrived, TypeInv, TypeOK, FormsFilled, bounded, panel, owner, loginPage
<1>10. CASE OnSetup(c)
  <2>1. c.num \in 0..generated /\ c.num # None
    BY <1>0, <1>10 DEF OnSetup, Succeeded, Arrived, NumberFits, PanelCalls
  <2>2. c.num \in Numbers /\ c.num <= generated  BY <2>1, Counted DEF Numbers
  <2> QED  BY <1>10, <2>1, <2>2
       DEF OnSetup, Succeeded, Arrived, TypeInv, TypeOK, FormsFilled, bounded, owner, loginPage
<1>11. ASSUME c.num \in 0..generated /\ c.num # None
       PROVE  c.num \in Numbers /\ c.num \in 1..MaxChanges
  BY <1>11, Counted DEF Numbers, None
<1>12. CASE OnConfirm(c)
  <2>1. c.num \in 0..generated /\ c.num # None
    BY <1>0, <1>12 DEF OnConfirm, Succeeded, Arrived, NumberFits, PanelCalls
  <2> QED  BY <1>11, <1>12, <2>1
       DEF OnConfirm, Succeeded, Arrived, TypeInv, TypeOK, FormsFilled, bounded, loginPage
<1>13. CASE OnDisable(c)
  <2>1. /\ UNCHANGED <<cache, signedIn, mode, challengeToken, showSecurity, app, doubt, visits>>
        /\ UNCHANGED <<faults, swActive, replaced, setupStep, setupSecret, backupCodes, saved>>
        /\ totpEnabled' \in BOOLEAN
    BY <1>13 DEF OnDisable, Succeeded, Arrived, bounded, loginPage
  <2> QED  BY <2>1 DEF TypeInv, TypeOK, FormsFilled
<1>14. CASE OnGenerate(c)
  <2>1. c.num \in 0..generated /\ c.num # None
    BY <1>0, <1>14 DEF OnGenerate, Succeeded, Arrived, NumberFits, PanelCalls
  <2> QED  BY <1>11, <1>14, <2>1
       DEF OnGenerate, Succeeded, Arrived, TypeInv, TypeOK, FormsFilled, bounded, loginPage
<1>15. CASE Unseen(c)
  <2>1. Put(c)  BY <1>15 DEF Unseen
  <2> QED  BY <1>5, <1>15, <2>1
       DEF Unseen, TypeInv, TypeOK, FormsFilled, bounded, owner, loginPage, panel
<1>16. CASE CallFails(c)
  <2>1. faults' \in 0..MaxFaults
    BY <1>16, Counted DEF CallFails, TypeInv, TypeOK
  <2> QED  BY <1>16, <2>1
       DEF CallFails, TypeInv, TypeOK, FormsFilled, worker, owner, loginPage
<1> QED  BY <1>6, <1>7, <1>8, <1>9, <1>10, <1>12, <1>13, <1>14, <1>15, <1>16 DEF OnAnswer

-----------------------------------------------------------------------------
(* What the user and the worker do keeps the types.                        *)

(***************************************************************************)
(* The pages send calls and abandon them.                                  *)
(***************************************************************************)
LEMMA PageConfirming ==
    ASSUME TypeInv,
           User \/ activate \/ logout \/ UNCHANGED vars \/ \E t \in challenges : ChallengeExpires(t)
    PROVE  Confirming' => Confirming
<1>1. ASSUME calls' = calls PROVE Confirming' => Confirming  BY <1>1 DEF Confirming
<1>2. ASSUME Abandon PROVE Confirming' => Confirming
  <2>1. ASSUME NEW c \in calls, NEW d, d = [c EXCEPT !.shown = FALSE]
        PROVE  d.op = c.op /\ d.state = c.state
    BY <2>1 DEF TypeInv, TypeOK, CallType
  <2> QED  BY <1>2, <2>1 DEF Abandon, Confirming
<1>3. ASSUME NEW op, NEW code, NEW num, calls' = calls \cup {Call(op, code, num)}
      PROVE  Confirming' => Confirming
  <2>1. Call(op, code, num).state = "sent"  BY DEF Call
  <2> QED  BY <1>3, <2>1 DEF Confirming
<1>4. CASE \/ activate \/ UNCHANGED vars \/ \E t \in challenges : ChallengeExpires(t)
           \/ \E m \in {"login", "register"} : setMode(m)
           \/ Back \/ cancelSetup \/ DoneSetup \/ DoneCodes
  BY <1>1, <1>4 DEF activate, vars, ChallengeExpires, setMode, Back, cancelSetup, DoneSetup, DoneCodes
<1>5. CASE logout \/ ClosePanel  BY <1>2, <1>5 DEF logout, ClosePanel
<1>6. CASE OpenPanel
  <2>1. \A d \in Fetch("status") : d.op # "confirm"  BY FetchedCalls
  <2> QED  BY <1>6, <2>1 DEF OpenPanel, Confirming
<1>7. CASE startSetup  BY <1>3, <1>7 DEF startSetup, Press, Send
<1>8. ASSUME NEW code, \/ handleSubmit(code) \/ handleTotpSubmit(code) \/ confirmSetup(code)
                       \/ disableTotp(code) \/ regenerateCodes(code)
      PROVE  Confirming' => Confirming
  BY <1>3, <1>8
     DEF handleSubmit, handleTotpSubmit, confirmSetup, disableTotp, regenerateCodes, Press, Send
<1> QED  BY <1>4, <1>5, <1>6, <1>7, <1>8 DEF User

LEMMA PressTypes ==
    ASSUME TypeInv, NEW op \in PanelCalls, NEW code \in {"right", "backup", "wrong"},
           NEW num \in 0..generated, Press(Call(op, code, num)), app' \subseteq 1..MaxChanges,
           Confirming' => Confirming
    PROVE  TypeInv'
<1>1. calls' = calls \cup {Call(op, code, num)}  BY DEF Press, Send
<1>2. UNCHANGED <<tokens, generated>>  BY DEF Press, account
<1>3. op \notin LoginCalls  BY DEF LoginCalls, PanelCalls
<1>4. calls' \subseteq CallType /\ NumbersFit'
  BY <1>1, <1>2, <1>3, SentFits
<1>5. doubt' \in BOOLEAN  BY DEF Press, Awaited
<1>6. /\ UNCHANGED <<exists, enabled, secret, codeSet, challenges, generated, tokens, visits, faults>>
      /\ UNCHANGED <<swActive, cache, signedIn, mode, challengeToken, showSecurity, totpEnabled>>
      /\ UNCHANGED <<setupStep, setupSecret, backupCodes, saved, replaced>>
  BY DEF Press, account, bounded, worker, loginPage, panel
<1>7. app' \cup saved' \subseteq 1..MaxChanges  BY <1>6 DEF TypeInv, TypeOK
<1> QED  BY <1>4, <1>5, <1>6, <1>7 DEF TypeInv, TypeOK, FormsFilled

LEMMA PageTypes ==
    ASSUME TypeInv, User \/ activate \/ logout \/ UNCHANGED vars
           \/ \E t \in challenges : ChallengeExpires(t)
    PROVE  TypeInv'
<1>0. calls \subseteq CallType /\ NumbersFit  BY DEF TypeInv, TypeOK
<1>a. Confirming' => Confirming  BY PageConfirming
<1> USE <1>a
<1>1. ASSUME UNCHANGED <<calls, tokens, generated>>
      PROVE  calls' \subseteq CallType /\ NumbersFit'
  BY <1>0, <1>1 DEF NumbersFit, NumberFits
<1>2. ASSUME Abandon, UNCHANGED <<tokens, generated>>
      PROVE  calls' \subseteq CallType /\ NumbersFit'
  BY <1>2, AbandonedFits DEF Abandon
<1>3. CASE activate
  <2>1. /\ UNCHANGED <<exists, enabled, secret, codeSet, challenges, generated, tokens, visits>>
        /\ UNCHANGED <<faults, calls, signedIn, mode, challengeToken, showSecurity, totpEnabled>>
        /\ UNCHANGED <<setupStep, setupSecret, backupCodes, app, saved, doubt, replaced>>
        /\ swActive' \in BOOLEAN
    BY <1>3 DEF activate, account, bounded, loginPage, panel, owner
  <2>2. /\ cache' \in [Gets -> [hit : BOOLEAN, num : {0, 1}]]
        /\ \A g \in Gets : cache'[g].num = 0
    BY <1>3 DEF activate, NoEntry
  <2>3. calls' \subseteq CallType /\ NumbersFit'  BY <1>1, <2>1
  <2> QED  BY <2>1, <2>2, <2>3, Counted DEF TypeInv, TypeOK, FormsFilled
<1>4. CASE logout
  <2>1. /\ UNCHANGED <<exists, enabled, secret, codeSet, challenges, generated, tokens, visits>>
        /\ UNCHANGED <<swActive, cache, app, saved, doubt, replaced>>
        /\ signedIn' \in BOOLEAN /\ showSecurity' \in BOOLEAN /\ mode' = "login" /\ challengeToken' = 0
        /\ totpEnabled' \in BOOLEAN /\ setupStep' = "idle" /\ setupSecret' = 0 /\ backupCodes' = 0
    BY <1>4 DEF logout, account, worker, owner, FreshPanel, None
  <2>2. calls' \subseteq CallType /\ NumbersFit'  BY <1>2, <1>4, <2>1 DEF logout
  <2>3. faults' \in 0..MaxFaults  BY <1>4, Counted DEF logout, TypeInv, TypeOK
  <2> QED  BY <2>1, <2>2, <2>3, Counted DEF TypeInv, TypeOK, FormsFilled, Numbers
<1>5. CASE UNCHANGED vars
  <2>1. calls' \subseteq CallType /\ NumbersFit'  BY <1>1, <1>5 DEF vars, account
  <2> QED  BY <1>5, <2>1
       DEF vars, account, bounded, worker, loginPage, panel, owner, TypeInv, TypeOK, FormsFilled
<1>6. ASSUME NEW t \in challenges, ChallengeExpires(t) PROVE TypeInv'
  <2>1. calls' \subseteq CallType /\ NumbersFit'  BY <1>1, <1>6 DEF ChallengeExpires
  <2>2. challenges' \subseteq 1..tokens  BY <1>6 DEF ChallengeExpires, TypeInv, TypeOK
  <2> QED  BY <1>6, <2>1, <2>2
       DEF ChallengeExpires, bounded, worker, loginPage, panel, owner, TypeInv, TypeOK, FormsFilled
<1>7. ASSUME NEW m \in {"login", "register"}, setMode(m) PROVE TypeInv'
  <2>1. calls' \subseteq CallType /\ NumbersFit'  BY <1>1, <1>7 DEF setMode, account
  <2>2. mode' = m  BY <1>7 DEF setMode
  <2> QED  BY <1>7, <2>1, <2>2
       DEF setMode, account, bounded, worker, panel, owner, TypeInv, TypeOK, FormsFilled
<1>8. CASE Back
  <2>1. calls' \subseteq CallType /\ NumbersFit'  BY <1>1, <1>8 DEF Back, account
  <2> QED  BY <1>8, <2>1, Counted
       DEF Back, account, bounded, worker, panel, owner, TypeInv, TypeOK, FormsFilled, None
<1>9. CASE OpenPanel
  <2>1. /\ UNCHANGED <<exists, enabled, secret, codeSet, challenges, generated, tokens, faults>>
        /\ UNCHANGED <<swActive, cache, signedIn, mode, challengeToken, app, saved, replaced>>
        /\ showSecurity' \in BOOLEAN /\ totpEnabled' \in BOOLEAN /\ doubt' \in BOOLEAN
        /\ setupStep' = "idle" /\ setupSecret' = 0 /\ backupCodes' = 0
    BY <1>9 DEF OpenPanel, account, worker, loginPage, owner, FreshPanel, None
  <2>2. calls' \subseteq CallType /\ NumbersFit'
    <3>1. ASSUME NEW d \in Fetch("status") PROVE d \in CallType /\ NumberFits(d)'
      BY <2>1, <3>1, FetchedCalls DEF NumberFits, LoginCalls, PanelCalls, Gets
    <3>2. calls' = calls \cup Fetch("status")  BY <1>9 DEF OpenPanel
    <3> QED  BY <2>1, <3>1, <3>2, Counted, CallsFit
  <2>3. visits' \in 0..MaxVisits  BY <1>9, Counted DEF OpenPanel, TypeInv, TypeOK
  <2> QED  BY <2>1, <2>2, <2>3, Counted DEF TypeInv, TypeOK, FormsFilled, Numbers
<1>10. CASE ClosePanel
  <2>1. /\ UNCHANGED <<exists, enabled, secret, codeSet, challenges, generated, tokens, visits, faults>>
        /\ UNCHANGED <<swActive, cache, signedIn, mode, challengeToken, app, saved, doubt, replaced>>
        /\ showSecurity' \in BOOLEAN /\ totpEnabled' \in BOOLEAN
        /\ setupStep' = "idle" /\ setupSecret' = 0 /\ backupCodes' = 0
    BY <1>10 DEF ClosePanel, account, bounded, worker, loginPage, owner, FreshPanel, None
  <2>2. calls' \subseteq CallType /\ NumbersFit'  BY <1>2, <1>10, <2>1 DEF ClosePanel
  <2> QED  BY <2>1, <2>2, Counted DEF TypeInv, TypeOK, FormsFilled, Numbers
<1>11. CASE cancelSetup \/ DoneSetup \/ DoneCodes
  <2>1. calls' \subseteq CallType /\ NumbersFit'
    BY <1>1, <1>11 DEF cancelSetup, DoneSetup, DoneCodes, account
  <2>2. /\ UNCHANGED <<exists, enabled, secret, codeSet, challenges, generated, tokens, visits, faults>>
        /\ UNCHANGED <<swActive, cache, signedIn, mode, challengeToken, app, saved, doubt, replaced>>
        /\ UNCHANGED <<showSecurity, totpEnabled, setupSecret>>
    BY <1>11 DEF cancelSetup, DoneSetup, DoneCodes, account, bounded, worker, loginPage, owner
  <2>3. /\ setupStep' \in {"idle", setupStep} /\ backupCodes' \in {0, backupCodes}
    BY <1>11 DEF cancelSetup, DoneSetup, DoneCodes, None
  <2> QED  BY <2>1, <2>2, <2>3, Counted DEF TypeInv, TypeOK, FormsFilled, Numbers
<1>12. ASSUME app' = app PROVE app' \subseteq 1..MaxChanges  BY <1>12 DEF TypeInv, TypeOK
<1>13. CASE startSetup
  BY <1>12, <1>13, Counted, PressTypes DEF startSetup, PanelCalls
<1>14. ASSUME NEW code \in {"right", "wrong"}, confirmSetup(code) PROVE TypeInv'
  <2>1. setupSecret \in 0..generated /\ setupSecret \in 1..MaxChanges
    BY <1>14, Counted DEF confirmSetup, TypeInv, TypeOK, FormsFilled, Numbers, None
  <2>2. app' \subseteq 1..MaxChanges
    BY <1>14, <2>1 DEF confirmSetup, TypeInv, TypeOK
  <2> QED  BY <1>14, <2>1, <2>2, PressTypes DEF confirmSetup, PanelCalls
<1>15. ASSUME NEW code \in {"right", "backup", "wrong"}, disableTotp(code) \/ regenerateCodes(code)
       PROVE  TypeInv'
  BY <1>12, <1>15, Counted, PressTypes DEF disableTotp, regenerateCodes, PanelCalls
<1>16. ASSUME NEW code \in {"right", "backup", "wrong"}, handleSubmit(code) \/ handleTotpSubmit(code)
       PROVE  TypeInv'
  <2>1. /\ UNCHANGED <<exists, enabled, secret, codeSet, challenges, generated, tokens, visits, faults>>
        /\ UNCHANGED <<swActive, cache, signedIn, mode, challengeToken, app, saved, doubt, replaced>>
        /\ UNCHANGED <<showSecurity, totpEnabled, setupSecret, setupStep, backupCodes>>
    BY <1>16 DEF handleSubmit, handleTotpSubmit, account, bounded, worker, loginPage, panel, owner
  <2>2. PICK op \in LoginCalls, num \in 0..tokens : calls' = calls \cup {Call(op, code, num)}
    <3>1. CASE handleSubmit(code)
      <4>1. calls' = calls \cup {Call(mode, code, None)}  BY <3>1 DEF handleSubmit, Send
      <4>2. mode \in LoginCalls  BY DEF TypeInv, TypeOK, LoginCalls
      <4> QED  BY <4>1, <4>2, Counted
    <3>2. CASE handleTotpSubmit(code)
      <4>1. calls' = calls \cup {Call("totp", code, challengeToken)}
        BY <3>2 DEF handleTotpSubmit, Send
      <4>2. challengeToken \in 0..tokens  BY DEF TypeInv, TypeOK
      <4> QED  BY <4>1, <4>2 DEF LoginCalls
    <3> QED  BY <1>16, <3>1, <3>2
  <2>3. op \notin PanelCalls  BY DEF LoginCalls, PanelCalls
  <2>4. calls' \subseteq CallType /\ NumbersFit'
    BY <2>1, <2>2, <2>3, SentFits
  <2> QED  BY <2>1, <2>4 DEF TypeInv, TypeOK, FormsFilled
<1>17. CASE User
  BY <1>7, <1>8, <1>9, <1>10, <1>11, <1>13, <1>14, <1>15, <1>16, <1>17 DEF User
<1> QED  BY <1>3, <1>4, <1>5, <1>6, <1>17

LEMMA TypeStep ==
    ASSUME TypeInv, [Next]_vars
    PROVE  TypeInv'
  BY ServeTypes, AnswerTypes, PageTypes DEF Next

LEMMA TypeInit == Init => TypeInv
<1> SUFFICES ASSUME Init PROVE TypeInv  OBVIOUS
<1>1. MaxChanges \in Nat /\ MaxTokens \in Nat /\ MaxVisits \in Nat /\ MaxFaults \in Nat
  BY AccountAssumption
<1>2. cache \in [Gets -> [hit : BOOLEAN, num : {0, 1}]] /\ \A g \in Gets : cache[g].num = 0
  BY DEF Init, NoEntry
<1>3. NumbersFit  BY DEF Init, NumbersFit
<1>4. 0 \in Numbers /\ 0 \in 0..MaxTokens /\ 0 \in 0..MaxVisits /\ 0 \in 0..MaxFaults /\ 0 \in 0..0
  BY <1>1 DEF Numbers
<1>5. /\ generated = 0 /\ tokens = 0 /\ secret = 0 /\ codeSet = 0 /\ visits = 0 /\ faults = 0
      /\ challengeToken = 0 /\ setupSecret = 0 /\ backupCodes = 0 /\ mode = "login"
      /\ setupStep = "idle" /\ calls = {} /\ challenges = {} /\ app = {} /\ saved = {}
  BY DEF Init, None
<1>6. /\ exists \in BOOLEAN /\ ~ enabled /\ swActive \in BOOLEAN /\ signedIn \in BOOLEAN
      /\ showSecurity \in BOOLEAN /\ totpEnabled \in BOOLEAN /\ doubt \in BOOLEAN
      /\ replaced \in BOOLEAN /\ enabled \in BOOLEAN
  BY DEF Init
<1>7. TypeOK  BY <1>2, <1>4, <1>5, <1>6 DEF TypeOK
<1>8. FormsFilled  BY <1>2, <1>5, <1>6 DEF FormsFilled, Confirming
<1> QED  BY <1>3, <1>7, <1>8 DEF TypeInv

(***************************************************************************)
(* Every variable of Account keeps its type: an answer puts in the cache,  *)
(* the form and the panel only numbers that they can hold.                 *)
(***************************************************************************)
THEOREM AccountTypeCorrect == Spec => []TypeOK
<1>1. TypeInv => TypeOK  BY DEF TypeInv
<1> QED  BY <1>1, TypeInit, TypeStep, PTL DEF Spec

(***************************************************************************)
(* The code form always has a challenge token to send: LoginPage opens it  *)
(* only with the token of an answer, and leaves it only without one.       *)
(***************************************************************************)
THEOREM CodeFormHasToken == Spec => []TotpFormHasToken
<1>1. TypeInv => TotpFormHasToken
  BY DEF TypeInv, TypeOK, FormsFilled, TotpFormHasToken, CodeForm, None
<1> QED  BY <1>1, TypeInit, TypeStep, PTL DEF Spec

-----------------------------------------------------------------------------
(* The owner's authenticator.                                              *)

(***************************************************************************)
(* A step that only adds to the app, and whose new confirmations carry     *)
(* secrets of the app.                                                     *)
(***************************************************************************)
LEMMA EntriesKept ==
    ASSUME ConfirmProvesEntry, app \subseteq app',
           \A d \in calls' :
              \/ d \in calls
              \/ d.state # "sent" \/ d.op # "confirm" \/ d.code # "right" \/ d.num \in app'
    PROVE  ConfirmProvesEntry'
  BY DEF ConfirmProvesEntry

LEMMA ServeEntries ==
    ASSUME TypeInv, EntryHeld, ConfirmProvesEntry, NEW c \in calls, Serve(c) \/ StatementFails(c)
    PROVE  EntryHeld' /\ ConfirmProvesEntry'
<1>0. c \in CallType  BY DEF TypeInv, TypeOK
<1>1. app' = app
  BY DEF Serve, register, login, totp_challenge, totp_setup, totp_confirm, set_totp_enabled,
         SettingReads, totp_disable, StoresCodes, store_recovery_codes, recovery_codes_status,
         StatementFails, Served, At, owner
<1>2. PICK s, num : s \in {"verified", "enabled", "ok", "refused"} /\ Answer(c, s, num)
  BY ServeAnswers
<1>3. PICK d : d = [c EXCEPT !.state = s, !.num = num]  OBVIOUS
<1>4. d.state = s  BY <1>0, <1>3 DEF CallType
<1>5. ConfirmProvesEntry'  BY <1>1, <1>2, <1>3, <1>4, EntriesKept DEF Answer
<1>6. ASSUME UNCHANGED <<enabled, secret, replaced>>, NEW t, NEW n, Answer(c, t, n),
             t # "verified" \/ c.op # "confirm"
      PROVE  EntryHeld'
  BY <1>1, <1>6, AnsweredConfirming DEF EntryHeld
<1>7. CASE register(c) \/ login(c) \/ totp_challenge(c)
  BY <1>5, <1>6, <1>7 DEF register, login, totp_challenge, Ok, Refuse
<1>8. CASE store_recovery_codes(c) \/ recovery_codes_status(c) \/ StatementFails(c)
  BY <1>5, <1>6, <1>8
     DEF store_recovery_codes, recovery_codes_status, StatementFails, account, Ok, Refuse
<1>9. CASE SettingReads(c)
  <2>1. c.op # "confirm" /\ UNCHANGED <<enabled, secret, replaced>>
    BY <1>9 DEF SettingReads, Served, At, account
  <2>2. Answer(c, "verified", c.num) \/ Answer(c, "refused", None)
    BY <1>9 DEF SettingReads, Advance, Refuse
  <2> QED  BY <1>5, <1>6, <2>1, <2>2
<1>10. CASE totp_setup(c)
  <2>1. /\ enabled' = enabled /\ replaced' = (replaced \/ enabled \/ Confirming)
        /\ Answer(c, "ok", generated + 1)
    BY <1>10 DEF totp_setup, Ok
  <2>2. Confirming' => Confirming  BY <2>1, AnsweredConfirming
  <2> QED  BY <1>5, <2>1, <2>2 DEF EntryHeld
<1>11. CASE totp_disable(c)
  <2>1. ~ enabled' /\ replaced' = Confirming /\ Answer(c, "ok", None)
    BY <1>11 DEF totp_disable, Ok
  <2>2. Confirming' => Confirming  BY <2>1, AnsweredConfirming
  <2> QED  BY <1>5, <2>1, <2>2 DEF EntryHeld
<1>12. CASE set_totp_enabled(c)
  <2>1. Confirming /\ UNCHANGED <<secret, replaced>>
    BY <1>12 DEF set_totp_enabled, At, Confirming
  <2> QED  BY <1>1, <1>5, <2>1 DEF EntryHeld
<1>13. CASE totp_confirm(c)
  <2>1. CASE secret # None /\ c.code = "right" /\ c.num = secret
    <3>1. c.op = "confirm" /\ c.state = "sent" /\ secret' = secret
      BY <1>13 DEF totp_confirm, Served, At, account
    <3>2. secret \in app  BY <2>1, <3>1 DEF ConfirmProvesEntry
    <3> QED  BY <1>1, <1>5, <3>1, <3>2 DEF EntryHeld
  <2>2. CASE ~ (secret # None /\ c.code = "right" /\ c.num = secret)
    <3>1. UNCHANGED <<enabled, secret, replaced>> /\ Answer(c, "refused", None)
      BY <1>13, <2>2 DEF totp_confirm, account, Refuse
    <3> QED  BY <1>5, <1>6, <3>1
  <2> QED  BY <2>1, <2>2
<1> QED  BY <1>7, <1>8, <1>9, <1>10, <1>11, <1>12, <1>13 DEF Serve

LEMMA AnswerEntries ==
    ASSUME TypeInv, EntryHeld, ConfirmProvesEntry, NEW c \in calls, OnAnswer(c) \/ CallFails(c)
    PROVE  EntryHeld' /\ ConfirmProvesEntry'
<1>0. c \in CallType  BY DEF TypeInv, TypeOK
<1>1. UNCHANGED <<enabled, secret, replaced, app>>
  BY DEF OnAnswer, OnSubmitAnswer, OnTotpAnswer, OnStatus, OnRefused, OnSetup, OnConfirm,
         OnDisable, OnGenerate, Unseen, CallFails, Succeeded, Arrived, account, owner
<1>2. calls' = calls \ {c} \/ calls' = (calls \ {c}) \cup {[c EXCEPT !.shown = FALSE]}
  BY DEF OnAnswer, OnSubmitAnswer, OnTotpAnswer, OnStatus, OnRefused, OnSetup, OnConfirm,
         OnDisable, OnGenerate, Unseen, CallFails, Succeeded, Arrived
<1>3. LET d == [c EXCEPT !.shown = FALSE]
      IN  d.op = c.op /\ d.code = c.code /\ d.num = c.num /\ d.state = c.state
  BY <1>0 DEF CallType
<1>4. ConfirmProvesEntry'
  BY <1>1, <1>2, <1>3 DEF ConfirmProvesEntry
<1>5. Confirming' => Confirming  BY <1>2, <1>3 DEF Confirming
<1> QED  BY <1>1, <1>4, <1>5 DEF EntryHeld

(***************************************************************************)
(* The pages change the app in confirmSetup only.                          *)
(***************************************************************************)
LEMMA PageEntries ==
    ASSUME TypeInv, EntryHeld, ConfirmProvesEntry,
           User \/ activate \/ logout \/ UNCHANGED vars \/ \E t \in challenges : ChallengeExpires(t)
    PROVE  EntryHeld' /\ ConfirmProvesEntry'
<1>0. calls \subseteq CallType  BY DEF TypeInv, TypeOK
<1>1. UNCHANGED <<enabled, secret, replaced>>
  BY DEF User, setMode, Back, OpenPanel, ClosePanel, startSetup, cancelSetup, DoneSetup, DoneCodes,
         handleSubmit, confirmSetup, handleTotpSubmit, disableTotp, regenerateCodes, Press,
         activate, logout, ChallengeExpires, account, vars
<1>2. app \subseteq app'
  BY DEF User, setMode, Back, OpenPanel, ClosePanel, startSetup, cancelSetup, DoneSetup, DoneCodes,
         handleSubmit, confirmSetup, handleTotpSubmit, disableTotp, regenerateCodes,
         activate, logout, ChallengeExpires, owner, vars
<1>3. ASSUME calls' = calls PROVE ConfirmProvesEntry'
  BY <1>2, <1>3, EntriesKept
<1>4. ASSUME Abandon PROVE ConfirmProvesEntry'
  <2>1. ASSUME NEW c \in calls, NEW d, d = [c EXCEPT !.shown = FALSE]
        PROVE  d.op = c.op /\ d.code = c.code /\ d.num = c.num /\ d.state = c.state
    BY <1>0, <2>1 DEF CallType
  <2> QED  BY <1>2, <1>4, <2>1 DEF Abandon, ConfirmProvesEntry
<1>5. ASSUME NEW op, NEW code, NEW num, calls' = calls \cup {Call(op, code, num)},
             op # "confirm" \/ code # "right" \/ num \in app'
      PROVE  ConfirmProvesEntry'
  <2>1. Call(op, code, num).op = op /\ Call(op, code, num).code = code /\ Call(op, code, num).num = num
    BY DEF Call
  <2> QED  BY <1>2, <1>5, <2>1, EntriesKept
<1>6. CASE OpenPanel
  <2>1. \A d \in Fetch("status") : d.op # "confirm"  BY FetchedCalls
  <2>2. ConfirmProvesEntry'  BY <1>2, <1>6, <2>1, EntriesKept DEF OpenPanel
  <2> QED  BY <1>1, <1>2, <2>2, PageConfirming DEF EntryHeld
<1>7. ConfirmProvesEntry'
  <2>1. CASE \/ activate \/ UNCHANGED vars \/ \E t \in challenges : ChallengeExpires(t)
             \/ \E m \in {"login", "register"} : setMode(m)
             \/ Back \/ cancelSetup \/ DoneSetup \/ DoneCodes
    BY <1>3, <2>1 DEF activate, vars, ChallengeExpires, setMode, Back, cancelSetup, DoneSetup, DoneCodes
  <2>2. CASE logout \/ ClosePanel  BY <1>4, <2>2 DEF logout, ClosePanel
  <2>3. CASE startSetup  BY <1>5, <2>3 DEF startSetup, Press, Send
  <2>4. ASSUME NEW code \in {"right", "wrong"}, handleSubmit(code) PROVE ConfirmProvesEntry'
    <3>1. mode # "confirm"  BY DEF TypeInv, TypeOK
    <3> QED  BY <1>5, <2>4, <3>1 DEF handleSubmit, Send
  <2>5. ASSUME NEW code \in {"right", "wrong"}, confirmSetup(code) PROVE ConfirmProvesEntry'
    <3>1. code # "right" \/ setupSecret \in app'  BY <2>5 DEF confirmSetup
    <3> QED  BY <1>5, <2>5, <3>1 DEF confirmSetup, Press, Send
  <2>6. ASSUME NEW code, handleTotpSubmit(code) \/ disableTotp(code) \/ regenerateCodes(code)
        PROVE  ConfirmProvesEntry'
    BY <1>5, <2>6 DEF handleTotpSubmit, disableTotp, regenerateCodes, Press, Send
  <2> QED  BY <1>6, <2>1, <2>2, <2>3, <2>4, <2>5, <2>6 DEF User
<1> QED  BY <1>1, <1>2, <1>7, PageConfirming DEF EntryHeld

-----------------------------------------------------------------------------
(* The security panel.                                                     *)

LEMMA PanelFrame ==
    ASSUME PanelInv, Live' = Live, backupCodes' \in {backupCodes, None},
           UNCHANGED <<showSecurity, doubt, enabled, codeSet, totpEnabled>>
    PROVE  PanelInv'
<1>1. Quiet'  BY DEF PanelInv, Quiet
<1>2. ASSUME showSecurity, ~ doubt PROVE Alone' /\ StatusTrue' /\ Mirrors' /\ CodesNewest'
  <2>1. Alone /\ StatusTrue /\ Mirrors /\ CodesNewest  BY <1>2 DEF PanelInv
  <2>2. Alone'  BY <2>1 DEF Alone
  <2>3. StatusTrue'  BY <2>1 DEF StatusTrue
  <2>4. Mirrors'  BY <2>1 DEF Mirrors, Turned
  <2>5. CodesNewest'  BY <2>1 DEF CodesNewest, BringsCodes
  <2> QED  BY <2>2, <2>3, <2>4, <2>5
<1> QED  BY <1>1, <1>2 DEF PanelInv

(***************************************************************************)
(* Calls that the panel does not depend on come and go.                    *)
(***************************************************************************)
LEMMA LiveFrame ==
    ASSUME \A d : (d \in calls' /\ Matters(d)) <=> (d \in calls /\ Matters(d))
    PROVE  Live' = Live
  BY DEF Live, Matters

LEMMA OtherAnswered ==
    ASSUME TypeInv, NEW c \in calls, ~ Matters(c), NEW s, NEW num, Answer(c, s, num)
    PROVE  Live' = Live
<1>1. PICK d : d = [c EXCEPT !.state = s, !.num = num]  OBVIOUS
<1>2. d.op = c.op /\ d.shown = c.shown  BY <1>1 DEF TypeInv, TypeOK, CallType
<1>3. ~ Matters(d)  BY <1>2 DEF Matters
<1> QED  BY <1>1, <1>3, LiveFrame DEF Answer

(***************************************************************************)
(* A call of an open panel without doubt is the one it depends on.         *)
(***************************************************************************)
LEMMA OnlyOne ==
    ASSUME PanelInv, showSecurity, ~ doubt, NEW c \in calls, c.op \in PanelCalls
    PROVE  /\ Live = {c} /\ c.shown
           /\ enabled = IF Turned(c) THEN c.op = "confirm" ELSE totpEnabled
           /\ BringsCodes(c) => c.num = codeSet
           /\ ~ BringsCodes(c) /\ backupCodes # None => backupCodes = codeSet
<1>1. Alone /\ Mirrors /\ CodesNewest  BY DEF PanelInv
<1>2. c \in Live  BY DEF Live, Matters
<1>3. Live = {c} /\ c.shown  BY <1>1, <1>2 DEF Alone
<1>4. enabled = IF Turned(c) THEN c.op = "confirm" ELSE totpEnabled
  BY <1>1, <1>2 DEF Mirrors
<1>5. (BringsCodes(c) => c.num = codeSet)
  BY <1>1, <1>2 DEF CodesNewest
<1>6. ~ BringsCodes(c) /\ backupCodes # None => backupCodes = codeSet
  BY <1>1, <1>3 DEF CodesNewest
<1> QED  BY <1>3, <1>4, <1>5, <1>6

(***************************************************************************)
(* An open panel stays open, a closed one still waits for nothing.         *)
(***************************************************************************)
LEMMA QuietKept ==
    ASSUME TypeInv, PanelInv, NEW c \in calls, NEW s, NEW num, Answer(c, s, num),
           UNCHANGED showSecurity
    PROVE  Quiet'
<1>1. PICK d : d = [c EXCEPT !.state = s, !.num = num]  OBVIOUS
<1>2. d.op = c.op /\ d.shown = c.shown  BY <1>1 DEF TypeInv, TypeOK, CallType
<1> QED  BY <1>1, <1>2 DEF Answer, PanelInv, Quiet, Live, Matters

(***************************************************************************)
(* The server answers a call of the panel, or moves it on.                 *)
(***************************************************************************)
LEMMA PanelServed ==
    ASSUME TypeInv, PanelInv, NEW c \in calls, c.op \in PanelCalls, ~ BringsCodes(c),
           NEW d, d.op = c.op, d.shown = c.shown, calls' = (calls \ {c}) \cup {d}, Quiet',
           Turned(c) => Turned(d),
           UNCHANGED <<showSecurity, doubt, totpEnabled, backupCodes>>,
           \/ Turned(c) \/ ~ Turned(d)
           \/ c.op = "confirm" /\ enabled' = TRUE
           \/ c.op # "confirm" /\ enabled' = FALSE,
           Turned(c) \/ ~ Turned(d) => enabled' = enabled,
           BringsCodes(d) => codeSet' = d.num,
           ~ BringsCodes(d) => codeSet' = codeSet
    PROVE  PanelInv'
<1>3. Matters(d) /\ Matters(c)  BY DEF Matters
<1>4. Live' = (Live \ {c}) \cup {d}  BY <1>3 DEF Live, Matters
<1>6. ASSUME showSecurity, ~ doubt PROVE Alone' /\ StatusTrue' /\ Mirrors' /\ CodesNewest'
  <2>0. c.op \notin Gets  BY DEF PanelCalls, Gets
  <2>1. Live = {c} /\ c.shown  BY <1>6, OnlyOne
  <2>2. enabled = IF Turned(c) THEN c.op = "confirm" ELSE totpEnabled  BY <1>6, OnlyOne
  <2>3. backupCodes # None => backupCodes = codeSet  BY <1>6, OnlyOne
  <2>4. Live' = {d}  BY <1>4, <2>1
  <2>5. Alone'  BY <2>1, <2>4 DEF Alone
  <2>6. StatusTrue'  BY <2>0, <2>4 DEF StatusTrue
  <2>7. enabled' = IF Turned(d) THEN d.op = "confirm" ELSE totpEnabled'  BY <2>2
  <2>8. Mirrors'  BY <2>4, <2>7 DEF Mirrors, Turned
  <2>9. CodesNewest'  BY <2>3, <2>4 DEF CodesNewest, BringsCodes
  <2> QED  BY <2>5, <2>6, <2>8, <2>9
<1> QED  BY <1>6 DEF PanelInv

(***************************************************************************)
(* A statement that changes neither whether 2FA is on nor the codes.       *)
(***************************************************************************)
LEMMA PanelMoves ==
    ASSUME TypeInv, PanelInv, NEW c \in calls, c.op \in PanelCalls,
           NEW s \in {"verified", "ok", "refused"}, NEW num, Answer(c, s, num),
           ~ Turned(c) /\ ~ BringsCodes(c),
           s # "ok" \/ c.op = "setup",
           UNCHANGED <<showSecurity, doubt, totpEnabled, backupCodes, enabled, codeSet>>
    PROVE  PanelInv'
<1>1. PICK d : d = [c EXCEPT !.state = s, !.num = num]  OBVIOUS
<1>2. d.op = c.op /\ d.shown = c.shown /\ d.state = s  BY <1>1 DEF TypeInv, TypeOK, CallType
<1>3. ~ Turned(d) /\ ~ BringsCodes(d)  BY <1>2 DEF Turned, BringsCodes
<1>4. Quiet' /\ calls' = (calls \ {c}) \cup {d}  BY <1>1, QuietKept DEF Answer
<1> QED  BY <1>2, <1>3, <1>4, PanelServed

(***************************************************************************)
(* The panel takes an answer it waited for.                                *)
(***************************************************************************)
LEMMA PanelAnswered ==
    ASSUME PanelInv, NEW c \in calls, c.op \in PanelCalls, calls' = calls \ {c},
           UNCHANGED <<showSecurity, doubt, enabled, codeSet>>,
           totpEnabled' = IF Turned(c) THEN c.op = "confirm" ELSE totpEnabled,
           backupCodes' = IF BringsCodes(c) THEN c.num ELSE backupCodes
    PROVE  PanelInv'
<1>1. Live' = Live \ {c}  BY DEF Live, Matters
<1>2. Quiet'  BY <1>1 DEF PanelInv, Quiet
<1>3. ASSUME showSecurity, ~ doubt PROVE Alone' /\ StatusTrue' /\ Mirrors' /\ CodesNewest'
  <2>1. Live' = {}  BY <1>1, <1>3, OnlyOne
  <2>2. enabled' = totpEnabled'  BY <1>3, OnlyOne
  <2>3. backupCodes' # None => backupCodes' = codeSet'  BY <1>3, OnlyOne
  <2>4. Alone' /\ StatusTrue'  BY <2>1 DEF Alone, StatusTrue
  <2>5. Mirrors'  BY <2>1, <2>2 DEF Mirrors
  <2>6. CodesNewest'  BY <2>1, <2>3 DEF CodesNewest
  <2> QED  BY <2>4, <2>5, <2>6
<1> QED  BY <1>2, <1>3 DEF PanelInv

LEMMA ServePanel ==
    ASSUME TypeInv, PanelInv, NEW c \in calls, Serve(c)
    PROVE  PanelInv'
<1>0. c \in CallType  BY DEF TypeInv, TypeOK
<1>1. UNCHANGED <<showSecurity, doubt, totpEnabled, backupCodes>>
  BY DEF Serve, register, login, totp_challenge, totp_setup, totp_confirm, set_totp_enabled,
         SettingReads, totp_disable, store_recovery_codes, StoresCodes, recovery_codes_status,
         Served, At, panel
<1>2. CASE register(c) \/ login(c) \/ totp_challenge(c)
  <2>1. ~ Matters(c)
    BY <1>2 DEF register, login, totp_challenge, Served, At, Matters, PanelCalls, Gets
  <2>2. UNCHANGED <<enabled, codeSet>>  BY <1>2 DEF register, login, totp_challenge
  <2>3. \E s, num : Answer(c, s, num)
    BY <1>2 DEF register, login, totp_challenge, Ok, Refuse
  <2> QED  BY <1>1, <2>1, <2>2, <2>3, OtherAnswered, PanelFrame
<1>3. CASE totp_setup(c)
  <2>1. /\ c.op = "setup" /\ c.op \in PanelCalls /\ Answer(c, "ok", generated + 1)
        /\ UNCHANGED <<enabled, codeSet>>
    BY <1>3 DEF totp_setup, Served, At, Ok, PanelCalls
  <2>2. ~ Turned(c) /\ ~ BringsCodes(c)  BY <2>1 DEF Turned, BringsCodes
  <2> QED  BY <1>1, <2>1, <2>2, PanelMoves
<1>4. CASE totp_confirm(c) \/ SettingReads(c)
  <2>1. /\ c.op \in PanelCalls /\ c.state = "sent" /\ UNCHANGED <<enabled, codeSet>>
    BY <1>4 DEF totp_confirm, SettingReads, Served, At, PanelCalls, account
  <2>2. Answer(c, "verified", c.num) \/ Answer(c, "refused", None)
    BY <1>4 DEF totp_confirm, SettingReads, Advance, Refuse
  <2>3. ~ Turned(c) /\ ~ BringsCodes(c)  BY <2>1 DEF Turned, BringsCodes
  <2> QED  BY <1>1, <2>1, <2>2, <2>3, PanelMoves
<1>5. CASE set_totp_enabled(c)
  <2>1. /\ c.op = "confirm" /\ c.op \in PanelCalls /\ c.state = "verified"
        /\ enabled' = TRUE /\ codeSet' = codeSet /\ Answer(c, "enabled", c.num)
    BY <1>5 DEF set_totp_enabled, At, PanelCalls, Advance
  <2>2. PICK d : d = [c EXCEPT !.state = "enabled", !.num = c.num]  OBVIOUS
  <2>3. d.op = "confirm" /\ d.shown = c.shown /\ d.state = "enabled" /\ d.num = c.num
    BY <1>0, <2>1, <2>2 DEF CallType
  <2>4. ~ Turned(c) /\ Turned(d) /\ ~ BringsCodes(c) /\ ~ BringsCodes(d)
    BY <2>1, <2>3 DEF Turned, BringsCodes
  <2>5. Quiet' /\ calls' = (calls \ {c}) \cup {d}  BY <1>1, <2>1, <2>2, QuietKept DEF Answer
  <2> QED  BY <1>1, <2>1, <2>3, <2>4, <2>5, PanelServed
<1>6. CASE totp_disable(c)
  <2>1. /\ c.op = "disable" /\ c.op \in PanelCalls /\ c.state = "verified"
        /\ enabled' = FALSE /\ codeSet' = codeSet /\ Answer(c, "ok", None)
    BY <1>6 DEF totp_disable, At, PanelCalls, Ok
  <2>2. PICK d : d = [c EXCEPT !.state = "ok", !.num = None]  OBVIOUS
  <2>3. d.op = "disable" /\ d.shown = c.shown /\ d.state = "ok" /\ d.num = None
    BY <1>0, <2>1, <2>2 DEF CallType
  <2>4. ~ Turned(c) /\ Turned(d) /\ ~ BringsCodes(c) /\ ~ BringsCodes(d)
    BY <2>1, <2>3 DEF Turned, BringsCodes
  <2>5. Quiet' /\ calls' = (calls \ {c}) \cup {d}  BY <1>1, <2>1, <2>2, QuietKept DEF Answer
  <2> QED  BY <1>1, <2>1, <2>3, <2>4, <2>5, PanelServed
<1>8. CASE store_recovery_codes(c)
  <2>1. /\ (c.op = "confirm" /\ c.state = "enabled") \/ (c.op = "generate" /\ c.state = "verified")
        /\ c.op \in PanelCalls /\ UNCHANGED enabled /\ codeSet' = generated + 1
        /\ Answer(c, "ok", generated + 1)
    BY <1>8 DEF store_recovery_codes, StoresCodes, At, PanelCalls, Ok
  <2>2. PICK d : d = [c EXCEPT !.state = "ok", !.num = generated + 1]  OBVIOUS
  <2>3. d.op = c.op /\ d.shown = c.shown /\ d.state = "ok" /\ d.num = generated + 1
    BY <1>0, <2>1, <2>2 DEF CallType
  <2>4. Turned(c) = Turned(d) /\ ~ BringsCodes(c) /\ BringsCodes(d)
    BY <2>1, <2>3 DEF Turned, BringsCodes
  <2>5. Quiet' /\ calls' = (calls \ {c}) \cup {d}  BY <1>1, <2>1, <2>2, QuietKept DEF Answer
  <2> QED  BY <1>1, <2>1, <2>3, <2>4, <2>5, PanelServed
<1>7. CASE recovery_codes_status(c)
  <2>1. /\ c.op = "status" /\ Answer(c, "ok", IF enabled THEN 1 ELSE 0)
        /\ UNCHANGED <<enabled, codeSet>>
    BY <1>7 DEF recovery_codes_status, Served, At, Ok, account
  <2>2. CASE ~ c.shown
    <3>1. ~ Matters(c)  BY <2>1, <2>2 DEF Matters, PanelCalls
    <3> QED  BY <1>1, <2>1, <3>1, OtherAnswered, PanelFrame
  <2>3. CASE c.shown
    <3>1. PICK d : d = [c EXCEPT !.state = "ok", !.num = IF enabled THEN 1 ELSE 0]  OBVIOUS
    <3>2. d.op = "status" /\ d.shown = c.shown /\ d.state = "ok" /\ d.num = IF enabled THEN 1 ELSE 0
      BY <1>0, <2>1, <3>1 DEF CallType
    <3>3. Matters(d) /\ Matters(c)  BY <2>1, <2>3, <3>2 DEF Matters, Gets
    <3>4. Live' = (Live \ {c}) \cup {d}  BY <2>1, <3>1, <3>3 DEF Live, Answer, Matters
    <3>5. c \in Live  BY <3>3 DEF Live
    <3>6. Quiet'  BY <1>1, <2>1, QuietKept
    <3>7. ASSUME showSecurity, ~ doubt PROVE Alone' /\ StatusTrue' /\ Mirrors' /\ CodesNewest'
      <4>0. c.op \notin PanelCalls  BY <2>1 DEF PanelCalls
      <4>1. Alone /\ StatusTrue /\ CodesNewest  BY <3>7 DEF PanelInv
      <4>2. \A k \in Live : k.op \notin PanelCalls  BY <3>5, <4>0, <4>1 DEF Alone
      <4>3. \A k \in Live' : k.op \notin PanelCalls
        BY <2>1, <3>2, <3>4, <4>0, <4>2
      <4>4. Alone'  BY <4>3 DEF Alone
      <4>5. StatusTrue'
        <5>1. (d.num = 1) = enabled  BY <3>2 DEF TypeInv, TypeOK
        <5> QED  BY <2>1, <3>2, <3>4, <4>1, <5>1 DEF StatusTrue, Answered
      <4>6. Mirrors'  BY <3>4, <4>3 DEF Mirrors
      <4>7. (\A k \in Live : ~ BringsCodes(k)) /\ (\A k \in Live' : ~ BringsCodes(k)')
        BY <4>2, <4>3 DEF BringsCodes, PanelCalls
      <4>8. CodesNewest'  BY <1>1, <2>1, <4>1, <4>7 DEF CodesNewest
      <4> QED  BY <4>4, <4>5, <4>6, <4>8
    <3> QED  BY <1>1, <3>6, <3>7 DEF PanelInv
  <2> QED  BY <1>0, <2>2, <2>3 DEF CallType
<1> QED  BY <1>2, <1>3, <1>4, <1>5, <1>6, <1>7, <1>8 DEF Serve

(***************************************************************************)
(* A failed statement leaves the panel as exact as it was, or in doubt.    *)
(***************************************************************************)
LEMMA FailurePanel ==
    ASSUME TypeInv, PanelInv, NEW c \in calls, StatementFails(c)
    PROVE  PanelInv'
<1>0. c \in CallType  BY DEF TypeInv, TypeOK
<1>1. /\ UNCHANGED <<showSecurity, totpEnabled, backupCodes, enabled, codeSet>>
      /\ c.state \in Underway /\ Answer(c, "refused", None)
      /\ doubt' = (doubt \/ (c.shown /\ (c.op \in Gets \/ c.state = "enabled")))
  BY DEF StatementFails, account, panel, Refuse
<1>2. Quiet'  BY <1>1, QuietKept
<1>3. ~ BringsCodes(c)  BY <1>1 DEF BringsCodes, Underway
<1>4. CASE doubt'  BY <1>2, <1>4 DEF PanelInv
<1>5. CASE ~ doubt' /\ ~ Matters(c)
  <2>1. doubt' = doubt  BY <1>1, <1>5 DEF TypeInv, TypeOK
  <2> QED  BY <1>1, <1>5, <2>1, OtherAnswered, PanelFrame
<1>6. CASE ~ doubt' /\ Matters(c)
  <2>1. doubt' = doubt  BY <1>1, <1>6 DEF TypeInv, TypeOK
  <2>2. c.op \in PanelCalls  BY <1>1, <1>6 DEF Matters
  <2>3. CASE c.state # "enabled"
    <3>1. ~ Turned(c)  BY <1>1, <2>3 DEF Turned, Underway
    <3> QED  BY <1>1, <1>3, <2>1, <2>2, <3>1, PanelMoves
  <2>4. CASE c.state = "enabled"
    <3>1. ~ c.shown /\ ~ doubt  BY <1>1, <1>6, <2>4
    <3>2. ~ showSecurity  BY <2>2, <3>1, OnlyOne
    <3> QED  BY <1>1, <1>2, <3>2 DEF PanelInv
  <2> QED  BY <2>3, <2>4
<1> QED  BY <1>4, <1>5, <1>6 DEF TypeInv, TypeOK

LEMMA AnswerPanel ==
    ASSUME TypeInv, PanelInv, NEW c \in calls, OnAnswer(c) \/ CallFails(c)
    PROVE  PanelInv'
<1>0. c \in CallType /\ NumberFits(c)  BY DEF TypeInv, TypeOK, NumbersFit
<1>1. UNCHANGED <<enabled, codeSet>>
  BY DEF OnAnswer, OnSubmitAnswer, OnTotpAnswer, OnStatus, OnRefused, OnSetup, OnConfirm,
         OnDisable, OnGenerate, Unseen, CallFails, Succeeded, Arrived, account
<1>2. ASSUME ~ Matters(c), calls' = calls \ {c},
             UNCHANGED <<showSecurity, doubt, totpEnabled, backupCodes>>
      PROVE  PanelInv'
  BY <1>1, <1>2, LiveFrame, PanelFrame
<1>3. CASE OnSubmitAnswer(c) \/ OnTotpAnswer(c)
  <2>1. ~ Matters(c)
    BY <1>3 DEF OnSubmitAnswer, OnTotpAnswer, Arrived, Matters, PanelCalls, Gets
  <2> QED  BY <1>2, <1>3, <2>1 DEF OnSubmitAnswer, OnTotpAnswer, Arrived, panel
<1>4. CASE OnStatus(c)
  <2>1. /\ c.op = "status" /\ c.shown /\ Answered(c) /\ calls' = calls \ {c}
        /\ totpEnabled' = (c.num = 1) /\ doubt' = (doubt \/ c.via = "cache")
        /\ UNCHANGED <<showSecurity, backupCodes>>
    BY <1>4 DEF OnStatus, Arrived
  <2>3. Live' = Live \ {c} /\ c \in Live  BY <2>1 DEF Live, Matters, Gets
  <2>4. Quiet'  BY <2>1, <2>3 DEF PanelInv, Quiet
  <2>5. ASSUME showSecurity', ~ doubt' PROVE Alone' /\ StatusTrue' /\ Mirrors' /\ CodesNewest'
    <3>0. showSecurity /\ ~ doubt /\ c.via # "cache"  BY <2>1, <2>5
    <3>1. Alone /\ StatusTrue /\ CodesNewest  BY <3>0 DEF PanelInv
    <3>2. c.op \notin PanelCalls  BY <2>1 DEF PanelCalls
    <3>3. \A k \in Live : k.op \notin PanelCalls  BY <2>3, <3>1, <3>2 DEF Alone
    <3>4. (c.num = 1) = enabled
      BY <2>1, <2>3, <3>0, <3>1 DEF StatusTrue, Gets
    <3>5. Alone'  BY <2>3, <3>3 DEF Alone
    <3>6. StatusTrue'  BY <1>1, <2>3, <3>1 DEF StatusTrue
    <3>7. Mirrors'  BY <1>1, <2>1, <2>3, <3>3, <3>4 DEF Mirrors
    <3>8. (\A k \in Live : ~ BringsCodes(k)) /\ (\A k \in Live' : ~ BringsCodes(k)')
      BY <2>3, <3>3 DEF BringsCodes, PanelCalls
    <3>9. CodesNewest'  BY <1>1, <2>1, <3>1, <3>8 DEF CodesNewest
    <3> QED  BY <3>5, <3>6, <3>7, <3>9
  <2> QED  BY <2>4, <2>5 DEF PanelInv
<1>5. CASE OnRefused(c)
  <2>1. /\ c.op \in PanelCalls /\ c.state = "refused" /\ calls' = calls \ {c}
        /\ UNCHANGED <<showSecurity, doubt, totpEnabled, backupCodes>>
    BY <1>5 DEF OnRefused, Arrived, panel
  <2> QED  BY <1>1, <2>1, PanelAnswered DEF Turned, BringsCodes
<1>6. CASE OnSetup(c)
  <2>1. /\ c.op = "setup" /\ calls' = calls \ {c}
        /\ UNCHANGED <<showSecurity, doubt, totpEnabled, backupCodes>>
    BY <1>6 DEF OnSetup, Succeeded, Arrived
  <2> QED  BY <1>1, <2>1, PanelAnswered DEF Turned, BringsCodes, PanelCalls
<1>7. CASE OnConfirm(c)
  <2>1. /\ c.op = "confirm" /\ c.state = "ok" /\ calls' = calls \ {c}
        /\ UNCHANGED <<showSecurity, doubt>> /\ totpEnabled' = TRUE /\ backupCodes' = c.num
    BY <1>7 DEF OnConfirm, Succeeded, Arrived
  <2> QED  BY <1>1, <2>1, PanelAnswered DEF Turned, BringsCodes, PanelCalls
<1>8. CASE OnDisable(c)
  <2>1. /\ c.op = "disable" /\ c.state = "ok" /\ calls' = calls \ {c}
        /\ UNCHANGED <<showSecurity, doubt, backupCodes>> /\ totpEnabled' = FALSE
    BY <1>8 DEF OnDisable, Succeeded, Arrived
  <2> QED  BY <1>1, <2>1, PanelAnswered DEF Turned, BringsCodes, PanelCalls
<1>9. CASE OnGenerate(c)
  <2>1. /\ c.op = "generate" /\ c.state = "ok" /\ calls' = calls \ {c}
        /\ UNCHANGED <<showSecurity, doubt, totpEnabled>> /\ backupCodes' = c.num
    BY <1>9 DEF OnGenerate, Succeeded, Arrived
  <2> QED  BY <1>1, <2>1, PanelAnswered DEF Turned, BringsCodes, PanelCalls
<1>10. ASSUME ~ c.shown, calls' = calls \ {c},
              UNCHANGED <<showSecurity, doubt, totpEnabled, backupCodes>>
       PROVE  PanelInv'
  <2>1. CASE c.op \notin PanelCalls  BY <1>2, <1>10, <2>1 DEF Matters
  <2>2. CASE c.op \in PanelCalls
    <3>1. Quiet'  BY <1>10 DEF PanelInv, Quiet, Live, Matters
    <3>2. ~ (showSecurity /\ ~ doubt)  BY <1>10, <2>2, OnlyOne
    <3> QED  BY <1>10, <3>1, <3>2 DEF PanelInv
  <2> QED  BY <2>1, <2>2
<1>11. CASE Unseen(c)  BY <1>10, <1>11 DEF Unseen, panel
<1>12. CASE CallFails(c)
  <2>1. /\ UNCHANGED <<showSecurity, totpEnabled, backupCodes>>
        /\ doubt' = (doubt \/ (c.shown /\ c.op \notin LoginCalls))
        /\ \/ calls' = calls \ {c}
           \/ c.shown /\ calls' = (calls \ {c}) \cup {[c EXCEPT !.shown = FALSE]}
    BY <1>12 DEF CallFails
  <2>2. CASE ~ c.shown
    <3>1. doubt' = doubt  BY <2>1, <2>2 DEF TypeInv, TypeOK
    <3> QED  BY <1>10, <2>1, <2>2, <3>1
  <2>3. PICK d : d = [c EXCEPT !.shown = FALSE]  OBVIOUS
  <2>4. d.op = c.op /\ d.shown = FALSE  BY <1>0, <2>3 DEF CallType
  <2>5. CASE c.shown /\ c.op \in LoginCalls
    <3>1. doubt' = doubt  BY <2>1, <2>5 DEF TypeInv, TypeOK
    <3>2. ~ Matters(c) /\ ~ Matters(d)
      BY <2>4, <2>5 DEF Matters, PanelCalls, LoginCalls, Gets
    <3>3. Live' = Live  BY <2>1, <2>3, <3>2, LiveFrame
    <3> QED  BY <1>1, <2>1, <3>1, <3>3, PanelFrame
  <2>6. CASE c.shown /\ c.op \notin LoginCalls
    <3>1. doubt'  BY <2>1, <2>6
    <3>2. \A k \in Live' : k \in Live \/ ~ k.shown
      BY <2>1, <2>3, <2>4 DEF Live, Matters
    <3>3. Quiet'  BY <2>1, <3>2 DEF PanelInv, Quiet
    <3> QED  BY <3>1, <3>3 DEF PanelInv
  <2> QED  BY <1>0, <2>2, <2>5, <2>6 DEF CallType
<1> QED  BY <1>3, <1>4, <1>5, <1>6, <1>7, <1>8, <1>9, <1>11, <1>12 DEF OnAnswer

(***************************************************************************)
(* A closed panel waits for nothing: what it waited for is abandoned.      *)
(***************************************************************************)
LEMMA AbandonedPanel ==
    ASSUME TypeInv, Abandon, ~ showSecurity'
    PROVE  PanelInv'
<1>1. ASSUME NEW c \in calls, NEW d, d = [c EXCEPT !.shown = FALSE] PROVE ~ d.shown
  BY <1>1 DEF TypeInv, TypeOK, CallType
<1>2. \A d \in calls' : ~ d.shown  BY <1>1 DEF Abandon
<1> QED  BY <1>2 DEF PanelInv, Quiet, Live

(***************************************************************************)
(* A button of the panel: the call is the only one, or there is doubt.     *)
(***************************************************************************)
LEMMA PressPanel ==
    ASSUME TypeInv, PanelInv, NEW op \in PanelCalls, NEW code, NEW num, Press(Call(op, code, num))
    PROVE  PanelInv'
<1>1. PICK d : d = Call(op, code, num)  OBVIOUS
<1>2. d.op = op /\ d.state = "sent" /\ d.shown  BY <1>1 DEF Call
<1>3. /\ showSecurity /\ ~ Awaited(PanelCalls) /\ calls' = calls \cup {d}
      /\ doubt' = (doubt \/ Awaited(Gets))
      /\ UNCHANGED <<showSecurity, enabled, codeSet, totpEnabled, backupCodes>>
  BY <1>1 DEF Press, Send, account, panel
<1>4. Quiet'  BY <1>3 DEF Quiet
<1>5. ASSUME ~ doubt' PROVE Alone' /\ StatusTrue' /\ Mirrors' /\ CodesNewest'
  <2>1. ~ doubt /\ ~ Awaited(Gets)  BY <1>3, <1>5
  <2>2. Mirrors /\ CodesNewest  BY <1>3, <2>1 DEF PanelInv
  <2>3. Live = {}
    <3>1. ASSUME NEW c \in Live PROVE FALSE
      <4>1. c \in calls /\ Matters(c)  BY DEF Live
      <4>2. c.op \in PanelCalls => c.shown  BY <1>3, <2>1, <4>1, OnlyOne
      <4> QED  BY <1>3, <2>1, <4>1, <4>2 DEF Matters, Awaited
    <3> QED  BY <3>1
  <2>4. Live' = {d}
    <3>1. Matters(d)  BY <1>2 DEF Matters
    <3> QED  BY <1>3, <2>3, <3>1 DEF Live, Matters
  <2>5. Alone'  BY <1>2, <2>4 DEF Alone
  <2>6. StatusTrue'  BY <1>2, <2>4 DEF StatusTrue, Answered, Underway
  <2>7. Mirrors'  BY <1>2, <1>3, <2>2, <2>3, <2>4 DEF Mirrors, Turned
  <2>8. CodesNewest'  BY <1>2, <1>3, <2>2, <2>3, <2>4 DEF CodesNewest, BringsCodes
  <2> QED  BY <2>5, <2>6, <2>7, <2>8
<1> QED  BY <1>4, <1>5 DEF PanelInv

LEMMA PagePanel ==
    ASSUME TypeInv, PanelInv,
           User \/ activate \/ logout \/ UNCHANGED vars \/ \E t \in challenges : ChallengeExpires(t)
    PROVE  PanelInv'
<1>1. ASSUME calls' = calls, backupCodes' \in {backupCodes, None},
             UNCHANGED <<showSecurity, doubt, enabled, codeSet, totpEnabled>>
      PROVE  PanelInv'
  BY <1>1, LiveFrame, PanelFrame
<1>2. CASE activate  BY <1>1, <1>2 DEF activate, account, panel
<1>3. CASE UNCHANGED vars  BY <1>1, <1>3 DEF vars, account, panel
<1>4. ASSUME NEW t \in challenges, ChallengeExpires(t) PROVE PanelInv'
  BY <1>1, <1>4 DEF ChallengeExpires, panel
<1>5. CASE logout \/ ClosePanel  BY <1>5, AbandonedPanel DEF logout, ClosePanel
<1>6. ASSUME NEW m \in {"login", "register"}, setMode(m) PROVE PanelInv'
  BY <1>1, <1>6 DEF setMode, account, panel
<1>7. CASE Back  BY <1>1, <1>7 DEF Back, account, panel
<1>8. CASE cancelSetup \/ DoneSetup \/ DoneCodes
  BY <1>1, <1>8 DEF cancelSetup, DoneSetup, DoneCodes, account
<1>9. CASE OpenPanel
  <2>1. /\ ~ showSecurity /\ showSecurity' /\ backupCodes' = None
        /\ calls' = calls \cup Fetch("status")
        /\ doubt' = \E c \in calls : c.op \in PanelCalls
    BY <1>9 DEF OpenPanel, FreshPanel
  <2>2. Quiet'  BY <2>1 DEF Quiet
  <2>3. ASSUME ~ doubt' PROVE Alone' /\ StatusTrue' /\ Mirrors' /\ CodesNewest'
    <3>1. Live = {}  BY <2>1, <2>3 DEF PanelInv, Quiet, Live, Matters
    <3>2. \A d \in Live' : d \in Fetch("status")  BY <2>1, <3>1 DEF Live, Matters
    <3>3. \A d \in Live' : d.op \notin PanelCalls /\ (d.state = "sent" \/ d.via = "cache")
      BY <3>2, FetchedCalls DEF PanelCalls
    <3>4. Live' # {}
      <4>1. PICK d \in Fetch("status") : d.op = "status" /\ d.shown
        <5> DEFINE c == Call("status", "right", None)
                   k == [c EXCEPT !.num = cache["status"].num, !.state = "ok", !.via = "cache"]
        <5>1. c.op = "status" /\ c.shown  BY DEF Call
        <5>2. k.op = "status" /\ k.shown  BY DEF Call
        <5>3. c \in Fetch("status") \/ k \in Fetch("status")  BY DEF Fetch
        <5> HIDE DEF c, k
        <5> QED  BY <5>1, <5>2, <5>3
      <4>2. Matters(d)  BY <4>1 DEF Matters, Gets
      <4> QED  BY <2>1, <4>2 DEF Live, Matters
    <3>5. Alone'  BY <3>3 DEF Alone
    <3>6. StatusTrue'  BY <3>3 DEF StatusTrue, Answered, Underway
    <3>7. Mirrors'  BY <3>3, <3>4 DEF Mirrors
    <3>8. CodesNewest'  BY <2>1, <3>3 DEF CodesNewest, BringsCodes, PanelCalls, None
    <3> QED  BY <3>5, <3>6, <3>7, <3>8
  <2> QED  BY <2>2, <2>3 DEF PanelInv
<1>10. CASE startSetup  BY <1>10, PressPanel DEF startSetup, PanelCalls
<1>11. ASSUME NEW code, confirmSetup(code) \/ disableTotp(code) \/ regenerateCodes(code)
       PROVE  PanelInv'
  BY <1>11, PressPanel DEF confirmSetup, disableTotp, regenerateCodes, PanelCalls
<1>12. ASSUME NEW code, handleSubmit(code) \/ handleTotpSubmit(code) PROVE PanelInv'
  <2>1. PICK op, num : op \in LoginCalls /\ calls' = calls \cup {Call(op, code, num)}
    BY <1>12 DEF handleSubmit, handleTotpSubmit, Send, LoginCalls, TypeInv, TypeOK
  <2>2. PICK d : d = Call(op, code, num)  OBVIOUS
  <2>3. ~ Matters(d)  BY <2>1, <2>2 DEF Call, Matters, LoginCalls, PanelCalls, Gets
  <2>4. Live' = Live  BY <2>1, <2>2, <2>3, LiveFrame
  <2> QED  BY <1>12, <2>4, PanelFrame DEF handleSubmit, handleTotpSubmit, account, panel
<1> QED  BY <1>2, <1>3, <1>4, <1>5, <1>6, <1>7, <1>8, <1>9, <1>10, <1>11, <1>12 DEF User

-----------------------------------------------------------------------------
LEMMA AccountInductive ==
    /\ Init => AccountInv
    /\ AccountInv /\ [Next]_vars => AccountInv'
<1>1. Init => EntryHeld /\ ConfirmProvesEntry
  BY DEF Init, EntryHeld, Confirming, ConfirmProvesEntry
<1>2. Init => PanelInv  BY DEF Init, PanelInv, Quiet, Live
<1>3. ASSUME AccountInv, [Next]_vars PROVE EntryHeld' /\ ConfirmProvesEntry'
  BY <1>3, ServeEntries, AnswerEntries, PageEntries DEF Next, AccountInv
<1>4. ASSUME AccountInv, [Next]_vars PROVE PanelInv'
  BY <1>4, ServePanel, FailurePanel, AnswerPanel, PagePanel DEF Next, AccountInv
<1> QED  BY <1>1, <1>2, <1>3, <1>4, TypeInit, TypeStep DEF AccountInv

(***************************************************************************)
(* The authenticator has the secret that login checks, however routes and  *)
(* failures fall between one another's statements, unless the secret was   *)
(* changed while 2FA was on or between the check and the UPDATE of a       *)
(* confirmation: whoever typed the code that was checked has the secret    *)
(* of the row that was read.                                               *)
(***************************************************************************)
THEOREM OwnerNotLockedOut == Spec => []NotLockedOut
<1>1. AccountInv => NotLockedOut  BY DEF AccountInv, EntryHeld, NotLockedOut
<1> QED  BY <1>1, AccountInductive, PTL DEF Spec

(***************************************************************************)
(* The panel shows whether 2FA is on once its calls are answered: no two   *)
(* calls that change the account are under way, and none beside the status,*)
(* so the answers reach the panel in the order the server served them.     *)
(***************************************************************************)
THEOREM PanelShowsAccount == Spec => []PanelExact
<1>1. AccountInv => PanelExact
  <2> SUFFICES ASSUME PanelInv, showSecurity, ~ doubt, ~ Awaited(PanelCalls \cup Gets)
               PROVE  totpEnabled = enabled
    BY DEF AccountInv, PanelExact
  <2>1. Mirrors /\ Alone  BY DEF PanelInv
  <2>2. \A c \in Live : FALSE  BY <2>1 DEF Alone, Live, Matters, Awaited
  <2> QED  BY <2>1, <2>2 DEF Mirrors
<1> QED  BY <1>1, AccountInductive, PTL DEF Spec

(***************************************************************************)
(* The backup codes on display are the ones the server accepts: between    *)
(* two sets of codes the panel always waits for an answer that brings the  *)
(* newer one.                                                              *)
(***************************************************************************)
THEOREM DisplayedCodesValid == Spec => []CodesShownValid
<1>1. AccountInv => CodesShownValid
  <2> SUFFICES ASSUME PanelInv, CodesVisible, ~ doubt, ~ Awaited(PanelCalls)
               PROVE  backupCodes = codeSet
    BY DEF AccountInv, CodesShownValid
  <2>1. showSecurity /\ backupCodes # None  BY DEF CodesVisible
  <2>2. Alone /\ CodesNewest  BY <2>1 DEF PanelInv
  <2>3. \A c \in Live : c.op \notin PanelCalls  BY <2>2 DEF Alone, Live, Awaited
  <2>4. \A c \in Live : ~ BringsCodes(c)  BY <2>3 DEF BringsCodes, PanelCalls
  <2> QED  BY <2>1, <2>2, <2>4 DEF CodesNewest
<1> QED  BY <1>1, AccountInductive, PTL DEF Spec
=============================================================================
