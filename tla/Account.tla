------------------------------ MODULE Account -------------------------------
(***************************************************************************)
(* One browser and its account: the login page (LoginPage.tsx), the        *)
(* security panel (SecuritySettings.tsx), the service worker between them  *)
(* and the server (sw.js), and the routes of auth.rs they call.            *)
(*                                                                         *)
(* A call is sent, served and answered in three steps, and pages go on     *)
(* meanwhile: tabs are switched, the panel is closed and opened again.     *)
(* GETs are answered from the worker's cache when it has them.  A route of  *)
(* the panel reads the account's row once and then runs its statements one *)
(* by one, and each may fail; the login page's routes are one step here    *)
(* (how requests interleave inside the server is TwoFactor).               *)
(***************************************************************************)
EXTENDS Naturals, FiniteSets

CONSTANTS
    MaxChanges,  \* bound: secrets and sets of codes generated
    MaxTokens,   \* bound: challenge tokens issued
    MaxCalls,    \* bound: calls under way
    MaxVisits,   \* bound: how often the panel is opened
    MaxFaults    \* bound: calls and statements that fail, and revoked sessions

ASSUME AccountAssumption ==
    /\ MaxChanges \in Nat /\ MaxTokens \in Nat /\ MaxCalls \in Nat
    /\ MaxVisits \in Nat /\ MaxFaults \in Nat

None == 0

VARIABLES
    exists, enabled, secret, codeSet, challenges,   \* server: the account's rows
    generated, tokens,   \* server: how many secrets and code sets, and tokens, there were
    visits, faults, \* how often the panel was opened and something failed
    calls,         \* calls under way
    swActive,      \* the worker controls the page
    cache,         \* the worker's cache: GET route -> last answer
    signedIn,      \* authStore.session: App shows the buddy list
    mode, challengeToken,                                   \* LoginPage
    showSecurity, totpEnabled, setupStep, setupSecret, backupCodes,  \* SecuritySettings
    app, saved,    \* the owner's authenticator entries and sets of codes
    doubt,         \* history: a call of this panel failed, overlapped or was served by the cache
    replaced       \* history: the secret was changed while 2FA was on or about to be

account == <<exists, enabled, secret, codeSet, challenges, generated, tokens>>
worker == <<swActive, cache>>
bounded == <<visits, faults>>
loginPage == <<mode, challengeToken>>
panel == <<totpEnabled, setupStep, setupSecret, backupCodes>>
owner == <<app, saved>>
vars == <<account, bounded, calls, worker, signedIn, loginPage, showSecurity, panel, owner,
          doubt, replaced>>

Gets == {"status"}
LoginCalls == {"login", "register", "totp"}
PanelCalls == {"setup", "confirm", "disable", "generate"}
Numbers == 0..MaxChanges

(***************************************************************************)
(* A route under way has still to read the account's row, has checked the  *)
(* code it was given, or has turned 2FA on.                                *)
(***************************************************************************)
Underway == {"sent", "verified", "enabled"}
Answered(c) == c.state \notin Underway

CallType ==
    [op : Gets \cup LoginCalls \cup PanelCalls, code : {"right", "backup", "wrong"},
     num : 0..(MaxChanges + MaxTokens),
     state : Underway \cup {"ok", "refused"}, via : {"network", "worker", "cache"}, shown : BOOLEAN]

NoEntry == [hit |-> FALSE, num |-> 0]

TypeOK ==
    /\ exists \in BOOLEAN /\ enabled \in BOOLEAN
    /\ secret \in Numbers /\ codeSet \in Numbers /\ generated \in Numbers
    /\ challenges \subseteq 1..tokens /\ tokens \in 0..MaxTokens
    /\ calls \subseteq CallType
    /\ swActive \in BOOLEAN
    /\ cache \in [Gets -> [hit : BOOLEAN, num : {0, 1}]]
    /\ visits \in 0..MaxVisits /\ faults \in 0..MaxFaults
    /\ signedIn \in BOOLEAN /\ showSecurity \in BOOLEAN
    /\ mode \in {"login", "register", "totp"} /\ challengeToken \in 0..tokens
    /\ totpEnabled \in BOOLEAN /\ setupStep \in {"idle", "qr", "done"}
    /\ setupSecret \in Numbers /\ backupCodes \in Numbers
    /\ app \cup saved \subseteq 1..MaxChanges
    /\ doubt \in BOOLEAN /\ replaced \in BOOLEAN

Init ==
    /\ exists = FALSE /\ enabled = FALSE /\ secret = None /\ codeSet = None
    /\ challenges = {} /\ generated = 0 /\ tokens = 0
    /\ visits = 0 /\ faults = 0
    /\ calls = {} /\ swActive = FALSE /\ cache = [g \in Gets |-> NoEntry]
    /\ signedIn = FALSE /\ mode = "login" /\ challengeToken = None
    /\ showSecurity = FALSE
    /\ totpEnabled = FALSE /\ setupStep = "idle" /\ setupSecret = None /\ backupCodes = None
    /\ app = {} /\ saved = {} /\ doubt = FALSE /\ replaced = FALSE

-----------------------------------------------------------------------------
(* Calls.                                                                  *)

Call(op, code, num) ==
    [op |-> op, code |-> code, num |-> num, state |-> "sent",
     via |-> IF swActive /\ op \in Gets THEN "worker" ELSE "network", shown |-> TRUE]

Awaited(ops) == \E c \in calls : c.shown /\ c.op \in ops

Send(c) ==
    /\ Cardinality(calls) < MaxCalls
    /\ calls' = calls \cup {c}

(***************************************************************************)
(* fetch handler: a GET that is in the cache is answered from there and    *)
(* fetched all the same, for the cache.                                    *)
(***************************************************************************)
Fetch(op) ==
    LET c == Call(op, "right", None)
    IN  IF swActive /\ cache[op].hit
        THEN {[c EXCEPT !.num = cache[op].num, !.state = "ok",
                        !.via = "cache"],
              [c EXCEPT !.shown = FALSE]}
        ELSE {c}

(***************************************************************************)
(* The worker takes over the page; caches of other versions are deleted.   *)
(***************************************************************************)
activate ==
    /\ ~ swActive
    /\ swActive' = TRUE
    /\ cache' = [g \in Gets |-> NoEntry]
    /\ UNCHANGED <<account, bounded, calls, signedIn, loginPage, showSecurity, panel, owner,
                   doubt, replaced>>

-----------------------------------------------------------------------------
(* The server's routes.                                                    *)

At(c, op, state) ==
    /\ c.op = op /\ c.state = state
    /\ UNCHANGED <<bounded, worker, signedIn, loginPage, showSecurity, panel, owner, doubt>>

Served(c, op) == At(c, op, "sent")

Answer(c, state, num) ==
    calls' = (calls \ {c}) \cup {[c EXCEPT !.state = state, !.num = num]}

Ok(c, num) == Answer(c, "ok", num)
Refuse(c) == Answer(c, "refused", None)
Advance(c, state) == Answer(c, state, c.num)

(***************************************************************************)
(* verify_totp_or_recovery: a code of the authenticator, or a backup code. *)
(***************************************************************************)
Verified(code) ==
    \/ code = "right" /\ secret \in app
    \/ code = "backup" /\ codeSet \in saved

register(c) ==
    /\ Served(c, "register")
    /\ exists' = (exists \/ c.code = "right")
    /\ IF exists \/ c.code # "right" THEN Refuse(c) ELSE Ok(c, None)
    /\ UNCHANGED <<enabled, secret, codeSet, challenges, generated, tokens, replaced>>

(***************************************************************************)
(* A variant of login whose challenge token is not a new one.              *)
(***************************************************************************)
login_uncounted(c) ==
    /\ Served(c, "login")
    /\ IF exists /\ c.code = "right" /\ enabled
       THEN challenges' = challenges \cup {tokens + 1} /\ Ok(c, tokens + 1)
       ELSE UNCHANGED challenges /\ IF exists /\ c.code = "right" THEN Ok(c, None) ELSE Refuse(c)
    /\ UNCHANGED <<exists, enabled, secret, codeSet, generated, tokens, replaced>>

(***************************************************************************)
(* login: a session (number 0), or a challenge token when 2FA is on.       *)
(***************************************************************************)
login(c) ==
    /\ Served(c, "login")
    /\ IF exists /\ c.code = "right"
       THEN IF enabled
            THEN /\ tokens < MaxTokens
                 /\ tokens' = tokens + 1 /\ challenges' = challenges \cup {tokens + 1}
                 /\ Ok(c, tokens + 1)
            ELSE UNCHANGED <<tokens, challenges>> /\ Ok(c, None)
       ELSE UNCHANGED <<tokens, challenges>> /\ Refuse(c)
    /\ UNCHANGED <<exists, enabled, secret, codeSet, generated, replaced>>

(***************************************************************************)
(* totp_challenge: the token goes with the first code tried.               *)
(***************************************************************************)
totp_challenge(c) ==
    /\ Served(c, "totp")
    /\ challenges' = challenges \ {c.num}
    /\ IF c.num \in challenges /\ secret # None /\ Verified(c.code)
       THEN Ok(c, None) ELSE Refuse(c)
    /\ UNCHANGED <<exists, enabled, secret, codeSet, generated, tokens, replaced>>

ChallengeExpires(t) ==
    /\ challenges' = challenges \ {t}
    /\ UNCHANGED <<exists, enabled, secret, codeSet, generated, tokens, bounded, calls,
                   worker, signedIn, loginPage, showSecurity, panel, owner, doubt,
                   replaced>>

(***************************************************************************)
(* A confirmation whose code was checked turns 2FA on next, whatever the   *)
(* account's secret is by then.                                            *)
(***************************************************************************)
Confirming == \E c \in calls : c.op = "confirm" /\ c.state = "verified"

totp_setup(c) ==
    /\ Served(c, "setup")
    /\ generated < MaxChanges
    /\ generated' = generated + 1 /\ secret' = generated + 1
    /\ replaced' = (replaced \/ enabled \/ Confirming)
    /\ Ok(c, generated + 1)
    /\ UNCHANGED <<exists, enabled, codeSet, challenges, tokens>>

(***************************************************************************)
(* A variant of totp_confirm that does not look at the code.               *)
(***************************************************************************)
totp_confirm_unchecked(c) ==
    /\ Served(c, "confirm")
    /\ IF secret # None
       THEN replaced' = FALSE /\ Advance(c, "verified")
       ELSE UNCHANGED replaced /\ Refuse(c)
    /\ UNCHANGED account

(***************************************************************************)
(* totp_confirm checks the code against the secret of the row it read.     *)
(***************************************************************************)
totp_confirm(c) ==
    /\ Served(c, "confirm")
    /\ IF secret # None /\ c.code = "right" /\ c.num = secret
       THEN replaced' = FALSE /\ Advance(c, "verified")
       ELSE UNCHANGED replaced /\ Refuse(c)
    /\ UNCHANGED account

set_totp_enabled(c) ==
    /\ At(c, "confirm", "verified")
    /\ enabled' = TRUE
    /\ Advance(c, "enabled")
    /\ UNCHANGED <<exists, secret, codeSet, challenges, generated, tokens, replaced>>

(***************************************************************************)
(* totp_disable and recovery_codes_generate check that 2FA is on, then the *)
(* code.                                                                   *)
(***************************************************************************)
SettingReads(c) ==
    /\ \E op \in {"disable", "generate"} : Served(c, op)
    /\ IF enabled /\ secret # None /\ Verified(c.code)
       THEN Advance(c, "verified") ELSE Refuse(c)
    /\ UNCHANGED <<account, replaced>>

totp_disable(c) ==
    /\ At(c, "disable", "verified")
    /\ enabled' = FALSE /\ secret' = None /\ replaced' = Confirming
    /\ Ok(c, None)
    /\ UNCHANGED <<exists, codeSet, challenges, generated, tokens>>

StoresCodes(c) == At(c, "confirm", "enabled") \/ At(c, "generate", "verified")

(***************************************************************************)
(* A variant of store_recovery_codes that keeps the old set.               *)
(***************************************************************************)
answer_recovery_codes(c) ==
    /\ StoresCodes(c)
    /\ generated < MaxChanges /\ generated' = generated + 1
    /\ Ok(c, generated + 1)
    /\ UNCHANGED <<exists, enabled, secret, codeSet, challenges, tokens, replaced>>

(***************************************************************************)
(* A new set of codes replaces the old one: the last statement of          *)
(* totp_confirm and of recovery_codes_generate.                            *)
(***************************************************************************)
store_recovery_codes(c) ==
    /\ StoresCodes(c)
    /\ generated < MaxChanges /\ generated' = generated + 1
    /\ codeSet' = generated + 1
    /\ Ok(c, generated + 1)
    /\ UNCHANGED <<exists, enabled, secret, challenges, tokens, replaced>>

recovery_codes_status(c) ==
    /\ Served(c, "status")
    /\ Ok(c, IF enabled THEN 1 ELSE 0)
    /\ UNCHANGED <<account, replaced>>

(***************************************************************************)
(* A statement of a route fails: the answer is an error, and what the      *)
(* route did before stays.  An account with 2FA on and no answer that says *)
(* so, or a status that does not tell, leaves the panel in doubt.          *)
(***************************************************************************)
StatementFails(c) ==
    /\ c.state \in Underway
    /\ faults < MaxFaults /\ faults' = faults + 1
    /\ Refuse(c)
    /\ doubt' = (doubt \/ (c.shown /\ (c.op \in Gets \/ c.state = "enabled")))
    /\ UNCHANGED <<account, visits, worker, signedIn, loginPage, showSecurity, panel, owner,
                   replaced>>

-----------------------------------------------------------------------------
(* LoginPage.                                                              *)

(***************************************************************************)
(* One of two forms is on display; its button waits for the last answer,   *)
(* the tabs and the way back do not.                                       *)
(***************************************************************************)
PasswordForm == ~ signedIn /\ mode # "totp"
CodeForm == ~ signedIn /\ mode = "totp"

setMode(m) ==
    /\ PasswordForm
    /\ mode' = m
    /\ UNCHANGED <<account, bounded, calls, worker, signedIn, challengeToken, showSecurity,
                   panel, owner, doubt, replaced>>

Back ==
    /\ CodeForm
    /\ mode' = "login" /\ challengeToken' = None
    /\ UNCHANGED <<account, bounded, calls, worker, signedIn, showSecurity, panel, owner,
                   doubt, replaced>>

handleSubmit(code) ==
    /\ PasswordForm /\ ~ Awaited(LoginCalls)
    /\ Send(Call(mode, code, None))
    /\ UNCHANGED <<account, bounded, worker, signedIn, loginPage, showSecurity, panel,
                   owner, doubt, replaced>>

handleTotpSubmit(code) ==
    /\ CodeForm /\ ~ Awaited(LoginCalls)
    /\ Send(Call("totp", code, challengeToken))
    /\ UNCHANGED <<account, bounded, worker, signedIn, loginPage, showSecurity, panel,
                   owner, doubt, replaced>>

Arrived(c, ops) ==
    /\ c.op \in ops /\ c.shown /\ Answered(c)
    /\ calls' = calls \ {c}
    /\ UNCHANGED <<account, bounded, swActive, replaced>>

(***************************************************************************)
(* A variant of OnSubmitAnswer that opens the code form without the token. *)
(***************************************************************************)
OnSubmitAnswerForgets(c) ==
    /\ Arrived(c, {"login", "register"})
    /\ IF c.state = "ok" /\ c.num # None
       THEN mode' = "totp" /\ UNCHANGED <<challengeToken, signedIn>>
       ELSE signedIn' = (c.state = "ok") /\ UNCHANGED loginPage
    /\ UNCHANGED <<cache, showSecurity, panel, owner, doubt>>

(***************************************************************************)
(* The answer of handleSubmit, whichever tab is open by now.               *)
(***************************************************************************)
OnSubmitAnswer(c) ==
    /\ Arrived(c, {"login", "register"})
    /\ IF c.state = "ok" /\ c.num # None
       THEN mode' = "totp" /\ challengeToken' = c.num /\ UNCHANGED signedIn
       ELSE signedIn' = (c.state = "ok") /\ UNCHANGED loginPage
    /\ UNCHANGED <<cache, showSecurity, panel, owner, doubt>>

OnTotpAnswer(c) ==
    /\ Arrived(c, {"totp"})
    /\ signedIn' = (c.state = "ok")
    /\ UNCHANGED <<cache, loginPage, showSecurity, panel, owner, doubt>>

-----------------------------------------------------------------------------
(* SecuritySettings.                                                       *)

FreshPanel ==
    /\ totpEnabled' = FALSE /\ setupStep' = "idle" /\ setupSecret' = None
    /\ backupCodes' = None

(***************************************************************************)
(* What the panel waited for is not shown any more.                        *)
(***************************************************************************)
Abandon == calls' = {[c EXCEPT !.shown = FALSE] : c \in {c \in calls : c.via # "cache"}}

OpenPanel ==
    /\ signedIn /\ ~ showSecurity
    /\ showSecurity' = TRUE
    /\ visits < MaxVisits /\ visits' = visits + 1
    /\ FreshPanel
    /\ calls' = calls \cup Fetch("status")
    /\ Cardinality(calls') <= MaxCalls
    /\ doubt' = \E c \in calls : c.op \in PanelCalls
    /\ UNCHANGED <<account, faults, worker, signedIn, loginPage, owner, replaced>>

ClosePanel ==
    /\ showSecurity
    /\ showSecurity' = FALSE
    /\ FreshPanel /\ Abandon
    /\ UNCHANGED <<account, bounded, worker, signedIn, loginPage, owner, doubt, replaced>>

(***************************************************************************)
(* The session is revoked (close code 4001): the login page is mounted.    *)
(***************************************************************************)
logout ==
    /\ signedIn
    /\ faults < MaxFaults /\ faults' = faults + 1
    /\ signedIn' = FALSE /\ showSecurity' = FALSE
    /\ mode' = "login" /\ challengeToken' = None
    /\ FreshPanel /\ Abandon
    /\ UNCHANGED <<account, visits, worker, owner, doubt, replaced>>

(***************************************************************************)
(* A button of the panel: none works while a call is under way.            *)
(***************************************************************************)
Press(c) ==
    /\ showSecurity /\ ~ Awaited(PanelCalls)
    /\ Send(c)
    /\ doubt' = (doubt \/ Awaited(Gets))
    /\ UNCHANGED <<account, bounded, worker, signedIn, loginPage, showSecurity, panel,
                   saved, replaced>>

startSetup ==
    /\ ~ totpEnabled /\ setupStep = "idle"
    /\ Press(Call("setup", "right", None))
    /\ UNCHANGED app

(***************************************************************************)
(* The code shows that the owner has put the displayed secret in the app.  *)
(***************************************************************************)
confirmSetup(code) ==
    /\ setupStep = "qr"
    /\ Press(Call("confirm", code, setupSecret))
    /\ app' = IF code = "right" THEN app \cup {setupSecret} ELSE app

disableTotp(code) ==
    /\ totpEnabled /\ setupStep = "idle"
    /\ Press(Call("disable", code, None))
    /\ UNCHANGED app

regenerateCodes(code) ==
    /\ totpEnabled /\ backupCodes = None
    /\ Press(Call("generate", code, None))
    /\ UNCHANGED app

cancelSetup ==
    /\ setupStep = "qr" /\ ~ Awaited(PanelCalls)
    /\ setupStep' = "idle"
    /\ UNCHANGED <<account, bounded, calls, worker, signedIn, loginPage, showSecurity,
                   totpEnabled, setupSecret, backupCodes, owner, doubt, replaced>>

(***************************************************************************)
(* The two buttons named Done: under the setup, which ends with it, and    *)
(* under the backup codes.                                                 *)
(***************************************************************************)
DoneSetup ==
    /\ setupStep = "done" /\ backupCodes # None
    /\ setupStep' = "idle" /\ backupCodes' = None
    /\ UNCHANGED <<account, bounded, calls, worker, signedIn, loginPage, showSecurity,
                   totpEnabled, setupSecret, owner, doubt, replaced>>

DoneCodes ==
    /\ totpEnabled /\ backupCodes # None
    /\ backupCodes' = None
    /\ UNCHANGED <<account, bounded, calls, worker, signedIn, loginPage, showSecurity,
                   totpEnabled, setupStep, setupSecret, owner, doubt, replaced>>

-----------------------------------------------------------------------------
(* Answers of the panel's calls.                                           *)

(***************************************************************************)
(* The worker keeps what it fetched, but for errors.                       *)
(***************************************************************************)
Put(c) == cache' = IF c.via = "worker" /\ c.op \in Gets /\ c.state = "ok"
                   THEN [cache EXCEPT ![c.op] = [hit |-> TRUE, num |-> c.num]]
                   ELSE cache

(***************************************************************************)
(* The status is taken from any answer; the body of an error has none, so  *)
(* the panel shows 2FA off.                                                *)
(***************************************************************************)
OnStatus(c) ==
    /\ Arrived(c, {"status"})
    /\ Put(c)
    /\ totpEnabled' = (c.num = 1)
    /\ doubt' = (doubt \/ c.via = "cache")
    /\ UNCHANGED <<signedIn, loginPage, showSecurity, setupStep, setupSecret, backupCodes,
                   owner>>

(***************************************************************************)
(* A call was refused: the panel shows the message and changes nothing.    *)
(***************************************************************************)
OnRefused(c) ==
    /\ Arrived(c, PanelCalls) /\ c.state = "refused"
    /\ UNCHANGED <<cache, signedIn, loginPage, showSecurity, panel, owner, doubt>>

Succeeded(c, op) ==
    /\ Arrived(c, {op}) /\ c.state = "ok"
    /\ UNCHANGED <<cache, signedIn, loginPage, showSecurity, app, doubt>>

OnSetup(c) ==
    /\ Succeeded(c, "setup")
    /\ setupSecret' = c.num /\ setupStep' = "qr"
    /\ UNCHANGED <<totpEnabled, backupCodes, saved>>

OnConfirm(c) ==
    /\ Succeeded(c, "confirm")
    /\ backupCodes' = c.num /\ totpEnabled' = TRUE /\ setupStep' = "done"
    /\ saved' = saved \cup {c.num}
    /\ UNCHANGED <<setupSecret>>

(***************************************************************************)
(* A variant of OnDisable that leaves the status to the next visit.        *)
(***************************************************************************)
OnDisableKeepsStatus(c) ==
    /\ Succeeded(c, "disable")
    /\ UNCHANGED <<totpEnabled, setupStep, setupSecret, backupCodes, saved>>

OnDisable(c) ==
    /\ Succeeded(c, "disable")
    /\ totpEnabled' = FALSE
    /\ UNCHANGED <<setupStep, setupSecret, backupCodes, saved>>

OnGenerate(c) ==
    /\ Succeeded(c, "generate")
    /\ backupCodes' = c.num
    /\ saved' = saved \cup {c.num}
    /\ UNCHANGED <<totpEnabled, setupStep, setupSecret>>

(***************************************************************************)
(* An answer that nobody waits for; the worker still keeps it.             *)
(***************************************************************************)
Unseen(c) ==
    /\ ~ c.shown /\ Answered(c)
    /\ calls' = calls \ {c}
    /\ Put(c)
    /\ UNCHANGED <<account, bounded, swActive, signedIn, loginPage, showSecurity, panel,
                   owner, doubt, replaced>>

(***************************************************************************)
(* A call fails on its way: the server never gets it, gets it all the      *)
(* same, or drops its route at the statement it has reached.               *)
(***************************************************************************)
CallFails(c) ==
    /\ c.via # "cache"
    /\ faults < MaxFaults /\ faults' = faults + 1
    /\ \/ calls' = calls \ {c}
       \/ c.shown /\ ~ Answered(c) /\ calls' = (calls \ {c}) \cup {[c EXCEPT !.shown = FALSE]}
    /\ doubt' = (doubt \/ (c.shown /\ c.op \notin LoginCalls))
    /\ UNCHANGED <<account, visits, worker, signedIn, loginPage, showSecurity, totpEnabled,
                   setupStep, setupSecret, backupCodes, owner, replaced>>

-----------------------------------------------------------------------------
Serve(c) ==
    \/ register(c) \/ login(c) \/ totp_challenge(c)
    \/ totp_setup(c) \/ totp_confirm(c) \/ set_totp_enabled(c)
    \/ SettingReads(c) \/ totp_disable(c) \/ store_recovery_codes(c)
    \/ recovery_codes_status(c)

OnAnswer(c) ==
    \/ OnSubmitAnswer(c) \/ OnTotpAnswer(c) \/ OnStatus(c) \/ OnRefused(c)
    \/ OnSetup(c) \/ OnConfirm(c) \/ OnDisable(c) \/ OnGenerate(c)
    \/ Unseen(c)

User ==
    \/ \E m \in {"login", "register"} : setMode(m)
    \/ Back \/ OpenPanel \/ ClosePanel \/ startSetup \/ cancelSetup
    \/ DoneSetup \/ DoneCodes
    \/ \E code \in {"right", "wrong"} : handleSubmit(code) \/ confirmSetup(code)
    \/ \E code \in {"right", "backup", "wrong"} :
          handleTotpSubmit(code) \/ disableTotp(code) \/ regenerateCodes(code)

Next ==
    \/ User \/ activate \/ logout
    \/ \E c \in calls : Serve(c) \/ StatementFails(c) \/ OnAnswer(c) \/ CallFails(c)
    \/ \E t \in challenges : ChallengeExpires(t)

Spec == Init /\ [][Next]_vars

-----------------------------------------------------------------------------
(***************************************************************************)
(* The code form always has a challenge token to send, however late the    *)
(* answers of LoginPage's calls come and whichever tab they meet.          *)
(***************************************************************************)
TotpFormHasToken == CodeForm => challengeToken \in 1..tokens

(***************************************************************************)
(* The panel shows the account as it is once its calls are answered, over  *)
(* setups, cancellations, disabling, visits and failed statements, unless  *)
(* a call of it was lost on its way, its status or the last statement of a *)
(* confirmation failed, it was pressed while the status was being fetched, *)
(* or the status came from the worker's cache.                             *)
(***************************************************************************)
PanelExact ==
    showSecurity /\ ~ doubt /\ ~ Awaited(PanelCalls \cup Gets) =>
        totpEnabled = enabled

(***************************************************************************)
(* The backup codes on display are the ones the server accepts: "save      *)
(* these now" (SecuritySettings.tsx 393), under the same condition.        *)
(***************************************************************************)
CodesVisible == showSecurity /\ backupCodes # None /\ (setupStep = "done" \/ totpEnabled)
CodesShownValid == CodesVisible /\ ~ doubt /\ ~ Awaited(PanelCalls) => backupCodes = codeSet

(***************************************************************************)
(* The owner's authenticator has the secret that login checks, through     *)
(* failed calls and statements, repeated setups and overlapping routes,    *)
(* unless a setup or a disable changed the secret while 2FA was on or      *)
(* between the check and the UPDATE of a confirmation (auth.rs 1320-1327). *)
(***************************************************************************)
NotLockedOut == enabled => replaced \/ secret \in app

(***************************************************************************)
(* auth.rs 1289, "Store the pending secret (not yet enabled - enabled only *)
(* after /confirm)": the secret that login checks was confirmed with a     *)
(* code of the authenticator.                                              *)
(***************************************************************************)
LiveSecretConfirmed == enabled => secret \in app
=============================================================================
