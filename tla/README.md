# Winkd Messenger: TLA+ models, checks and proofs

Winkd is a one-to-one messenger: a Rust server (axum, tokio, PostgreSQL), a React
client, and a TypeScript core with end-to-end encryption. This directory keeps
TLA+ specifications of the parts in which independent actors meet, TLC
configurations that check them on small instances, and TLAPS proofs of the
results that should hold for any number of users, connections and requests.

The repository ships two web clients. `README.md` 290-295 of the repository calls
`apps/web/app.html`, one legacy script, the live chat UI, and the React client under
`apps/web/src` non-primary. The models of the browser (`WebClient`, `Chat`, `Account`) follow
the React client; `app.html` is not modelled. What is shown of the server and of
`packages/core` does not depend on the client.

Run a configuration with `tlc -config <file>.cfg <module>`, check a proof module
with `tlapm <module>.tla`.

## 1. The system

| Part | Code | State | Operations | Talks to |
|---|---|---|---|---|
| Connection handler | `server/src/router.rs` `handle_socket` | position of the task, channel of events | authenticate, register, announce, snapshot, drain and replay, receive loop, cleanup | registry, presence, queue, browser |
| Session registry | `AppState.clients` | user -> (session id, sender) | insert, conditional remove, lookup | every handler, under an async lock |
| Presence store | `server/src/presence.rs` | user -> status | set, get, remove | handlers, `set_status` |
| Relay commands | `router.rs` `handle_command`, `Send*` | none between commands | check, look up, push or queue, echo | registry, queue, channels |
| Offline queue | `db.rs` 884-933 | `pending_messages` rows | insert, delete-and-return | relay commands, replay |
| Socket hook | `useSocket.ts` | socket of the effect, `wsRef`, authenticated flag | open, authenticate, one handler per event, close, `send` | server, stores |
| Stores | `authStore.ts`, `contactsStore.ts`, `chatStore.ts` | session object, contacts, invitations, blocked users, badges, conversations | setters | hook, components |
| Components | `Sidebar.tsx`, `ChatWindow.tsx`, `LoginPage.tsx`, `SecuritySettings.tsx` | forms, input, panels | handlers of buttons, answers of HTTP calls | stores, `send`, `auth.rs` |
| Service worker | `apps/web/public/sw.js` | cache of GET answers | install, activate, fetch | every HTTP call of the page |
| E2E sessions | `packages/core/src/encryption` | ratchet sessions, pre-keys | initiate, encrypt, decrypt | key store, transport |
| Two-factor login | `auth.rs` 73-195, 1206-1458, `db.rs` 664-797 | secret, enabled flag, challenge tokens, recovery codes | login, challenge, set up, confirm, disable, regenerate | PostgreSQL |
| Contacts and blocks | `router.rs` 425-801, `db.rs` 333-616, 993-1006 | request rows, block rows | add, accept, reject, block, unblock | registry (events), relay (block check) |
| Accounts | `auth.rs` | users, session tokens, OAuth states | register, login, reset, OAuth | rate limiter |
| Devices and pre-keys | `auth.rs` 1478-1668, `db.rs` 801-874 | devices, bundles | register, revoke, upload, fetch | E2E sessions |
| Supporter tiers | `bmac.rs`, `db.rs` 940-1072 | tier, expiry, slots, extras, recorded events | webhook | buddy cap |
| Rate limiter | `ratelimit.rs` | address -> count, window start | check | login, register, 2FA |
| Core client | `packages/core/src/protocol/client.ts` | socket, backoff, timers | connect, disconnect, send, reconnect | not used by the web app |

What is hard. The server is a multi-threaded tokio program: every connection is a
task, and another one may run at every `.await`, be it a lock, a statement or the
socket. Locks are held for single map operations, almost no two statements share a
transaction, and what was read before an await is used after it. The registry and
presence die with the process while the tables stay. A socket can be dead long
before the server notices. A browser tab is single-threaded, but its handlers are
callbacks: a socket that was closed reports that after its successor is open, an
effect runs some time after the state it depends on changed, a handler keeps what it
captured when it was made, and the answer of a call meets whatever page is there by
then. PROJECT.json lists the places ("hazards"), with the property that
looks at each, or the reason why none does.

What makes each part correct:

* registry: messages go to the newest connection of a user, never to one that has
  cleaned up, and a socket that its browser closed does leave;
* presence: an entry exists exactly while the user is connected;
* relay: a message is in one place, arrives at most once, in the order in which it
  was queued, does not get stuck inside the server, and is ticked as delivered
  only after it was handed over;
* ratchet: both ends derive the same key for every message that arrives, every
  message has a key of its own, and used keys are gone;
* two-factor: tokens and recovery codes work once, 2FA is on only with a confirmed
  secret and with backup codes;
* contacts: a block leaves no request open, the cap is kept, an answer stands;
* socket hook: the lists of the tab agree with the server's rows once nothing is under
  way, and a connection that is up stays up;
* chat: a badge counts what was not seen;
* login page and security panel: a code form has a token to send, the panel shows the
  account as it is, and its owner is not locked out;
* core client: it comes back after a loss, does not after a refusal or a disconnect,
  and never drops the frames of a connection it has.

## 2. Modules

`Sessions` (connections, registry, presence). One variable per piece of state, and
`pc[c]` for the position of connection `c` in `handle_socket`. One action per
stretch between two awaits:

| Action | `router.rs` |
|---|---|
| `Open`, `Disconnect` | the browser (`useSocket.ts` 39-51, 276-292) |
| `Authenticate`, `Reject` | 168-241, token check with its early returns |
| `Register` | 243-256, insert into `clients` |
| `SetOnline`, `AnnounceOnline` | 258-269 |
| `Snapshot`, `EnterLoop` | 271-378 |
| `StatusRead`, `MoodRead`, `StatusWrite` | 804-877: `get` of the presence by `set_status` and `set_mood`, then `set` and broadcast |
| `HangUp` | 378-387, end of the receive loop; needs the end of the stream |
| `Unregister` | 389-402, the conditional remove under the lock |
| `ClearPresence`, `AnnounceOffline` | 404-415 |
| `Crash` | loses the maps and all tasks |

`newest` and `overlap` are history variables: which connection registered last, and
whether two tasks of one user were ever alive at once. A connection in `Silent` may lose its
browser without a close frame: there is no ping and no read timeout, so nothing ends its stream.

`Relay` EXTENDS `Sessions` and composes it with messages: each action that moves a
connection is the action of `Sessions` conjoined with what it does to channels,
drained rows and unread commands. A send command is `NextCommand`'s message followed
by `RefuseMessage` or `Lookup`, `Push`, `Queue`, `Echo`, one per await of lines
880-1001; the cloned session of the addressee (`job[c].peer`) is carried from
`Lookup` to `Push` as it is in the code. `queue[u]` are the `pending_messages` rows for
addressee `u`, by insertion. `Drain` is the DELETE, `Replay` one turn of
the loop that pushes a row and its receipt. A channel keeps accepting events while
its receiving end exists (`rx`), which is longer than the socket lives.
`Forward` hands an event to the browser and includes what the browser does with it;
`ForwardToDeadSocket` is the failed write that ends the forwarding task. `lost`
and `dropped` record where a message went down, so that the accounting property can
tell a known loss from a hole in the protocol.

`Ratchet` models one pair of `SignalSessionManager`s. Keys are symbolic: a chain key
is the path of Diffie-Hellman outputs it was derived from, so two keys are equal
exactly if both ends mixed the same inputs in the same order. `encrypt` and
`decrypt` are split at the awaits between `loadSession` and `storeSession`
(`calls`), sessions are stored before the ciphertext is tried as in lines 255-259,
and the network loses and reorders freely. `overlaps` counts the calls that began while
another call of the same manager was under way; `crossed` records that a message was
delivered while an earlier one of its sender, under another ratchet key, was still on its way.

`TwoFactor` models the requests of one account. `pc[r]` is the next statement of
request `r`. The transaction of `store_recovery_codes` has PostgreSQL's READ
COMMITTED behaviour: the DELETE works on a snapshot, the rows it took are locked
until commit, another DELETE or `consume_recovery_code` of those rows waits
(`Locked`, `Blocked`). `Fails` is an error return between two statements, `Crash` the
end of the process. `calm` records that requests came one at a time and none failed.

`Contacts` models the contact commands of running receive loops (`Tasks`), with
`job[t]` the next statement and the pair it is about. `create_contact_request` is the
upsert that sets any row back to pending, `Answer` the guarded UPDATE of accept and
reject, `create_block` and `clear_pending` the two statements of both block
commands, `Fails` an error, or a stop of the server, at any of them. `crossed` and
`overfull` record the two situations that the code does not guard against.

`OneTime` is the abstract specification of a thing that may be used once: it is
issued, is live until it is used or withdrawn, and never comes back. `TwoFactor`
instantiates it twice, for challenge tokens and for recovery codes. The mapping
(`TokenState`, `CodeState`) takes an item as live while its row is stored; a set that
a running transaction will store is not yet issued.

`WebClient` models one tab and what the server answers it. `effect` says whether the
socket effect of `useSocket.ts` ran with the session object that is in the store;
`RunEffect` is its cleanup followed by the new socket, some time after a handler
replaced the object (`NewSessionObject`). `phase` is the `readyState` of each socket:
a closed one reports that in `onclose` whenever it comes to it, and clears `wsRef`
whichever socket is there. Each event of `ws.onmessage` that changes the stores is
an action (`OnAuthOk` to `OnRequestSent`), and so is each handler of `Sidebar.tsx` and
`ChatWindow.tsx` that sends a command. The server's side (`Authenticate`,
`accept_contact`, ...) is one step per command, since its interleavings are in
`Sessions` and `Contacts`, but with the outcomes that a failing statement leaves: a roster or a
list of requests that a greeting leaves out (`OrNothing`), an answer without an addressee, a
block whose clean-up failed (`Clear`), an error event, which the tab ignores (`Refused`). The peers
ask, answer, block and unblock (`Others`); blocks of both directions decide what is listed
and refused (`is_blocked_between`), and a block by the peer withdraws requests without an
event. Commands on a closed socket are still executed, their answers go nowhere. `dropped`
records the pending requests that left the list without an answer the server took, or never
reached it; `crossed` the peers about whom the tab was not told.

`Chat` models the chat window: the open conversation (`active`) beside the one the
socket handlers captured (`seen`, set by `RunEffect`), the one input for all conversations, the
attachment that is being read (`reading`, split at the await of `handleAttachmentSelect`), badges
and shaking. A message joins its conversation whether or not `send` had an open socket for it
(`Emit`: `shown` and `sent`), a window that is unmounted loses its input, and a read that
outlives the window sends on a socket that is gone. `listed` stands for the sidebar's contacts,
pending and accepted alike, and changes freely here, as `WebClient` has it change.

`Account` models one browser with its account. A call is sent, served and answered in
three steps; the pages go on in between. `Fetch` is the worker's fetch handler, which
answers a GET from its cache when it can and refreshes the cache. The routes of the
panel run statement by statement and overlap: `totp_confirm` checks the code against the row it
read, then turns 2FA on (`set_totp_enabled`), then stores the codes (`store_recovery_codes`), and
`totp_disable` and `recovery_codes_generate` check (`SettingReads`) before they write.
`StatementFails` is an error answer at any of them, which keeps what was written before.
`app` and `saved` are what the owner of the account has in
the authenticator and on paper: a correct code is one of those. `doubt` and `replaced` are
history variables: the panel may be wrong about the account, and the secret was changed while
2FA was on or between the check and the UPDATE of a confirmation.

`WinkdClient` models the core client: the fields that all its sockets share, the
pending timer and the timers that `reconnectTimer` no longer refers to (`loose`),
and a server that accepts, refuses, or closes when no auth frame comes in time.
`hasty` records that `connect` ran beside an older socket or a pending timer.

`MCRelay`, `MCTwoFactor`, `MCContacts`, `MCWebClient` and `MCChat` give the
constants small values or declare symmetry. `RelayProofs` (with the proofs about
`Sessions`), `RatchetProofs`, `TwoFactorProofs`, `ContactsProofs`, `WinkdClientProofs`,
`WebClientProofs` and `AccountProofs` hold the proofs.

Definitions named as a variant ("A variant of ... that ...") are deliberately wrong
versions of the definition that follows. They are not used by any specification;
PROJECT.json says which property notices each of them.

## 3. Runs

| Run | Result | What it shows |
|---|---|---|
| `relay_faults` | holds | two users, three connections, one message, crashes, dead sockets, failed statements, refusals, status and mood changes: `NewestRegistered`, `RegistryLive`, `PresenceExactUnlessOverlap`, `EveryMessageAccountedFor`, `AtMostOneCopy`, `TickAfterHandover` |
| `relay_progress` | holds | two messages, two connections of which one may go silent, crashes, fair tasks: `ReplayInOrder`, `EveryMessageSettles`, `ClosedSocketsLeave` |
| `ratchet_chain` | holds | loss, any order, one overlapping call: `EndsAgree`, `KeyPerMessage`, `UsedKeysForgotten` |
| `two_factor_requests` | holds | two overlapping requests with failures: `TwoFactor` implements `OneTime` for recovery codes and for challenge tokens (`RecoveryCodesOneTime`, `ChallengesOneTime`); `InOrderWhileCalm`: one by one, 2FA is on only with a secret and with codes of one set |
| `contacts_blocks_and_cap` | holds | two tabs of one user and one of another, room for one buddy, failures: `BlockedNotPending`, `CapKeptByAdds`, `AnswersStand` |
| `web_client` | holds | a tab, one peer, a socket beside its successor, losses, rejected sessions, failing statements, blocks by either side: `NoInvitationLost`, `NoGhostInvitation`, `BlocksShown` |
| `web_account` | holds | two visits of the panel, two calls under way, one fault: `TotpFormHasToken`, `PanelExact`, `CodesShownValid`, `NotLockedOut` |
| `winkd_client` | holds | two sockets, two losses, loose timers, fair browser and server: `NeverDeaf`, `StaysAway`, `Reconnects` |
| `client_live` | counterexample | `StaysLive`: without any fault, the tab closes and opens its socket for ever |
| `account_secret` | counterexample | `LiveSecretConfirmed`: the panel can replace the live secret by an unconfirmed one |
| `ratchet_any_order` | counterexample | `DecryptsUnlessSkipLimit`: with one call at a time, a message overtaken across a ratchet step makes `decrypt` ratchet back to its key and cannot be decrypted |
| `chat_badges` | counterexample | `BadgesExact`: a message of the open conversation is counted as unread when the conversation was opened after the effect ran |

Each holding run checks the type invariant of its module as well, except
`relay_progress`, whose module is typed in `relay_faults`. The counterexamples are
disagreements between a comment or document of the repository and the code; the
"findings" of PROJECT.json quote both.

What the holding runs leave out. Where the code does not keep a promise in every case,
the property names the case by a history variable and says what holds outside it. It then does
not notice the hazard it leaves out; it shows that nothing else breaks the promise.

| Property | Says nothing of | Because there |
|---|---|---|
| `PresenceExactUnlessOverlap` | users whose tasks overlapped (`overlap`) | an old cleanup, a `set_status` or a `set_mood` overwrites the entry of a live connection |
| `EndsAgree` | a message overtaken across a ratchet step (`crossed`), overlapping calls | `session.ts` 209 looks at the ratchet key before the skipped keys (`ratchet_any_order`); two calls store copies of one session |
| `KeyPerMessage`, `UsedKeysForgotten` | overlapping calls of one manager (`overlaps`) | both load the same chain position, so one key encrypts two messages, or a used key comes back (`session.ts` 138-182) |
| `InOrderWhileCalm` | overlapping or failed requests (`calm`) | `totp_confirm` and overlapping regenerations are not one transaction |
| `BlockedNotPending` | a request whose check passed before the block, a failed clean-up (`crossed`) | check, block and insert are separate statements |
| `CapKeptByAdds` | two adding tabs, accepted requests (`overfull`) | count and insert are separate statements, and accepting asks no cap |
| `NoInvitationLost` | `dropped`: an answer that `send` drops or the server fails, an acceptance of the other direction, a list left out of the greeting | the invitation is taken down first, and nothing lists it again on this connection |
| `NoGhostInvitation`, `BlocksShown` | `crossed`: a lost answer, an acceptance without an addressee, a block from the chat window or by the peer, a block whose clean-up failed | the tab is not told, and the snapshot does not replace the invitations |
| `PanelExact`, `CodesShownValid` | `doubt`: a call lost on its way, a failed status or last statement, a call sent while the status was fetched, an answer of the worker's cache | a late or cached status puts an earlier state back |
| `NotLockedOut` | `replaced`: a setup with 2FA on, a setup or disable between the check and the UPDATE of a confirmation | the secret that login checks is replaced at once |
| `NeverDeaf`, `StaysAway`, `Reconnects` | `hasty`: `connect` beside an older socket or a timer; `parting`: `disconnect` of a socket that is still open | handlers and timers of both act on the same fields |

Bounds and why they are enough to be interesting:

* Three connections for two users let a user refresh while the peer is connected,
  and let an old cleanup, a live registration and a lookup by the other user overlap.
  A connection is used once; after that it is `done`, so the number of connections
  bounds the number of reconnects.
* `Msgs` of one in `relay_faults` is enough for accounting, since messages do not
  interact except through order; order needs two, in `relay_progress`.
* `Statuses` of two lets a status change be told from the initial one. `Relay` keeps
  one, since no message depends on it. `Relay` also assumes one open socket per user
  (`OneTab`); old tasks still overlap with new ones.
* `Silent` is one of two connections in `relay_progress`: a silent peer beside one that
  closes. In `relay_faults` it would add nothing, since safety does not ask for the end.
* `MaxSkip` = 1 and `MaxSent` = 3 put the limit on both sides of what is sent and
  leave room for two ratchet steps on each side (MAX_SKIP is 500 in the code). `MaxOverlaps` = 1
  is one call that meets another; `ratchet_any_order` has none, so that the network alone is to
  blame.
* Two secrets, two sets of one code, one token and two requests: each race in this
  part is between two requests, and a second set is needed to mix sets. The code
  has ten codes in a set; the codes of a set only differ by name.
* `Socks` of two in `web_client` and `winkd_client` is a socket and its successor; a
  socket that has reported its close can be used again, so their number over time has
  no bound. One peer is enough since the lists have no relation between peers.
  `MaxInbox` and `MaxOutbox` of one bound the events and commands under way, beside the
  greeting, which is as long as it is; a command waits while the inbox is full. The proofs are for any bound.
* Two peers let the open conversation differ from the captured one; `MaxUnread` = 1 meets the first
  unread message, which is where the counted and the seen part.
* `MaxChanges` = 4 secrets and code sets allow a setup with its codes and a second one, or a
  regeneration; `MaxCalls` = 2 lets a setup or a disable run between the statements of a
  confirmation, or a late status meet another call;
  `MaxVisits` = 2 lets the second visit meet the cache that the first one filled;
  `MaxFaults` = 1 a lost call at any point. `account_secret` has no fault.
* `Cap` = 1 with two others to add: the boundary is met at the first add. `Peers` keeps
  the second user's commands to the first user, since what two others do between
  themselves changes nothing for the first.

Deadlock is checked where the system never stops. Ratchet, TwoFactor, Account and
the runs of Relay with two connections may come to an end because the supply of
messages, tokens or connections is finite; their configurations say so.

Symmetry is declared over connections, users, requests or tabs that the module
does not tell apart, and only in runs without liveness properties.

Fairness. `relay_progress`: weak fairness of every connection's task and of every
forwarding task, without `HangUp` of a connection that went silent (`Silent`): tokio polls a task
that can make progress, statements and locks return, and a socket that was closed ends the stream
after the commands already read; a peer whose network vanished owes nothing, since the server
neither pings nor times out.
`winkd_client`: weak fairness of the timers and of each socket's next event, the server's
answer included; timers fire, and a browser dispatches the events of a socket.
`client_live`: the same of the sockets and of `onmessage`, and React runs an effect that
is due. Nothing is assumed of users, networks, losses or crashes.

## 4. Proofs

All proofs are for arbitrary constants under the ASSUMEs of the modules: any set of
users, connections and requests, any bounds.

`RelayProofs`, about `Sessions`:

* `TypeCorrect`, `NewestStaysRegistered`, `RegistryStaysLive`. Inductive invariant
  `RegistryInv`: types, every active connection has an owner (`ActiveOwned`: without
  it, a cleanup could touch the entry of "no user"), `RegistryLive` and
  `NewestRegistered`. The two support each other: the conditional remove of
  `Unregister` leaves other connections' entries alone, and a connection is newest
  only until another registers.
* `PresenceExact`. `PresenceExactUnlessOverlap` is not inductive: that the cleanup of
  the only task removes the entry depends on that task being the registered one.
  `PresenceInv` adds `OneTaskUnlessOverlap` (without overlap a user has at most one
  active task) and `AloneMeansRegistered` (such a task, once registered, is in the
  registry, so its cleanup does clear the entry).

`TwoFactorProofs`:

* `ChallengesAreSingleUse`. `TokenInv`: a token that can still be consumed was not tried,
  and only tokens already handed out were tried at all.
* `RecoveryCodesAreSingleUse`. `CodeInv`: stored codes are unredeemed, also the ones a
  running transaction will store or put back by rolling back, and the sets
  of different transactions are different, so a commit never brings a used code back.

* `TwoFactorTypes`, `AccountStaysInOrder`. The latter is about requests that come one at
  a time; `CalmInv` says that then at most one request is under way, and what each of
  its statements has established: a code was checked against the stored secret, the
  codes of an enabled account are there or still to come, and the set a transaction
  deletes is the whole set.
* `ChallengesImplementOneTime`, `RecoveryCodesImplementOneTime`: every step of `TwoFactor` is a step of
  `OneTime` or a stutter under the mapping. They rest on `TokenInv` and `CodeInv`: a
  consuming DELETE finds the item live, and a commit puts codes of its own, unissued set in
  the place of the ones it deleted.

`ContactsProofs` (assuming a finite set of users, which the count needs):

* `BlocksCloseRequests`. With the types, `BlockedNotPending` is inductive: whatever takes
  away the pending clean-up that excuses an open request closes the request too, or
  is a failure that `crossed` records.
* `AnswersAreFinal`, an action property: the UPDATEs of accept, reject and clear ask for
  a pending row, and the upsert of an add is that of its task's own owner (`OwnJobs`, which says
  so of the command a task has under way), so that no step of anybody else touches an answered
  row.
* `AddsKeepCap`. The cap is checked two statements before the insert, so `CapInv` carries
  the room found then (`RoomKept`) to the insert; it stays because no other step
  makes that roster grow (`RosterGrowth`) and no second add of the same user is under
  way (`OneAdder`).

* `ContactTypes`, the types.

`WinkdClientProofs`: `ClientTypes`, `ClientNeverDeaf`, `ClientStaysAway`. While the
client was not used hastily there is one socket or one timer, not both (the invariant's
main part), so an event or a callback always belongs to the socket in `ws`; from that
the results follow.

`RelayProofs`, about `Relay`:

* `RelayImplementsSessions`, step by step: each action of `Relay` is the action of
  `Sessions` it is made of, or leaves the variables of `Sessions` alone. So what is proved of the
  registry holds under the relay's messages too (`RegistryUnderRelay`).
* `RelayTypeCorrect`, `TickNeverEarly`, `NothingUnaccounted`, `NoSecondCopy`,
  `ReplayKeepsOrder`, for any users, connections and messages. None of the four
  properties is inductive. `RelayInv` adds to the types and `RegistryInv`:
  * `LinkInv`: a channel has a receiver exactly in the phases between registration and
    cleanup, the locals of a task are filled only in the phase that uses them, and a message
    gets only into stores of its addressee. Without it a stale clone could push to somebody else's
    connection.
  * `PromisesKept`: whatever says "delivered" (a bubble, an echo about to be sent, an echo or a
    receipt on its way) is about a message that was handed over. The tick is the last of these
    to appear.
  * `PlaceInv`: the stores are one function from places to sets of messages (`Held`); no message is
    in two places or twice in one, every composed message is in one or recorded as lost, and
    nothing that was not composed is in any. A step moves a message from one place to another,
    which one lemma shows for all of them.
  * `OrderInv`: along inbox, channel, drained rows and queue the rows of one addressee are
    in the order of their insertion (`Lines`). The inbox meets only the channel of the open socket,
    which is why `OneOpenSocket` is part of it; a message still on its way to the
    server has no row (`RowsPast`), so an insertion is always the last.

`AccountProofs` (any number of calls, visits, changes and faults): `AccountTypeCorrect`,
`CodeFormHasToken`, `OwnerNotLockedOut`, `PanelShowsAccount`, `DisplayedCodesValid`.
`AccountInv` needs, beside types, that a right code under way is of a secret in the
authenticator (`ConfirmProvesEntry`), and that the account's secret is one already while a
confirmation is between its check and its UPDATE (`EntryHeld`, which is `NotLockedOut` two
statements earlier); and `PanelInv`, which follows the panel through its calls: while nothing is
in doubt, a call that changes the account is waited for and alone (`Alone`), a status on its way
from the server is still true (`StatusTrue`), and the panel differs from the account only by what
the call under way has written or by the answer on its way (`Mirrors`, with `Turned`;
`CodesNewest`). A closed panel waits for nothing (`Quiet`), which is where the next visit starts.

`WebClientProofs` (any sockets, any finite set of peers, any bounds; `MaxOutbox` of at
least one, since `onopen` puts the token there):

* `TabTypeCorrect`. A greeting brings two events and one for each pending request, on top of
  `MaxInbox`.
* `InvitationsComplete`, `InvitationsGenuine`, `BlocksFollowServer`. They speak of a settled
  connection; `ListsInv` says the same of every state, of the list as it will be when the
  events under way are handled. `Stays(q, p, L, A, B)` is that: the last event of the queue `q`
  about `p` that adds (in `A`) or removes (in `B`) decides, and the list `L` if there is none. Lemmas
  say what an event behind the queue (`StaysAppend`) and a handled one (`StaysTail`) do to it. With
  these, each command of the server is one fact about its answer (`AnswerFits`) and each
  handler one about its event (`Applied`). A pending request may also be answered by a command
  still on its way (`Answered`), and what a failed command, a failed clean-up or a list that was
  not sent leaves behind is in `dropped` or `crossed`. The lists depend on the connections by
  `WireInv`: only the effect's own socket is open (`OneOpen`), the token is the first command and
  nothing comes in before it is taken (`NotYetKnown`, `AuthFirst`), so that the greeting meets an
  empty queue; and a block that left a pending row behind is one the tab cannot know
  (`UnclearedKnown`), so that no acceptance brings back a contact that is said to be blocked.

`RatchetProofs` (any limit on skipped keys, any number of messages, of ratchet steps and of
overlapping calls). Nothing in `session.ts` keeps the calls of a manager apart, so the
invariants hold under `overlaps` = 0, with `OneCall` to say what that means of `calls`; what one
says of a party it says of its `Copies`: the stored session and the ones that calls under way
will store.

* `RatchetTypeCorrect`, whatever overlaps. `Sizes` relates every counter and key
  pair in a session, a cache or a message to `sent` and `fresh`.
* `OneKeyPerMessage`, in any order of delivery. `KeysFresh`: every chain in use was made from
  key pairs already drawn, so a ratchet step with a new pair starts a chain that was never used;
  within a chain the used keys are before `sendCount`; and the two ends never send on one chain.
* `ForwardSecrecy`, in any order of delivery. `SessionInv`, with its main part `Forgotten`: of every
  opened message, each copy of the receiver's session is past the key, in its chain and in its
  cache. It needs that a cache holds each key once, only keys before the chain's
  position, and none from beyond the root key (`Tidy`), and that the
  message that makes Bob's session is delivered once, before any other copy exists
  (`SetUpOnce`): a second one would start the chains again.
* `BothEndsAgree`, while also no message was overtaken across a ratchet step (`~ crossed`), which the
  run `ratchet_any_order` shows to be needed. `JointInv`:
  * `InStep`: one of the two stored sessions is exactly one ratchet step ahead of the other (`Ahead`),
    and a copy is where its session is, or where it will be when the call has ratcheted.
  * `InFlight`: of each message on its way, that every copy of the receiver can open it when it
    listens to its ratchet key (`Opens`: its key is ahead in the chain or in the cache), or else
    that it is under the sender's present key and carries its key (`Current`); and that messages
    under the present key are the latest (`InOrder`), so that a ratchet step of the receiver
    leaves nothing behind which it could have opened.
  * `SetUpRight`: the set-up message says how Alice's first root key was made, with or without the
    one-time pre-key, so that Bob derives the same.
  * `Agreed`: a decrypt under way has the message's own key, or one of the two errors.
  `ReceiveAgrees` shows what `Receive` does under these conditions, and is the heart of the proof.

Only model-checked: `Chat`, which has a counterexample run only, and liveness (`EveryMessageSettles`, `ClosedSocketsLeave`, `Reconnects`), which this
prover does not cover. Every invariant and every other action property of the passing
runs is stated by a theorem.

## 5. Not modelled

PROJECT.json gives the reason for each component. In short: profile updates and
the audit log (one statement, no interaction), cryptographic arithmetic (symbolic
here), rendering, start-up, static files, and all of `app.html`, the page that the repository's
README (290-295) calls the live client: its socket, storage and offline queue are its own. Payload contents and sizes are abstracted to
"may be refused". Time is abstracted: a challenge token may expire at any moment, the
authentication timeout is one of the reasons of `Reject`.

In the browser: rendering, emoji, message bubbles, the profile dialog
(`handleProfileSave` of `Sidebar.tsx` has no caller), the device and audit lists and
the count of remaining codes in the security panel, the OAuth buttons, push
notifications and background sync. The presence event is left out of `WebClient`: it
updates what a contact shows and nothing else. Taking single backup codes is in
`TwoFactor`, not in `Account`, where a set is valid or not. `WebClient` lets the block
button be pressed for any contact, also when no chat is open, and `Chat` changes
its contacts freely: both allow more than the code does.

Observations outside the runs, recorded as hazards or in the comments of the
properties that leave the case out:

* a receipt is sent for a message that a dead socket then loses (`router.rs` 334-363), and
  the echo that follows a receipt takes the tick back (`router.rs` 334-337 says that the
  receipt upgrades the bubble);
* a page refresh whose old cleanup overlaps the new registration leaves a connected user
  without a presence entry (`presence.rs` 2: "tracks which users are connected");
* overlapping `encrypt` calls use one key for two messages (`session.ts` 138-182; ROADMAP.md 63
  says "Keys rotate per message"): `KeyPerMessage` without its condition fails as soon as
  `MaxOverlaps` is not 0; the skipped-key cache has no bound (`session.ts` 268);
* a failure between the two statements of `totp_confirm` leaves 2FA on without backup codes
  (`auth.rs` 1328); overlapping regenerations leave two sets of codes (`db.rs` 749);
* `count_roster` and `list_contact_roster` differ after a block or two crossed requests
  (`db.rs` 990-992 says that they match);
* the worker answers API GETs from its cache first (`sw.js` 78-94), while `sw.js` 2 says
  "network-first for API calls";
* `logout` leaves the other stores as they are, and close code 4001 signs out whichever
  session is in the store by then (`authStore.ts` 42, `useSocket.ts` 279);
* a text or attachment is shown as sent when `send` had no open socket for it (`useSocket.ts` 34,
  `chatStore.ts` 75-128), and text typed while an attachment is read is cleared with it
  (`ChatWindow.tsx` 166);
* `SecuritySettings.tsx` 157-159 takes the body of a failed status for the account's state;
* the server has no ping, read timeout or keepalive: a user whose network vanished stays
  connected (`router.rs` 378);
* the add dialog reports a request as sent also when `send` dropped it (`Sidebar.tsx` 152);
* live messages can enter a new connection's channel before older queued ones
  (`router.rs` 250), and a message that is queued just after the addressee's drain waits
  for the next connection (`router.rs` 963);
* `buddy_cap` is that of the user row read at connect (`router.rs` 452); a cancellation
  without a transaction id is taken for a replay of its subscription (`bmac.rs` 105); the
  rate limiter lets two full windows pass next to each other (`ratelimit.rs` 45);
* the hook reads `userId` from a presence event that carries `user_id` (`useSocket.ts` 136,
  `router.rs` 1038).

## 6. Plan

In order of importance:

1. Delivery: an abstract specification (a message is offered, then received, refused or
   lost, and never twice) and `Relay` shown to implement it; the block check of the
   relay composed with `Contacts`.
2. `PreKeys`: devices and one-time pre-keys (`auth.rs` 1478-1668), each handed out once,
   under overlapping fetch, upload and revoke.
3. `Billing`: `bmac.rs` with retries, errors and crashes between record and apply, against
   the promise that each purchase takes effect exactly once.
4. Tests for the two disagreements about the ratchet and the two about the browser that the
   counterexample runs show, and the properties restated without their conditions once the code
   is changed.
