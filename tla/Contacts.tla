------------------------------ MODULE Contacts ------------------------------
(***************************************************************************)
(* Contact requests, blocks and the buddy cap: the add, accept, reject,    *)
(* block and unblock commands of handle_command (server/src/router.rs)     *)
(* over the contact_requests and blocks tables (server/src/db.rs).         *)
(*                                                                         *)
(* A command runs its statements one by one; commands of different         *)
(* connections, of one user or of several, interleave between them.        *)
(***************************************************************************)
EXTENDS Naturals, FiniteSets

CONSTANTS
    Users,      \* accounts
    Tasks,      \* receive loops that are running, one for every connection
    Owner,      \* Tasks -> Users
    Cap,        \* Users -> buddy_cap of the row read at connect; no cap: Cardinality(Users)
    Peers,      \* bound: Tasks -> the users that the connection's commands are about
    MayFail     \* TRUE: a statement inside a command may fail, or the server stop

ASSUME ContactsAssumption ==
    /\ IsFiniteSet(Users)
    /\ Owner \in [Tasks -> Users]
    /\ Cap \in [Users -> Nat]
    /\ Peers \in [Tasks -> SUBSET Users]
    /\ MayFail \in BOOLEAN

Pairs == {p \in Users \X Users : p[1] # p[2]}
Flip(p) == <<p[2], p[1]>>

VARIABLES
    req,        \* contact_requests: <<from, to>> -> its status, or "none"
    blocks,     \* blocks: pairs <<blocker, blocked>>
    job,        \* Tasks -> the command under way: its next statement, <<user, other>>
    crossed,    \* history: requests that a block did not clear
    overfull    \* history: users who accepted requests, or added in two tabs

vars == <<req, blocks, job, crossed, overfull>>

Stages == {"idle", "add", "request", "block", "clear"}

TypeOK ==
    /\ req \in [Pairs -> {"none", "pending", "accepted", "rejected"}]
    /\ blocks \subseteq Pairs
    /\ job \in [Tasks -> [stage : Stages, who : Pairs \cup {<<>>}]]
    /\ crossed \subseteq Pairs
    /\ overfull \subseteq Users

NoJob == [stage |-> "idle", who |-> <<>>]
Idle(t) == job[t] = NoJob

Init ==
    /\ req = [p \in Pairs |-> "none"]
    /\ blocks = {}
    /\ job = [t \in Tasks |-> NoJob]
    /\ crossed = {}
    /\ overfull = {}

-----------------------------------------------------------------------------
is_blocked_between(p) == p \in blocks \/ Flip(p) \in blocks

(***************************************************************************)
(* count_roster: whoever the user asked or accepted, each counted once.    *)
(***************************************************************************)
Buddies(u) ==
    {v \in Users \ {u} : \/ req[<<u, v>>] \in {"pending", "accepted"}
                         \/ req[<<v, u>>] = "accepted"}
count_roster(u) == Cardinality(Buddies(u))

Goto(t, p, from, to) ==
    /\ job[t] = [stage |-> from, who |-> p]
    /\ job' = [job EXCEPT ![t] = IF to = "idle" THEN NoJob ELSE [stage |-> to, who |-> p]]

Start(t, p, to) ==
    /\ Idle(t) /\ p[1] = Owner[t]
    /\ job' = [job EXCEPT ![t] = [stage |-> to, who |-> p]]

-----------------------------------------------------------------------------
(***************************************************************************)
(* A variant of AddContact that lets one buddy too many in.                *)
(***************************************************************************)
AddContactOffByOne(t, p) ==
    /\ count_roster(p[1]) <= Cap[p[1]]
    /\ Start(t, p, "add")
    /\ UNCHANGED <<req, blocks, crossed, overfull>>

(***************************************************************************)
(* add_contact: refused when the list is full; a second tab that adds at   *)
(* the same time has passed the same check.                                *)
(***************************************************************************)
AddContact(t, p) ==
    /\ count_roster(p[1]) < Cap[p[1]]
    /\ Start(t, p, "add")
    /\ overfull' = IF \E s \in Tasks \ {t} : /\ Owner[s] = p[1]
                                             /\ job[s].stage \in {"add", "request"}
                   THEN overfull \cup {p[1]} ELSE overfull
    /\ UNCHANGED <<req, blocks, crossed>>

AddChecksBlock(t, p) ==
    /\ Goto(t, p, "add", IF is_blocked_between(p) THEN "idle" ELSE "request")
    /\ UNCHANGED <<req, blocks, crossed, overfull>>

(***************************************************************************)
(* A variant of create_contact_request with its two users exchanged.       *)
(***************************************************************************)
create_contact_request_swapped(t, p) ==
    /\ Goto(t, p, "request", "idle")
    /\ req' = [req EXCEPT ![Flip(p)] = "pending"]
    /\ crossed' = IF is_blocked_between(p) THEN crossed \cup {Flip(p)} ELSE crossed
    /\ UNCHANGED <<blocks, overfull>>

(***************************************************************************)
(* The row is inserted, or set back to pending whatever it was.            *)
(***************************************************************************)
create_contact_request(t, p) ==
    /\ Goto(t, p, "request", "idle")
    /\ req' = [req EXCEPT ![p] = "pending"]
    /\ crossed' = IF is_blocked_between(p) THEN crossed \cup {p} ELSE crossed
    /\ UNCHANGED <<blocks, overfull>>

(***************************************************************************)
(* accept_contact_request and reject_contact_request: one UPDATE of a      *)
(* pending row addressed to the user.  Accepting asks neither the cap nor  *)
(* the blocks.                                                             *)
(***************************************************************************)
Answer(t, p, answer) ==
    /\ Idle(t) /\ p[2] = Owner[t] /\ req[p] = "pending"
    /\ req' = [req EXCEPT ![p] = answer]
    /\ crossed' = crossed \ {p}
    /\ overfull' = IF answer = "accepted" THEN overfull \cup {p[2]} ELSE overfull
    /\ UNCHANGED <<blocks, job>>

(***************************************************************************)
(* block_contact names a pending request to the user, block_user anybody.  *)
(***************************************************************************)
BlockContact(t, p) ==
    /\ req[Flip(p)] = "pending"
    /\ Start(t, p, "block")
    /\ UNCHANGED <<req, blocks, crossed, overfull>>

BlockUser(t, p) ==
    /\ Start(t, p, "block")
    /\ UNCHANGED <<req, blocks, crossed, overfull>>

create_block(t, p) ==
    /\ Goto(t, p, "block", "clear")
    /\ blocks' = blocks \cup {p}
    /\ UNCHANGED <<req, crossed, overfull>>

(***************************************************************************)
(* A variant of clear_pending that clears one direction.                   *)
(***************************************************************************)
clear_pending_one_way(t, p) ==
    /\ Goto(t, p, "clear", "idle")
    /\ req' = [req EXCEPT ![p] = IF @ = "pending" THEN "rejected" ELSE @]
    /\ crossed' = crossed \ {p}
    /\ UNCHANGED <<blocks, overfull>>

(***************************************************************************)
(* A variant of clear_pending that writes a status no other query knows.   *)
(***************************************************************************)
clear_pending_as_blocked(t, p) ==
    /\ Goto(t, p, "clear", "idle")
    /\ req' = [q \in Pairs |-> IF q \in {p, Flip(p)} /\ req[q] = "pending"
                               THEN "blocked" ELSE req[q]]
    /\ crossed' = crossed \ {p, Flip(p)}
    /\ UNCHANGED <<blocks, overfull>>

(***************************************************************************)
(* clear_pending_contact_requests_between.                                 *)
(***************************************************************************)
clear_pending(t, p) ==
    /\ Goto(t, p, "clear", "idle")
    /\ req' = [q \in Pairs |-> IF q \in {p, Flip(p)} /\ req[q] = "pending"
                               THEN "rejected" ELSE req[q]]
    /\ crossed' = crossed \ {p, Flip(p)}
    /\ UNCHANGED <<blocks, overfull>>

(***************************************************************************)
(* An error ends the command at the statement that failed; when that is    *)
(* the clean-up of a block it is only logged.  A server that stops has     *)
(* the same effect on the tables.                                          *)
(***************************************************************************)
Fails(t, p) ==
    /\ MayFail
    /\ job[t].who = p
    /\ job' = [job EXCEPT ![t] = NoJob]
    /\ crossed' = IF job[t].stage = "clear"
                  THEN crossed \cup {q \in {p, Flip(p)} : req[q] = "pending"}
                  ELSE crossed
    /\ UNCHANGED <<req, blocks, overfull>>

(***************************************************************************)
(* unblock_contact: the user's own block, not one by the other.            *)
(***************************************************************************)
remove_block(t, p) ==
    /\ Idle(t) /\ p[1] = Owner[t]
    /\ blocks' = blocks \ {p}
    /\ crossed' = {q \in crossed : q \in blocks' \/ Flip(q) \in blocks'}
    /\ UNCHANGED <<req, job, overfull>>

-----------------------------------------------------------------------------
Command(t, p) ==
    \/ AddContact(t, p) \/ AddChecksBlock(t, p) \/ create_contact_request(t, p)
    \/ Answer(t, p, "accepted") \/ Answer(t, p, "rejected")
    \/ BlockContact(t, p) \/ BlockUser(t, p) \/ create_block(t, p) \/ clear_pending(t, p)
    \/ remove_block(t, p) \/ Fails(t, p)

Between(t) == {p \in Pairs : {p[1], p[2]} \subseteq {Owner[t]} \cup Peers[t]}

Next == \E t \in Tasks : \E p \in Between(t) : Command(t, p)

Spec == Init /\ [][Next]_vars

-----------------------------------------------------------------------------
(***************************************************************************)
(* A block leaves no request open between the two users, in whichever      *)
(* order the commands of both came, except for a request whose block check *)
(* passed before the block, and for a clean-up that failed.                *)
(***************************************************************************)
Blocking(p) ==
    \E t \in Tasks : \E q \in {p, Flip(p)} : job[t] = [stage |-> "clear", who |-> q]

BlockedNotPending ==
    \A p \in Pairs :
        is_blocked_between(p) /\ req[p] = "pending" => p \in crossed \/ Blocking(p)

(***************************************************************************)
(* The cap check of add_contact keeps a roster within its cap for a user   *)
(* who adds from one tab at a time and never accepts a request, whatever   *)
(* the others answer, re-send or block in between.                         *)
(***************************************************************************)
CapKeptByAdds == \A u \in Users \ overfull : count_roster(u) <= Cap[u]

(***************************************************************************)
(* An answer stands against everybody but the asker: an accepted or        *)
(* rejected request changes only to pending, and only in the step in which *)
(* an add of the request's own sender reaches its insert.                  *)
(***************************************************************************)
AsksAgain(p) ==
    \E t \in Tasks : /\ Owner[t] = p[1]
                     /\ job[t] = [stage |-> "request", who |-> p]
                     /\ Idle(t)'

AnswersStand ==
    [][\A p \in Pairs :
          req[p] \in {"accepted", "rejected"} =>
              \/ req'[p] = req[p]
              \/ req'[p] = "pending" /\ AsksAgain(p)]_vars
=============================================================================
