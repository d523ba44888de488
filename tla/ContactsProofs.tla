--------------------------- MODULE ContactsProofs ---------------------------
(***************************************************************************)
(* Proofs about Contacts, for any users, connections and caps.             *)
(*                                                                         *)
(* BlockedNotPending is inductive together with the types: an open request *)
(* between blocked users is excused by a clean-up that is still to come or *)
(* by the history in crossed, and each step that takes the one excuse away *)
(* (clear_pending, Fails) closes the request or leaves the other.          *)
(*                                                                         *)
(* CapKeptByAdds is not inductive: that an insert keeps the cap depends on *)
(* the count made two statements earlier.  CapInv adds that this count     *)
(* still has room (RoomKept), which needs that a user outside overfull has *)
(* one add under way at most (OneAdder), for a pair of its own (OwnJobs).  *)
(***************************************************************************)
EXTENDS Contacts, FiniteSetTheorems, TLAPS

BlockInv == TypeOK /\ BlockedNotPending

Adding(t) == job[t].stage \in {"add", "request"}

OwnJobs == \A t \in Tasks : ~ Idle(t) => job[t].who \in Pairs /\ job[t].who[1] = Owner[t]

OneAdder ==
    \A s, t \in Tasks :
        Owner[s] = Owner[t] /\ Owner[t] \notin overfull /\ Adding(s) /\ Adding(t) => s = t

RoomKept ==
    \A t \in Tasks :
        Owner[t] \notin overfull /\ Adding(t) => count_roster(Owner[t]) < Cap[Owner[t]]

CapInv == TypeOK /\ OwnJobs /\ OneAdder /\ RoomKept /\ CapKeptByAdds

(***************************************************************************)
(* The two directions of a pair of users.                                  *)
(***************************************************************************)
LEMMA FlipPairs == \A p \in Pairs : Flip(p) \in Pairs /\ Flip(Flip(p)) = p
BY DEF Pairs, Flip

(***************************************************************************)
(* The position of a connection in its command stays one of the stages.    *)
(***************************************************************************)
LEMMA JobType ==
  ASSUME TypeOK, NEW t \in Tasks, NEW p \in Pairs, NEW from \in Stages, NEW to \in Stages,
         Goto(t, p, from, to) \/ Start(t, p, to)
  PROVE  job' \in [Tasks -> [stage : Stages, who : Pairs \cup {<<>>}]]
<1>1. NoJob \in [stage : Stages, who : Pairs \cup {<<>>}] BY DEF NoJob, Stages
<1>2. [stage |-> to, who |-> p] \in [stage : Stages, who : Pairs \cup {<<>>}] OBVIOUS
<1> QED BY <1>1, <1>2 DEF TypeOK, Goto, Start

(***************************************************************************)
(* Every statement of every contact command keeps the types.               *)
(***************************************************************************)
LEMMA TypeStep == TypeOK /\ [Next]_vars => TypeOK'
<1> SUFFICES ASSUME TypeOK, [Next]_vars PROVE TypeOK'
  OBVIOUS
<1>1. ASSUME NEW t \in Tasks, NEW p \in Pairs, Command(t, p) PROVE TypeOK'
  <2>s. {"idle", "add", "request", "block", "clear"} = Stages BY DEF Stages
  <2>o. Owner \in [Tasks -> Users] /\ p[1] \in Users /\ p[2] \in Users
    BY ContactsAssumption DEF Pairs
  <2>f. Flip(p) \in Pairs BY FlipPairs
  <2>1. CASE AddContact(t, p)
    <3>1. job' \in [Tasks -> [stage : Stages, who : Pairs \cup {<<>>}]]
      BY <2>1, <2>s, JobType DEF AddContact
    <3> QED BY <2>1, <2>o, <3>1 DEF AddContact, TypeOK
  <2>2. CASE AddChecksBlock(t, p)
    <3>1. job' \in [Tasks -> [stage : Stages, who : Pairs \cup {<<>>}]]
      BY <2>2, <2>s, JobType DEF AddChecksBlock
    <3> QED BY <2>2, <3>1 DEF AddChecksBlock, TypeOK
  <2>3. CASE create_contact_request(t, p)
    <3>1. job' \in [Tasks -> [stage : Stages, who : Pairs \cup {<<>>}]]
      BY <2>3, <2>s, JobType DEF create_contact_request
    <3> QED BY <2>3, <3>1 DEF create_contact_request, TypeOK
  <2>4. ASSUME NEW answer \in {"accepted", "rejected"}, Answer(t, p, answer)
        PROVE TypeOK'
    BY <2>4, <2>o DEF Answer, TypeOK
  <2>5. CASE BlockContact(t, p) \/ BlockUser(t, p)
    <3>1. job' \in [Tasks -> [stage : Stages, who : Pairs \cup {<<>>}]]
      BY <2>5, <2>s, JobType DEF BlockContact, BlockUser
    <3> QED BY <2>5, <3>1 DEF BlockContact, BlockUser, TypeOK
  <2>6. CASE create_block(t, p)
    <3>1. job' \in [Tasks -> [stage : Stages, who : Pairs \cup {<<>>}]]
      BY <2>6, <2>s, JobType DEF create_block
    <3> QED BY <2>6, <3>1 DEF create_block, TypeOK
  <2>7. CASE clear_pending(t, p)
    <3>1. job' \in [Tasks -> [stage : Stages, who : Pairs \cup {<<>>}]]
      BY <2>7, <2>s, JobType DEF clear_pending
    <3> QED BY <2>7, <3>1 DEF clear_pending, TypeOK
  <2>8. CASE remove_block(t, p)
    BY <2>8 DEF remove_block, TypeOK
  <2>9. CASE Fails(t, p)
    <3>1. NoJob \in [stage : Stages, who : Pairs \cup {<<>>}] BY DEF NoJob, Stages
    <3>2. crossed' \subseteq Pairs BY <2>9, <2>f DEF Fails, TypeOK
    <3> QED BY <2>9, <3>1, <3>2 DEF Fails, TypeOK
  <2> QED BY <1>1, <2>1, <2>2, <2>3, <2>4, <2>5, <2>6, <2>7, <2>8, <2>9 DEF Command
<1>2. CASE UNCHANGED vars BY <1>2 DEF vars, TypeOK
<1> QED BY <1>1, <1>2 DEF Next, Between

(***************************************************************************)
(* Every statement of every contact command keeps BlockedNotPending.       *)
(***************************************************************************)
LEMMA BlockStep == BlockInv /\ [Next]_vars => BlockInv'
<1> SUFFICES ASSUME BlockInv, [Next]_vars PROVE BlockedNotPending'
  BY TypeStep DEF BlockInv
<1> USE DEF BlockInv
<1>1. ASSUME NEW t \in Tasks, NEW p \in Pairs, Command(t, p),
             NEW q \in Pairs, is_blocked_between(q)', req'[q] = "pending",
             q \notin crossed'
      PROVE  Blocking(q)'
  <2>0. /\ Flip(p) \in Pairs /\ Flip(Flip(p)) = p
        /\ Flip(q) \in Pairs /\ Flip(Flip(q)) = q
    BY FlipPairs
  \* What the invariant gives for q before the step.
  <2>b. is_blocked_between(q) /\ req[q] = "pending" /\ q \notin crossed =>
          \E s \in Tasks : \E x \in {q, Flip(q)} : job[s] = [stage |-> "clear", who |-> x]
    BY DEF BlockedNotPending, Blocking
  \* Whoever was cleaning up still is, if it is not t.
  <2>k. ASSUME NEW s \in Tasks, NEW x \in {q, Flip(q)},
               job[s] = [stage |-> "clear", who |-> x], job'[s] = job[s]
        PROVE  Blocking(q)'
    BY <2>k DEF Blocking
  <2>1. CASE AddContact(t, p) \/ BlockContact(t, p) \/ BlockUser(t, p)
    <3>1. PICK s \in Tasks, x \in {q, Flip(q)} : job[s] = [stage |-> "clear", who |-> x]
      BY <1>1, <2>1, <2>b DEF AddContact, BlockContact, BlockUser, is_blocked_between
    <3>2. job'[s] = job[s]
      BY <2>1, <3>1 DEF AddContact, BlockContact, BlockUser, Start, Idle, NoJob, TypeOK
    <3> QED BY <2>k, <3>1, <3>2
  <2>2. CASE AddChecksBlock(t, p)
    <3>1. PICK s \in Tasks, x \in {q, Flip(q)} : job[s] = [stage |-> "clear", who |-> x]
      BY <1>1, <2>2, <2>b DEF AddChecksBlock, is_blocked_between
    <3>2. job'[s] = job[s] BY <2>2, <3>1 DEF AddChecksBlock, Goto, TypeOK
    <3> QED BY <2>k, <3>1, <3>2
  <2>3. CASE create_contact_request(t, p)
    <3>1. q # p
      BY <1>1, <2>3 DEF create_contact_request, is_blocked_between
    <3>2. PICK s \in Tasks, x \in {q, Flip(q)} : job[s] = [stage |-> "clear", who |-> x]
      <4>1. req[q] = "pending" BY <1>1, <2>3, <3>1 DEF create_contact_request, TypeOK
      <4>2. q \notin crossed BY <1>1, <2>3 DEF create_contact_request
      <4>3. is_blocked_between(q) BY <1>1, <2>3 DEF create_contact_request, is_blocked_between
      <4> QED BY <2>b, <4>1, <4>2, <4>3
    <3>3. job'[s] = job[s] BY <2>3, <3>2 DEF create_contact_request, Goto, TypeOK
    <3> QED BY <2>k, <3>2, <3>3
  <2>4. ASSUME NEW answer \in {"accepted", "rejected"}, Answer(t, p, answer)
        PROVE Blocking(q)'
    <3>1. q # p /\ req[q] = "pending" BY <1>1, <2>4 DEF Answer, TypeOK
    <3>2. q \notin crossed BY <1>1, <2>4, <3>1 DEF Answer
    <3>3. is_blocked_between(q) BY <1>1, <2>4 DEF Answer, is_blocked_between
    <3> QED BY <2>4, <2>b, <2>k, <3>1, <3>2, <3>3 DEF Answer
  <2>5. CASE create_block(t, p)
    <3>1. CASE q = p \/ q = Flip(p)
      <4>1. job'[t] = [stage |-> "clear", who |-> p]
        BY <2>5 DEF create_block, Goto, TypeOK
      <4>2. p \in {q, Flip(q)} BY <2>0, <3>1
      <4> QED BY <4>1, <4>2 DEF Blocking
    <3>2. CASE q # p /\ q # Flip(p)
      <4>1. is_blocked_between(q)
        BY <1>1, <2>5, <2>0, <3>2 DEF create_block, is_blocked_between
      <4>2. PICK s \in Tasks, x \in {q, Flip(q)} : job[s] = [stage |-> "clear", who |-> x]
        BY <1>1, <2>5, <2>b, <4>1 DEF create_block
      <4>3. job'[s] = job[s] BY <2>5, <4>2 DEF create_block, Goto, TypeOK
      <4> QED BY <2>k, <4>2, <4>3
    <3> QED BY <3>1, <3>2
  <2>6. CASE clear_pending(t, p)
    <3>1. q # p /\ q # Flip(p) BY <1>1, <2>6 DEF clear_pending, TypeOK
    <3>2. req[q] = "pending" BY <1>1, <2>6, <3>1 DEF clear_pending
    <3>3. q \notin crossed BY <1>1, <2>6, <3>1 DEF clear_pending
    <3>4. is_blocked_between(q) BY <1>1, <2>6 DEF clear_pending, is_blocked_between
    <3>5. PICK s \in Tasks, x \in {q, Flip(q)} : job[s] = [stage |-> "clear", who |-> x]
      BY <2>b, <3>2, <3>3, <3>4
    <3>6. s # t
      <4>1. x # p BY <2>0, <3>1
      <4> QED BY <2>6, <3>5, <4>1 DEF clear_pending, Goto
    <3>7. job'[s] = job[s] BY <2>6, <3>6 DEF clear_pending, Goto, TypeOK
    <3> QED BY <2>k, <3>5, <3>7
  <2>7. CASE remove_block(t, p)
    <3>1. is_blocked_between(q) /\ q \notin crossed
      BY <1>1, <2>7 DEF remove_block, is_blocked_between
    <3> QED BY <1>1, <2>7, <2>b, <2>k, <3>1 DEF remove_block
  <2>8. CASE Fails(t, p)
    <3>1. PICK s \in Tasks, x \in {q, Flip(q)} : job[s] = [stage |-> "clear", who |-> x]
      <4>1. q \notin crossed BY <1>1, <2>8 DEF Fails
      <4>2. req[q] = "pending" /\ is_blocked_between(q)
        BY <1>1, <2>8 DEF Fails, is_blocked_between
      <4> QED BY <2>b, <4>1, <4>2
    <3>2. s # t
      <4>1. SUFFICES ASSUME s = t PROVE FALSE OBVIOUS
      <4>2. job[t].stage = "clear" /\ x = p BY <2>8, <3>1, <4>1 DEF Fails
      <4>3. q \in {p, Flip(p)} BY <2>0, <4>2
      <4>4. req[q] = "pending" BY <1>1, <2>8 DEF Fails
      <4> QED BY <1>1, <2>8, <4>2, <4>3, <4>4 DEF Fails
    <3>3. job'[s] = job[s] BY <2>8, <3>2 DEF Fails, TypeOK
    <3> QED BY <2>k, <3>1, <3>3
  <2> QED BY <1>1, <2>1, <2>2, <2>3, <2>4, <2>5, <2>6, <2>7, <2>8 DEF Command
<1>2. CASE UNCHANGED vars
  BY <1>2 DEF vars, BlockedNotPending, Blocking, is_blocked_between
<1>3. CASE Next
  <2>1. PICK t \in Tasks, p \in Pairs : Command(t, p) BY <1>3 DEF Next, Between
  <2> QED BY <1>1, <2>1 DEF BlockedNotPending
<1> QED BY <1>2, <1>3

-----------------------------------------------------------------------------
(***************************************************************************)
(* Without requests and blocks the invariant holds.                        *)
(***************************************************************************)
LEMMA InitInv == Init => BlockInv
<1> SUFFICES ASSUME Init PROVE BlockInv
  OBVIOUS
<1>1. NoJob \in [stage : Stages, who : Pairs \cup {<<>>}] BY DEF NoJob, Stages
<1>2. TypeOK BY <1>1 DEF Init, TypeOK
<1>3. BlockedNotPending BY DEF Init, BlockedNotPending, is_blocked_between
<1> QED BY <1>2, <1>3 DEF BlockInv

(***************************************************************************)
(* Rows, blocks and the commands under way keep their types (router.rs     *)
(* 425-771).                                                               *)
(***************************************************************************)
THEOREM ContactTypes == Spec => []TypeOK
<1>1. Init => TypeOK BY InitInv DEF BlockInv
<1> QED BY <1>1, TypeStep, PTL DEF Spec

(***************************************************************************)
(* However the commands of two users interleave, a block leaves no request *)
(* open between them, but for requests that had passed their block check   *)
(* and clean-ups that failed (router.rs 472-688, db.rs 580-596).           *)
(***************************************************************************)
THEOREM BlocksCloseRequests == Spec => []BlockedNotPending
<1>1. BlockInv => BlockedNotPending BY DEF BlockInv
<1> QED BY InitInv, BlockStep, <1>1, PTL DEF Spec

-----------------------------------------------------------------------------
(***************************************************************************)
(* A roster is finite; a smaller one has a smaller count, and one more     *)
(* buddy adds one at most.                                                 *)
(***************************************************************************)
LEMMA RosterSizes ==
  ASSUME NEW u \in Users
  PROVE  /\ count_roster(u) \in Nat /\ count_roster(u)' \in Nat
         /\ Buddies(u)' \subseteq Buddies(u) => count_roster(u)' <= count_roster(u)
         /\ \A v : Buddies(u)' \subseteq Buddies(u) \cup {v} =>
                     count_roster(u)' <= count_roster(u) + 1
<1> DEFINE B == Buddies(u)
           C == Buddies(u)'
<1>1. IsFiniteSet(B) /\ IsFiniteSet(C)
  <2>1. B \subseteq Users /\ C \subseteq Users BY DEF Buddies
  <2> QED BY <2>1, ContactsAssumption, FS_Subset
<1>2. count_roster(u) = Cardinality(B) /\ count_roster(u)' = Cardinality(C)
  BY DEF count_roster
<1>3. Cardinality(B) \in Nat /\ Cardinality(C) \in Nat
  BY <1>1, FS_CardinalityType
<1> HIDE DEF B, C
<1>4. C \subseteq B => Cardinality(C) <= Cardinality(B)
  BY <1>1, FS_Subset
<1>5. ASSUME NEW v, C \subseteq B \cup {v} PROVE Cardinality(C) <= Cardinality(B) + 1
  <2>1. IsFiniteSet(B \cup {v}) /\ Cardinality(B \cup {v}) <= Cardinality(B) + 1
    <3>1. /\ IsFiniteSet(B \cup {v})
          /\ Cardinality(B \cup {v}) = IF v \in B THEN Cardinality(B) ELSE Cardinality(B) + 1
      BY <1>1, FS_AddElement, Zenon
    <3> QED BY <1>3, <3>1
  <2>2. Cardinality(C) <= Cardinality(B \cup {v})
    BY <1>5, <2>1, FS_Subset
  <2>3. Cardinality(B \cup {v}) \in Nat BY <2>1, FS_CardinalityType
  <2> QED BY <1>3, <2>1, <2>2, <2>3
<1> QED BY <1>2, <1>3, <1>4, <1>5 DEF B, C

(***************************************************************************)
(* A roster grows only by an insert of its owner's add, or by its owner's  *)
(* accept, which overfull records.                                         *)
(***************************************************************************)
LEMMA RosterGrowth ==
  ASSUME TypeOK, NEW t \in Tasks, NEW p \in Pairs, Command(t, p),
         NEW u \in Users, u \notin overfull'
  PROVE  \/ Buddies(u)' \subseteq Buddies(u)
         \/ /\ create_contact_request(t, p) /\ u = p[1]
            /\ Buddies(u)' \subseteq Buddies(u) \cup {p[2]}
<1>0. \A v \in Users \ {u} : <<u, v>> \in Pairs /\ <<v, u>> \in Pairs
  BY DEF Pairs
<1>p. p = <<p[1], p[2]>> /\ p[1] \in Users /\ p[2] \in Users BY DEF Pairs
<1>1. CASE UNCHANGED req
  BY <1>1 DEF Buddies
<1>2. CASE create_contact_request(t, p)
  <2>1. \A v \in Users \ {u} : /\ <<u, v>> # p => req'[<<u, v>>] = req[<<u, v>>]
                               /\ req'[<<v, u>>] = "accepted" => req[<<v, u>>] = "accepted"
    BY <1>0, <1>2 DEF create_contact_request, TypeOK
  <2>2. \A v : <<u, v>> = p => u = p[1] /\ v = p[2] OBVIOUS
  <2>3. CASE u = p[1]
    <3>1. Buddies(u)' \subseteq Buddies(u) \cup {p[2]} BY <2>1, <2>2 DEF Buddies
    <3> QED BY <1>2, <2>3, <3>1
  <2>4. CASE u # p[1]
    BY <2>1, <2>2, <2>4 DEF Buddies
  <2> QED BY <2>3, <2>4
<1>3. ASSUME NEW answer \in {"accepted", "rejected"}, Answer(t, p, answer)
      PROVE Buddies(u)' \subseteq Buddies(u)
  <2>1. req[p] = "pending" /\ req' = [req EXCEPT ![p] = answer] BY <1>3 DEF Answer
  <2>2. answer = "accepted" => u # p[2] BY <1>3 DEF Answer
  <2>3. \A v \in Users \ {u} :
           /\ req'[<<u, v>>] \in {"pending", "accepted"} =>
                 req[<<u, v>>] \in {"pending", "accepted"}
           /\ req'[<<v, u>>] = "accepted" => req[<<v, u>>] = "accepted"
    <3> SUFFICES ASSUME NEW v \in Users \ {u}
                 PROVE  /\ req'[<<u, v>>] \in {"pending", "accepted"} =>
                              req[<<u, v>>] \in {"pending", "accepted"}
                        /\ req'[<<v, u>>] = "accepted" => req[<<v, u>>] = "accepted"
      OBVIOUS
    <3>1. <<v, u>> = p => u = p[2] OBVIOUS
    <3> QED BY <1>0, <2>1, <2>2, <3>1 DEF TypeOK
  <2> QED BY <2>3 DEF Buddies
<1>4. CASE clear_pending(t, p)
  <2>1. \A q \in Pairs : req'[q] \in {req[q], "rejected"} BY <1>4 DEF clear_pending, TypeOK
  <2> QED BY <1>0, <2>1 DEF Buddies
<1> QED
  BY <1>1, <1>2, <1>3, <1>4
  DEF Command, AddContact, AddChecksBlock, BlockContact, BlockUser, create_block,
      remove_block, Fails

(***************************************************************************)
(* Every statement of every contact command keeps CapInv.                  *)
(***************************************************************************)
LEMMA CapStep == CapInv /\ [Next]_vars => CapInv'
<1> SUFFICES ASSUME CapInv, [Next]_vars PROVE CapInv'
  OBVIOUS
<1> USE DEF CapInv
<1>t. TypeOK' BY TypeStep
<1>c. \A u \in Users : Cap[u] \in Nat BY ContactsAssumption
<1>o. \A t \in Tasks : Owner[t] \in Users BY ContactsAssumption
<1>1. ASSUME NEW t \in Tasks, NEW p \in Pairs, Command(t, p)
      PROVE  (OwnJobs /\ OneAdder /\ RoomKept /\ CapKeptByAdds)'
  \* A step changes the job of t alone, and forgets no overfull user.
  <2>1. \A s \in Tasks \ {t} : job'[s] = job[s]
    BY <1>1 DEF Command, AddContact, AddChecksBlock, create_contact_request, Answer,
       BlockContact, BlockUser, create_block, clear_pending, remove_block, Fails,
       Goto, Start, TypeOK
  <2>2. overfull \subseteq overfull'
    BY <1>1 DEF Command, AddContact, AddChecksBlock, create_contact_request, Answer,
       BlockContact, BlockUser, create_block, clear_pending, remove_block, Fails
  <2>3. \/ job'[t] = job[t] \/ job'[t] = NoJob
        \/ /\ job'[t].who = p /\ p[1] = Owner[t]
           /\ Adding(t)' => Adding(t) \/ AddContact(t, p)
    BY <1>1
    DEF Command, AddContact, AddChecksBlock, create_contact_request, Answer,
        BlockContact, BlockUser, create_block, clear_pending, remove_block, Fails,
        Goto, Start, TypeOK, OwnJobs, Idle, NoJob, Adding
  <2>4. OwnJobs'
    BY <2>1, <2>3 DEF OwnJobs, Idle
  <2>5. Adding(t)' => Adding(t) \/ AddContact(t, p)
    BY <2>3 DEF Adding, NoJob
  <2>6. \A s \in Tasks : s # t => (Adding(s)' <=> Adding(s))
    BY <2>1 DEF Adding
  <2>7. ASSUME AddContact(t, p), Owner[t] \notin overfull', NEW s \in Tasks \ {t},
               Owner[s] = Owner[t]
        PROVE  ~ Adding(s)
    <3>1. p[1] = Owner[t] BY <2>7 DEF AddContact, Start
    <3> QED BY <2>7, <3>1 DEF AddContact, Adding
  <2>8. OneAdder'
    BY <2>2, <2>5, <2>6, <2>7 DEF OneAdder
  <2>9. RoomKept'
    <3> SUFFICES ASSUME NEW s \in Tasks, Owner[s] \notin overfull', Adding(s)'
                 PROVE  count_roster(Owner[s])' < Cap[Owner[s]]
      BY DEF RoomKept
    <3> DEFINE u == Owner[s]
    <3>1. u \in Users /\ u \notin overfull BY <1>o, <2>2
    <3>2. CASE Adding(s)
      <4>1. count_roster(u) < Cap[u] BY <3>1, <3>2 DEF RoomKept
      <4>2. Buddies(u)' \subseteq Buddies(u)
        <5>1. SUFFICES ASSUME create_contact_request(t, p), u = p[1] PROVE FALSE
          BY <1>1, <3>1, RosterGrowth
        <5>2. Adding(t) /\ ~ Idle(t) /\ job[t].who = p
          BY <5>1 DEF create_contact_request, Goto, Adding, Idle, NoJob
        <5>3. Owner[t] = u BY <5>1, <5>2 DEF OwnJobs
        <5>4. s = t BY <3>1, <3>2, <5>2, <5>3 DEF OneAdder
        <5>5. job'[t] = NoJob BY <5>1 DEF create_contact_request, Goto, TypeOK
        <5> QED BY <5>4, <5>5 DEF Adding, NoJob
      <4> QED BY <1>c, <3>1, <4>1, <4>2, RosterSizes
    <3>3. CASE ~ Adding(s)
      <4>1. s = t /\ AddContact(t, p) BY <2>5, <2>6, <3>3
      <4>2. p[1] = u /\ count_roster(u) < Cap[u] BY <4>1 DEF AddContact, Start
      <4>3. count_roster(u)' = count_roster(u)
        BY <4>1 DEF AddContact, count_roster, Buddies
      <4> QED BY <4>2, <4>3
    <3> QED BY <3>2, <3>3
  <2>10. CapKeptByAdds'
    <3> SUFFICES ASSUME NEW u \in Users, u \notin overfull'
                 PROVE  count_roster(u)' <= Cap[u]
      BY DEF CapKeptByAdds
    <3>1. u \notin overfull /\ count_roster(u) <= Cap[u] BY <2>2 DEF CapKeptByAdds
    <3>2. CASE Buddies(u)' \subseteq Buddies(u)
      BY <1>c, <3>1, <3>2, RosterSizes
    <3>3. CASE create_contact_request(t, p) /\ u = p[1]
               /\ Buddies(u)' \subseteq Buddies(u) \cup {p[2]}
      <4>1. Adding(t) /\ ~ Idle(t) /\ job[t].who = p
        BY <3>3 DEF create_contact_request, Goto, Adding, Idle, NoJob
      <4>2. Owner[t] = u BY <3>3, <4>1 DEF OwnJobs
      <4>3. count_roster(u) < Cap[u] BY <3>1, <4>1, <4>2 DEF RoomKept
      <4> QED BY <1>c, <3>3, <4>3, RosterSizes
    <3> QED BY <1>1, <3>2, <3>3, RosterGrowth
  <2> QED BY <2>4, <2>8, <2>9, <2>10
<1>2. CASE UNCHANGED vars
  BY <1>2 DEF vars, TypeOK, OwnJobs, OneAdder, RoomKept, CapKeptByAdds, Adding, Idle,
     count_roster, Buddies
<1>3. CASE Next
  <2>1. PICK t \in Tasks, p \in Pairs : Command(t, p) BY <1>3 DEF Next, Between
  <2> QED BY <1>t, <1>1, <2>1
<1> QED BY <1>2, <1>3

(***************************************************************************)
(* Empty rosters are within any cap.                                       *)
(***************************************************************************)
LEMMA CapInit == Init => CapInv
<1> SUFFICES ASSUME Init PROVE CapInv
  OBVIOUS
<1>1. TypeOK BY InitInv DEF BlockInv
<1>2. \A t \in Tasks : Idle(t) /\ ~ Adding(t) BY DEF Init, Idle, Adding, NoJob
<1>3. CapKeptByAdds
  <2> SUFFICES ASSUME NEW u \in Users PROVE count_roster(u) <= Cap[u]
    BY DEF CapKeptByAdds
  <2>1. Buddies(u) = {} BY DEF Init, Buddies, Pairs
  <2>2. count_roster(u) = 0 BY <2>1, FS_EmptySet DEF count_roster
  <2> QED BY <2>2, ContactsAssumption
<1> QED BY <1>1, <1>2, <1>3 DEF CapInv, OwnJobs, OneAdder, RoomKept

(***************************************************************************)
(* For any cap and any number of users and tabs, add_contact keeps the     *)
(* roster of a user within the cap unless the user accepted a request or   *)
(* added from two tabs at once (router.rs 449-528).                        *)
(***************************************************************************)
THEOREM AddsKeepCap == Spec => []CapKeptByAdds
<1>1. CapInv => CapKeptByAdds BY DEF CapInv
<1> QED BY CapInit, CapStep, <1>1, PTL DEF Spec

-----------------------------------------------------------------------------
(***************************************************************************)
(* Only an add of its own sender undoes an answer: the UPDATEs of accept,  *)
(* reject and clear ask for a pending row (db.rs 495-529, 580-596), and    *)
(* the insert that resets a row is for the connection's own user (router.rs*)
(* 506, db.rs 478-493), which takes that a command keeps its user between  *)
(* its statements (OwnJobs).                                               *)
(***************************************************************************)
THEOREM AnswersAreFinal == Spec => AnswersStand
<1> DEFINE AllStand ==
              \A p \in Pairs :
                  req[p] \in {"accepted", "rejected"} =>
                      \/ req'[p] = req[p]
                      \/ req'[p] = "pending" /\ AsksAgain(p)
<1>1. CapInv /\ [Next]_vars => [AllStand]_vars
  <2> SUFFICES ASSUME CapInv, Next, NEW q \in Pairs, req[q] \in {"accepted", "rejected"}
               PROVE  \/ req'[q] = req[q]
                      \/ req'[q] = "pending" /\ AsksAgain(q)
    BY DEF AllStand
  <2>1. PICK t \in Tasks, p \in Pairs : Command(t, p) BY DEF Next, Between
  <2>2. CASE UNCHANGED req BY <2>2
  <2>3. ASSUME NEW answer, Answer(t, p, answer) PROVE req'[q] = req[q]
    BY <2>3 DEF Answer, CapInv, TypeOK
  <2>4. CASE clear_pending(t, p) BY <2>4 DEF clear_pending, CapInv, TypeOK
  <2>5. CASE create_contact_request(t, p)
    <3>1. CASE q # p BY <2>5, <3>1 DEF create_contact_request, CapInv, TypeOK
    <3>2. CASE q = p
      <4>1. /\ job[t] = [stage |-> "request", who |-> p] /\ job'[t] = NoJob
            /\ req'[p] = "pending"
        BY <2>5 DEF create_contact_request, Goto, CapInv, TypeOK
      <4>2. p[1] = Owner[t] BY <4>1 DEF CapInv, OwnJobs, Idle, NoJob
      <4> QED BY <3>2, <4>1, <4>2 DEF AsksAgain, Idle
    <3> QED BY <3>1, <3>2
  <2> QED BY <2>1, <2>2, <2>3, <2>4, <2>5
          DEF Command, AddContact, AddChecksBlock, BlockContact, BlockUser, create_block,
              remove_block, Fails
<1> QED BY CapInit, CapStep, <1>1, PTL DEF Spec, AnswersStand
=============================================================================
