------------------------------ MODULE OneTime -------------------------------
(***************************************************************************)
(* What the account system promises of everything that may be used once: a *)
(* recovery code, a challenge token.  An item is issued once, is live      *)
(* until it is used or withdrawn, and never comes back.                    *)
(***************************************************************************)
EXTENDS Naturals

CONSTANT Items

VARIABLES
    state,   \* Items -> how far the item is
    uses     \* Items -> how often it let somebody through

vars == <<state, uses>>

Init ==
    /\ state = [i \in Items |-> "unissued"]
    /\ uses = [i \in Items |-> 0]

Use(i) ==
    /\ state[i] = "live"
    /\ state' = [state EXCEPT ![i] = "spent"]
    /\ uses' = [uses EXCEPT ![i] = @ + 1]

(***************************************************************************)
(* Items are issued and withdrawn, any number at once.                     *)
(***************************************************************************)
Moves == {<<"unissued", "live">>, <<"unissued", "void">>, <<"live", "void">>}

Replace ==
    /\ \A i \in Items : state'[i] = state[i] \/ <<state[i], state'[i]>> \in Moves
    /\ UNCHANGED uses

Next == Replace \/ \E i \in Items : Use(i)

Spec == Init /\ [][Next]_vars
=============================================================================
