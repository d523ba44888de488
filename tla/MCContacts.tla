---------------------------- MODULE MCContacts ------------------------------
(***************************************************************************)
(* Small instances of Contacts for TLC: ann has two tabs open.             *)
(***************************************************************************)
EXTENDS Contacts, TLC

CONSTANTS ann, bea, cal, t1, t2, t3

MCOwner == (t1 :> ann) @@ (t2 :> ann) @@ (t3 :> bea)
MCPeers == (t1 :> {bea, cal}) @@ (t2 :> {bea, cal}) @@ (t3 :> {ann})
MCCap == [u \in Users |-> 1]
Symmetry == Permutations({t1, t2})
=============================================================================
