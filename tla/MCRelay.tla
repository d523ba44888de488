------------------------------- MODULE MCRelay ------------------------------
(***************************************************************************)
(* Small instances of Relay for TLC.                                       *)
(***************************************************************************)
EXTENDS Relay, TLC

CONSTANTS alice, bob, m1, m2

MCFrom == (m1 :> alice) @@ (m2 :> alice)
MCTo == (m1 :> bob) @@ (m2 :> bob)
OneFrom == m1 :> alice
OneTo == m1 :> bob

Symmetry == Permutations(Conns)
=============================================================================
