---------------------------- MODULE MCDeparture ----------------------------
(***************************************************************************)
(* An instance of Departure for TLC: two participants, one of them paid    *)
(* for, with an identity card and a passport to hand in.                   *)
(***************************************************************************)
EXTENDS Departure, TLC

CONSTANTS p1, p2, d1, d2, q1, r1, r2

OwnerOfEach == (d1 :> p1) @@ (d2 :> p2)

KindOfEach == (d1 :> "ktp") @@ (d2 :> "passport")

Died == {"keep", "fill", "close"}

Symmetry == Permutations({r1, r2})
=============================================================================
