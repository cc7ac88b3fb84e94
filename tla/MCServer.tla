------------------------------ MODULE MCServer ------------------------------
(***************************************************************************)
(* An instance of Server for TLC: the ten migrations of the repository,    *)
(* two accounts of staff, and two people of whom one has two journeys.     *)
(* Each budget gives one part room and keeps the others small.             *)
(***************************************************************************)
EXTENDS Server, TLC

CONSTANTS u1, u2, e1, e2, r1, r2, t1, t2, t3, anna, budi

PhoneOfEach == (t1 :> anna) @@ (t2 :> anna) @@ (t3 :> budi)

DayOfEach == (t1 :> 0) @@ (t2 :> 2) @@ (t3 :> 1)

Mix(o, s, p, f) == [operator |-> o, staff |-> s, portal |-> p, faults |-> f]

Mixes ==
  {Mix(4, 1, 1, 1), Mix(1, 3, 0, 1), Mix(0, 5, 0, 1), Mix(0, 2, 5, 0), Mix(0, 1, 5, 1)}

Symmetry == Permutations({r1, r2}) \cup Permutations({u1, u2}) \cup Permutations({e1, e2})
=============================================================================
