----------------------------- MODULE MCOutreach -----------------------------
(***************************************************************************)
(* An instance of Outreach for TLC: one thing of each kind to be reminded  *)
(* of and an invoice whose participant has no number, a customer who also  *)
(* chats, two goroutines of the server and a command.  Each budget gives   *)
(* one part room and keeps the others small.                               *)
(***************************************************************************)
EXTENDS Outreach, TLC

CONSTANTS g1, g2, e1, e2, l1, i1, i2, t1, b1, b2, k1, k2, s1, s2, anna

References == {l1, i1, i2, t1, b1, b2}

PhoneOfEach == (l1 :> Null) @@ (i1 :> anna) @@ (i2 :> Null) @@ (t1 :> anna)

SlugAtStart == (k1 :> s1) @@ (k2 :> NoPackage)

PackageAtStart == (b1 :> k1) @@ (b2 :> NoPackage)

Mix(jobs, chats, edits, ticks, faults) ==
  [jobs |-> jobs, chats |-> chats, edits |-> edits, ticks |-> ticks, faults |-> faults]

Mixes ==
  {Mix(2, 0, 0, 2, 0), Mix(2, 0, 0, 0, 1), Mix(1, 0, 0, 0, 3), Mix(1, 2, 0, 0, 0),
   Mix(1, 0, 3, 0, 0), Mix(0, 5, 0, 0, 0), Mix(0, 3, 0, 1, 0), Mix(0, 3, 0, 0, 1),
   Mix(0, 2, 0, 1, 1), Mix(0, 2, 0, 0, 2)}

Symmetry == Permutations({g1, g2}) \cup Permutations({e1, e2})
=============================================================================
