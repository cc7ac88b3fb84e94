---------------------------- MODULE MCConversion ----------------------------
(***************************************************************************)
(* Instances of Conversion for TLC: the leads of one phone, converted by   *)
(* two handlers that may die inside the unit or after it.                  *)
(***************************************************************************)
EXTENDS Conversion, TLC

CONSTANTS l1, l2, n1, p1, p2, p3, r1, r2, w0, w1, w2

SamePhone == [l \in Lead |-> n1]

UnitLabels == {"snapshot", "mark", "commit", "announce", "issue"}

Symmetry == Permutations({p1, p2, p3}) \cup Permutations({w1, w2})
              \cup Permutations({r1, r2})
=============================================================================
