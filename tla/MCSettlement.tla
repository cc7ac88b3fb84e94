---------------------------- MODULE MCSettlement ----------------------------
(* Instances of Settlement for TLC.                                        *)
EXTENDS Settlement, TLC

CONSTANTS i1, q1, t1, t2, o1, o2, p1, p2, p3, r1, r2

MCOwner == [i \in Invoice |-> q1]
MCAmount == [i \in Invoice |-> 2]

\* Every transaction pays a session of its own.
MCOrderOf == [t \in Txn |-> IF t = t1 THEN o1 ELSE o2]

\* Transactions that are settled at once, without a pending step or a review.
DirectMoves == {<<"new", "settled">>}

\* Every method, with failures that may arrive late.
EveryMove == AllMoves

AllDesk == {"upload", "approve", "reject", "confirm", "pdf", "pay"}
UnitLabels == {"decide", "commit"}

\* The rows the webhook draws from and the handlers are interchangeable.
RowSymmetry == Permutations({p2, p3}) \cup Permutations({r1, r2})
ReceiptSymmetry == Permutations({p1, p3}) \cup Permutations({r1, r2})
=============================================================================
