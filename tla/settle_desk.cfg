\* Admins, participants and one settled payment at the same time.
CONSTANTS
  i1 = i1
  q1 = q1
  t1 = t1
  t2 = t2
  o1 = o1
  o2 = o2
  p2 = p2
  p3 = p3
  r1 = r1
  r2 = r2
  p1 = p1
  Invoice = {i1}
  Participant = {q1}
  Owner <- MCOwner
  Amount <- MCAmount
  Request = {r1, r2}
  Proof = {p1, p2, p3}
  Receipt = {p1, p3}
  Claim = {1}
  Order = {o1}
  Txn = {t1}
  OrderOf <- MCOrderOf
  Anonymous = {}
  Moves <- DirectMoves
  Desk <- AllDesk
  Fallible = {}
  MaxFaults = 0
  Null = Null
SPECIFICATION Spec
SYMMETRY ReceiptSymmetry
CHECK_DEADLOCK FALSE
INVARIANT SettledIsJustified
INVARIANT PortalAfterSettlement
