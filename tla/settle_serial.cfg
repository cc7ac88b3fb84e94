\* One handler at a time: what holds when nothing interleaves.
CONSTANTS
  i1 = i1
  q1 = q1
  t1 = t1
  t2 = t2
  o1 = o1
  o2 = o2
  p2 = p2
  p3 = p3
  r1 = r1
  r2 = r2
  p1 = p1
  Invoice = {i1}
  Participant = {q1}
  Owner <- MCOwner
  Amount <- MCAmount
  Request = {r1}
  Proof = {p1, p2, p3}
  Receipt = {p1}
  Claim = {1}
  Order = {o1, o2}
  Txn = {t1, t2}
  OrderOf <- MCOrderOf
  Anonymous = {t2}
  Moves <- DirectMoves
  Desk <- AllDesk
  Fallible <- UnitLabels
  MaxFaults = 1
  Null = Null
SPECIFICATION FairSpec
CHECK_DEADLOCK FALSE
INVARIANT CoveredIsSettled
INVARIANT SettledIsActive
INVARIANT AcknowledgedIsCredited
PROPERTY ReceivedIsCredited
