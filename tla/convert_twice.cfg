SPECIFICATION Spec
CONSTANTS
  l1 = l1
  l2 = l2
  n1 = n1
  p1 = p1
  p2 = p2
  p3 = p3
  r1 = r1
  r2 = r2
  w0 = w0
  w1 = w1
  w2 = w2
  Null = Null
  Lead = {l1}
  Phone = {n1}
  PhoneOf <- SamePhone
  Known = {n1}
  Participant = {p1, p2, p3}
  Password = {w0, w1, w2}
  OldPassword = w0
  Request = {r1, r2}
  Targets = {"deal"}
  MaxMoves = 1
  MaxInvoices = 0
  Fallible <- UnitLabels
  MaxFaults = 0
SYMMETRY Symmetry
CHECK_DEADLOCK FALSE
INVARIANT OneParticipantPerLead
