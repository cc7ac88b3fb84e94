\* A scan read, or a profile written back, after its owner was erased.
CONSTANTS
  p1 = p1
  p2 = p2
  d1 = d1
  d2 = d2
  q1 = q1
  r1 = r1
  r2 = r2
  Person = {p1, p2}
  Paid = {p1}
  Doc = {d1, d2}
  Owner <- OwnerOfEach
  Kind <- KindOfEach
  Threshold = 85
  Typing = {}
  Request = {r1, r2}
  MaxCalls = 4
  Deletion = {q1}
  Steps = {"baggage", "ticket", "passport"}
  Fallible <- Died
  MaxFaults = 0
  Null = Null
SPECIFICATION Spec
SYMMETRY Symmetry
CHECK_DEADLOCK FALSE
INVARIANT ErasedIsForgotten
