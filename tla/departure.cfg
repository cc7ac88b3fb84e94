\* A batch of two: reviews, readings, an erasure and the handling desk at once.
CONSTANTS
  p1 = p1
  p2 = p2
  d1 = d1
  d2 = d2
  q1 = q1
  r1 = r1
  r2 = r2
  Person = {p1, p2}
  Paid = {p1}
  Doc = {d1, d2}
  Owner <- OwnerOfEach
  Kind <- KindOfEach
  Threshold = 85
  Typing = {p2}
  Request = {r1, r2}
  MaxCalls = 7
  Deletion = {q1}
  Steps = {"baggage", "ticket", "passport"}
  Fallible <- Died
  MaxFaults = 1
  Null = Null
SPECIFICATION Spec
SYMMETRY Symmetry
CHECK_DEADLOCK FALSE
INVARIANT TypeOK
INVARIANT ReadyIsGenerated
INVARIANT ErasureMatchesRequest
INVARIANT ClearedStaysHandled
INVARIANT FilledIsVerified
INVARIANT RestoredByOverlap
PROPERTY ImplementsQueue
