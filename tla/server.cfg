\* Migrations at start-up, the accounts of the staff, and the portal behind them.
CONSTANTS
  Files = {1, 2, 3, 4, 5, 6, 7, 8, 9, 10}
  Strict = {1, 3, 4}
  Reversible = {8, 9, 10}
  Legacy = {0, 7}
  Api = Api
  Operator = Operator
  u1 = u1
  u2 = u2
  e1 = e1
  e2 = e2
  r1 = r1
  r2 = r2
  t1 = t1
  t2 = t2
  t3 = t3
  anna = anna
  budi = budi
  User = {u1, u2}
  Email = {e1, e2}
  Given = {"super_admin", "konsultan"}
  Link = {k1}
  Handler = {r1, r2}
  Null = Null
  Tour = {t1, t2, t3}
  Phone = {anna, budi}
  BookedBy <- PhoneOfEach
  LeavesOn <- DayOfEach
  Old = {t1, t3}
  LastDay = 1
  BriefingWindowDays = 0
  File = {f1}
  StorageEnabled = TRUE
  Nobody = Nobody
  Budgets <- Mixes
SPECIFICATION Spec
SYMMETRY Symmetry
CHECK_DEADLOCK FALSE
INVARIANT TypeOK
INVARIANT SchemaIsServed
INVARIANT BlockedOnlyAfterInterruption
INVARIANT SomeSuperAdmin
INVARIANT LinkWorksOnce
INVARIANT PaidContent
INVARIANT SignedIsOwn
