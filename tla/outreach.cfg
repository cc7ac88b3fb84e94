\* The scheduled jobs, the messages they send, the chat bot and the catalogue.
CONSTANTS
  g1 = g1
  g2 = g2
  e1 = e1
  e2 = e2
  l1 = l1
  i1 = i1
  i2 = i2
  t1 = t1
  b1 = b1
  b2 = b2
  k1 = k1
  k2 = k2
  s1 = s1
  s2 = s2
  anna = anna
  Thread = {g1, g2, sh}
  ByHand = {sh}
  Ref <- References
  Phone = {anna}
  Answers = {Sorry, Hello}
  LastTick = 2
  Null = Null
  Fallback = Sorry
  FloodLimit = 2
  Signed = FALSE
  Package = {k1, k2}
  Batch = {b1, b2}
  Slug = {s1, s2}
  Quotas = {1}
  Editor = {e1, e2}
  StartSlug <- SlugAtStart
  StartOf <- PackageAtStart
  MaxSold = 1
  NoPackage = NoPackage
  Lead = {l1}
  Invoice = {i1, i2}
  Traveller = {t1}
  PhoneOf <- PhoneOfEach
  Budgets <- Mixes
SPECIFICATION Spec
SYMMETRY Symmetry
CHECK_DEADLOCK FALSE
INVARIANT TypeOK
INVARIANT RemindedOnce
INVARIANT WarnedOnce
INVARIANT StatusIsTrue
INVARIANT EchoNeedsNewerReply
INVARIANT EveryoneIsAnswered
PROPERTY EditsBringNothingBack
