CONSTANTS
  m1 = m1
  m2 = m2
  none = none
  q1 = q1
  q2 = q2
  q3 = q3
  t1 = t1
  t2 = t2
  Providers <- TwoProviders
  Priority <- SecondFirst
  Limited = {2}
  ConfigModel <- FirstFixed
  NoModel = none
  Models = {m1, m2}
  Prompts = {q1, q2, q3}
  Texts = {t1, t2}
  Text <- TextOf
  Input <- InputOf
  Outputs = {1, 2}
  MaxPerRequest = 0
  MaxPerDay = 4
  MaxPerMonth = 6
  Cooldown = 1
  TTL = 1
  MaxTokens = 1
  RefillRate = 1
  MaxTime = 3
  MaxRequests = 3
SPECIFICATION Spec
INVARIANTS
  TypeOK
  OverdraftBounded
  BudgetIsLedger
  AnswerFits
  BucketBounded
PROPERTIES
  CoolingIsLeftAlone
CHECK_DEADLOCK FALSE
