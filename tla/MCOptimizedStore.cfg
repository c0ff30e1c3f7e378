CONSTANTS
  n1 = n1
  n2 = n2
  h1 = h1
  e21 = e21
  e12 = e12
  s1 = s1
  s2 = s2
  r1 = r1
  r2 = r2
  fa = fa
  fb = fb
  qi = qi
  qc = qc
  qn = qn
  qh = qh
  Nodes = {n1, n2, h1}
  Relations = {e21, e12}
  Ends <- EndsOf
  Submitters = {s1, s2}
  Plans <- EveryPlan
  Graphs <- EveryGraph
  BatchSize = 2
  Readers = {r1, r2}
  Files = {fa, fb}
  FileOf <- FileOfNode
  FileNodes = {h1}
  Queries = {qi, qc, qn, qh}
  Operation <- OperationOf
  About <- AboutOf
  Limit = 1
  TTL = 1
  Patience = 1
  MaxTokens = 1
  RefillEvery = 2
  Mixes <- MixSet
SPECIFICATION Spec
INVARIANTS
  StoreTypeOK
  StalenessBounded
  AnswersTheQuestion
  TierBounded
  HandledInOrder
  TakenIsHandled
  AttachedRelationsArrive
PROPERTIES
  StopReturns
  EverythingIsHandled
CHECK_DEADLOCK FALSE
