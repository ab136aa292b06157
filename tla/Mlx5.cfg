CONSTANTS
  q1 = q1
  q2 = q2
  c1 = c1
  c2 = c2
  QPs = {q1, q2}
  CQs = {c1, c2}
  Srq = Srq
  NoQp = NoQp
  cqn <- MCcqn
  SqCnt = 4
  MaxBB = 2
  RqCnt = 2
  SrqMax = 4
  CqSizes = {2, 4}
  Wrap = 8
  NumPoll = 2
  Lists <- MCLists
  MaxRecvs = 2
  Scenarios <- MCScenarios
SPECIFICATION Spec
INVARIANTS TypeOK SendsIntact SrqLinked OwnershipExact CompletionsCurrent NoLockCycle
PROPERTY ImplementsVerbs
