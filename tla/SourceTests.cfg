CONSTANTS
  t1 = t1
  t2 = t2
  w1 = w1
  w2 = w2
  w3 = w3
  c1 = c1
  c2 = c2
  None = None
  Tests <- TwoTests
  Workers <- ThreeWorkers
  Tenants <- TwoTenants
  Tenant <- PodOverlap
  Pipes = {1, 2, 3}
  Defs <- MCDefs
  Savers = {1, 2}
  fileHistoryLimit = 3
  MaxSaves = 4
SPECIFICATION MCSpec
INVARIANTS ProbedOnce RestoredOwn
PROPERTY WaitEnds
