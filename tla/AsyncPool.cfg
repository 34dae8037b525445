SPECIFICATION FairSpec
CONSTANTS
  Tasks = {t1, t2, t3}
  MaxWorkers = 1
INVARIANTS
  NeverSuspendsInside
  ConsistentWhenSeen
PROPERTIES
  EveryoneLeaves
  ImplementsGrowingPool
