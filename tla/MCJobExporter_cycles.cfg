SPECIFICATION Spec
CONSTANTS
  K8sJobs = {"j1"}
  VolcanoJobs = {"v1"}
  PodsOf <- MCPodsOf
  Wish <- MCWish
  Queues = {"a", "b"}
  Nodes = {"x", "y"}
  DomainAt <- MCDomainAt
  LivelySets <- MCLivelySets
  Disturbances = 1
  RemoveRaises = FALSE
INVARIANTS
  TypeOK
  CountedOnce
  NoStaleSeries
  ConcurrencyExact
  StartRemembered
  MetMeansClose
PROPERTIES
  VerdictStays
