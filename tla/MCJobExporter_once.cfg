SPECIFICATION Spec
CONSTANTS
  K8sJobs = {"j1"}
  VolcanoJobs = {"v1"}
  PodsOf <- MCPodsOf
  Wish <- MCWish
  Queues = {"a"}
  Nodes = {"x"}
  DomainAt <- MCDomainAt
  LivelySets <- MCLivelySets
  Disturbances = 1
  RemoveRaises = FALSE
INVARIANT
  ObservedOnce
