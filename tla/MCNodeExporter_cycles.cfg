SPECIFICATION Spec
CONSTANTS
  Nodes = {"n1", "n2"}
  Mark <- MCMark
  Alloc <- MCAlloc
  Condition <- MCCondition
  Labels = {"", "rack"}
  Pods = {"net", "proxy", "u1"}
  PodKind <- MCPodKind
  SpecsOf <- MCSpecsOf
  Node <- MCNode
  Disturbances = 1
INVARIANTS
  TypeOK
  FreeIsExact
  UsageFits
  NoStaleNodes
