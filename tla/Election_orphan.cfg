SPECIFICATION Spec
CONSTANTS
  None = None
  Torn = Torn
  n1 = n1
  n2 = n2
  Node = {n1, n2}
INVARIANTS
  RedisOnlyAtLeader
SYMMETRY Symmetry
