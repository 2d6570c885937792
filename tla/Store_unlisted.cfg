SPECIFICATION Spec
CONSTANTS
  p1 = p1
  p2 = p2
  r1 = r1
  r2 = r2
  r3 = r3
  Process = {p1, p2}
  Request = {r1, r2, r3}
  Home <- OneProcess
  File = {f1}
  Field = {a}
  Value = {v1}
  Workload <- DeleteAndSet
  MayFail = FALSE
INVARIANTS
  StoredIsListed
