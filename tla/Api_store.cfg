SPECIFICATION ApiSpec
CONSTANTS
  p1 = p1
  r1 = r1
  r2 = r2
  r3 = r3
  b = b
  w = w
  f1 = f1
  f2 = f2
  a = a
  c = c
  v1 = v1
  Process = {p1}
  Request = {r1, r2, r3, b, w}
  Home <- OneProcess
  File = {f1, f2}
  Field = {a, c}
  Value = {v1}
  Workload <- WithoutDelete
  MayFail = FALSE
  Batcher = {b}
  Batches <- MCBatches
  Reader = {w}
  PageSize = 1
  Limits = {1, 2}
  Any = Any
  Failing = {"hmset", "hgetall"}
  Companies <- MCCompanies
INVARIANTS
  StoredIsListed
  WalkIsWhole
  SearchFinds
PROPERTIES
  ClearEmpties
  BatchTellsTruth
