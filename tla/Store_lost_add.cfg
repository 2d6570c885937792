SPECIFICATION Spec
CONSTANTS
  p1 = p1
  p2 = p2
  r1 = r1
  r2 = r2
  r3 = r3
  Process = {p1, p2}
  Request = {r1, r2}
  Home <- TwoProcesses
  File = {f1}
  Field = {a}
  Value = {v1, v2}
  Workload <- AddsOnly
  MayFail = FALSE
PROPERTIES
  AddKeepsMembers
