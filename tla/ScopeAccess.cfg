SPECIFICATION RolesSpec
CONSTANTS
  d1 = d1
  d2 = d2
  p1 = p1
  p2 = p2
  h1 = h1
  f1 = f1
  c1 = c1
  NoOne = NoOne
  Null = Null
  User = {h1, f1}
  Staff = {h1}
  Fixed <- NobodyFixed
  EnrolRole = {"teacher"}
  Program = {p1, p2}
  Department = {d1, d2}
  DeptOf <- TwoDepartments
  Campus = {c1}
  HomeCampus = c1
  MaxOps = 3
INVARIANTS
  RolesTypeOK
  PipelineRulesAgree
  
PROPERTIES
  HydrationRespectsManual
CHECK_DEADLOCK FALSE
