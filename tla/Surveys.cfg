SPECIFICATION Spec
CONSTANTS
  h1 = h1
  h2 = h2
  t1 = t1
  t2 = t2
  c1 = c1
  s1 = s1
  s2 = s2
  x1 = x1
  x2 = x2
  NoCourse = NoCourse
  None = None
  Caller = {h1, h2}
  Task = {t1, t2}
  Course = {c1}
  Schema = {s1, s2}
  Valid = {s1}
  Answers = {x1, x2}
  MaxVersions = 3
  MaxSubs = 2
  MaxFile = 2
  MaxOps = 3
  MaxFaults = 1
SYMMETRY Symmetry
INVARIANTS
  SurveysTypeOK
  VersionLifecycle
  IngestionReports
  DraftIsKept
  AnswersStay
  
CHECK_DEADLOCK FALSE
