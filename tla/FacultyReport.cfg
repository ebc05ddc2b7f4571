\* One semester, three submissions, two versions of the students' questionnaire,
\* two pipelines, one wipe and one fault.
SPECIFICATION Spec
CONSTANTS
  s1 = s1
  s2 = s2
  s3 = s3
  q1 = q1
  q2 = q2
  A = A
  B = B
  Submission = {s1, s2, s3}
  Question = {q1, q2}
  Section = {A, B}
  Sheet <- MCSheet
  SectionOf <- MCSectionOf
  SectionWeight <- MCSectionWeight
  Label = {"positive", "negative"}
  Scopes = {TRUE}
  Versioned = {"FEEDBACK"}
  Wiped = {"OUT"}
  MaxVersion = 2
  MaxTerm = 1
  MaxPipes = 2
  MaxThemes = 1
  MaxFaults = 1
  MinComments = 1
  ManyComments = 2
CHECK_DEADLOCK FALSE
INVARIANTS
  ReportMatchesAnswers
  DrillDownAgrees
  EvidenceAddsUp
