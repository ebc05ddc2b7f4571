\* Two semesters, two submissions, two pipelines, one wipe and one fault.
SPECIFICATION DashboardsSpec
CONSTANTS
  s1 = s1
  s2 = s2
  q1 = q1
  Submission = {s1, s2}
  Question = {q1}
  Sheet <- MCSheet
  Label = {"positive", "negative"}
  Scopes = {FALSE}
  Versioned = {}
  Wiped = {"OUT"}
  MaxVersion = 1
  MaxTerm = 2
  MaxPipes = 2
  MaxThemes = 1
  MaxFaults = 1
  MinSemesters = 2
  MinAnalyzed = 1
  MaxAttempts = 2
CHECK_DEADLOCK FALSE
INVARIANTS
  EvaluationsTypeOK
  DashboardsAgree
PROPERTIES
  CompletedIsShown
