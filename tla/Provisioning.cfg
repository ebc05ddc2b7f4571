\* Two plans of categories and courses, one of users; two faults.
SPECIFICATION Spec
CONSTANTS
  a = a
  b = b
  c = c
  Name = {"UC", "S1", "S2", "CCS", "CBA", "BSCS", "x", "y", "u", "v", "w"}
  Request = {a, b, c}
  Plans <- MCPlans
  BatchSize = 1
  MaxFaults = 2
CHECK_DEADLOCK FALSE
INVARIANTS
  
  ReportsAreTrue
