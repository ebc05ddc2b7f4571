SPECIFICATION Spec
CONSTANTS
  p1 = p1
  p2 = p2
  c1 = c1
  c2 = c2
  m1 = m1
  Program = {p1, p2}
  Course = {c1}
  Nowhere = Nowhere
  Manual = {m1}
  MaxStalls = 1
  MaxChanges = 1
  MaxFaults = 1
INVARIANTS
  MoodleTypeOK
  
PROPERTIES
  Converges
CHECK_DEADLOCK FALSE
