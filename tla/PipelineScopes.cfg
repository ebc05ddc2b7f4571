SPECIFICATION FairSpec
CONSTANTS
  f1 = f1
  v1 = v1
  h1 = h1
  h2 = h2
  AllVersions = AllVersions
  FacultyScope = {f1}
  DepartmentScope = {}
  CampusScope = {}
  Comment = {"noise", "text"}
  Tier = {"FACULTY"}
  Version = {v1}
  Caller = {h1, h2}
  MaxPosts = 2
  MaxPipes = 2
  MaxFaults = 1
  MaxRequests = 2
INVARIANTS
  ScopesTypeOK
  OneActivePerKey
  NothingLeftOut
PROPERTIES
  
  SchedulerGoesOn
