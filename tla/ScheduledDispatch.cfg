SPECIFICATION FairSpec
CONSTANTS
  f1 = f1
  v1 = v1
  AllVersions = AllVersions
  FacultyScope = {f1}
  DepartmentScope = {}
  CampusScope = {}
  Comment = {"noise", "text"}
  Tier = {"FACULTY"}
  Version = {v1}
  Caller = {}
  MaxPosts = 2
  MaxPipes = 2
  MaxFaults = 0
  MaxRequests = 0
PROPERTIES
  ServedWithoutHelp
