SPECIFICATION FairSpec
CONSTANTS
  d = d
  m = m
  r1 = r1
  r2 = r2
  Limit = 4
  Truncated = 2
  LastTechId = 2
  FirstNumber = 1
  Users <- MCUsers
  RoleOf <- MCRoleOf
  Seeds <- MCSeeds
  Staff <- MCStaff
  Linked <- MCLinked
  Requests <- TwoRequests
  Calls <- RaceCalls
  Faults = TRUE
INVARIANTS
  AssignedHasExecutor
PROPERTIES
  Answered
