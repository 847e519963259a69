SPECIFICATION FairSpec
CONSTANTS
  d = d
  Limit = 4
  Truncated = 2
  LastTechId = 2
  FirstNumber = 1
  Users <- MCUsers
  RoleOf <- MCRoleOf
  Seeds <- MCSeeds
  Staff <- MCStaff
  Linked <- MCLinked
  DateOf <- MCDateOf
  Periods <- MCPeriods
  Default <- MCDefault
  MaxChanges = 3
INVARIANTS
  TypeOK
  HalvesDifferByMoved
  ReportIsTheLastAsked
PROPERTIES
  ButtonComesBack
