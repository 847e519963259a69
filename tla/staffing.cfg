SPECIFICATION Spec
CONSTANTS
  d = d
  ivanov = ivanov
  petrov = petrov
  NoName = NoName
  Limit = 2
  Truncated = 1
  LastTechId = 2
  FirstNumber = 1
  Users <- MCUsers
  RoleOf <- MCRoleOf
  Seeds <- MCSeeds
  Staff <- MCStaff
  Linked <- MCLinked
  Names <- MCNames
  FirstName <- MCFirstName
  Slots <- OneSlot
INVARIANTS
  TypeOK
  StaffIsCurrent
PROPERTIES
  EditKeepsRest
  DismissedGetsNothingNew
