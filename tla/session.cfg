SPECIFICATION Spec
CONSTANTS
  d = d
  m = m
  Nobody = Nobody
  Limit = 2
  Truncated = 1
  LastTechId = 1
  Users <- MCUsers
  RoleOf <- MCRoleOf
  LinkOf <- MCLinkOf
  Opening <- NoOrders
  Slots <- TwoSlots
  Patient = FALSE
  Failing <- Operations
  Others = TRUE
INVARIANTS
  TypeOK
  RequestsCarryShownUser
  RequestsFitRole
  MixedOnlyByHastyLogOut
  EmptiedOnlyByLateList
