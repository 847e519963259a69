SPECIFICATION Spec
CONSTANTS
  d = d
  m = m
  Nobody = Nobody
  Limit = 3
  Truncated = 1
  LastTechId = 1
  Users <- MCUsers
  RoleOf <- MCRoleOf
  LinkOf <- MCLinkOf
  Opening <- MCOpening
  Slots <- TwoSlots
  Patient = FALSE
  Failing <- NoFailure
  Others = FALSE
INVARIANTS
  ShownBelongsToUser
