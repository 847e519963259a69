SPECIFICATION FairSpec
CONSTANTS
  d = d
  m = m
  Nobody = Nobody
  Limit = 3
  Truncated = 1
  LastTechId = 1
  Users <- MCUsers
  RoleOf <- MCRoleOf
  LinkOf <- MCLinkOf
  Opening <- MCOpening
  Slots <- TwoSlots
  Patient = TRUE
  Failing <- BootFails
  Others = FALSE
INVARIANTS
  ShownIsCurrent
PROPERTIES
  BootEnds
