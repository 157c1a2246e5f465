SPECIFICATION FairSpec
CONSTANTS
  None = None
  Count = 2
  Waiters = {x1}
  Retained = 2
  Disk = FALSE
  StartProfiles = {"authority", "full"}
  MaxEdits = 1
  MaxFailures = 2
  MaxPromotions = 1
CHECK_DEADLOCK FALSE
INVARIANTS PublicationIsAtomic
PROPERTIES WaitersReturn ReconciliationSettles
