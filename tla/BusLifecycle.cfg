CONSTANTS
  EventIDs = {e1}
  Supersteps = {0}
  Capacity = 1
  Slots = {0, 1}
  c1 = c1
  c2 = c2
  Clients = {c1, c2}
  Uses <- LifecycleUses
  MergerThrows = TRUE
  MaxPublications = 2
  MaxSubscriptions = 2
  Free = Free
SPECIFICATION FairSpec
INVARIANTS TypeOK WorkersMatchRegistry
PROPERTIES PendingIsHandled StopTerminates
