CONSTANTS
  EventIDs = {e1}
  Supersteps = {0}
  Capacity = 1
  Slots = {0, 1}
  c1 = c1
  c2 = c2
  Clients = {c1, c2}
  Uses <- ReentryUses
  MergerThrows = FALSE
  MaxPublications = 1
  MaxSubscriptions = 2
  Free = Free
SPECIFICATION Spec
INVARIANT HandlersMayReenter
