CONSTANTS
  EventIDs = {e1}
  Supersteps = {0, 1, 2}
  Capacity = 2
  Slots = {0, 1}
  c1 = c1
  c2 = c2
  Clients = {c1, c2}
  Uses <- DeliveryUses
  MergerThrows = FALSE
  MaxPublications = 3
  MaxSubscriptions = 2
  Free = Free
SPECIFICATION Spec
INVARIANTS PreflightHolds ExactlyOnce HandledInOrder
PROPERTY AllOrNothing
