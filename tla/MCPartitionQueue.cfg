CONSTANTS
  EventIDs = {e1, e2}
  Supersteps = {0, 1}
  Capacity = 2
  MaxOffers = 6
SPECIFICATION Spec
INVARIANTS TypeOK IndexAgrees
PROPERTY ImplementsMailbox
