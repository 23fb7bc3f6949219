CONSTANTS
  e1 = e1
  EventIDs = {e1}
  Supersteps = {0, 1}
  Capacity = 1
  Slots = {0, 1}
  c1 = c1
  Timer = Timer
  Clients = {c1, Timer}
  Uses <- FewUses
  Thrown = {"overflow_error", "other"}
  MergerThrows = TRUE
  MaxPublications = 3
  MaxSubscriptions = 3
  Free = Free
  Deadlines = {0, 1}
  MaxItems = 2
  MaxTime = 1
  Jobs <- SomeJobs
SPECIFICATION TimedSpec
INVARIANTS PendingIsUntouched HandledByDeadline
PROPERTY ForwardedOnce
