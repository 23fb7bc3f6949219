CONSTANTS
  c1 = c1
  c2 = c2
  Clients = {c1, c2}
  Worker = Worker
  Timer = Timer
  Uses <- AllUses
  PythonMerger = TRUE
  MaxRequests = 1
  Free = Free
SPECIFICATION Spec
CHECK_DEADLOCK FALSE
INVARIANTS StuckNeedsHeldGil BusAloneIsSafe
