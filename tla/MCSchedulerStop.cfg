CONSTANTS
  Producers = {p1}
  Deadlines = {1, 2}
  MaxItems = 2
  MaxTime = 2
  Timer = Timer
  Free = Free
SPECIFICATION FairSpec
PROPERTY StopReturns
