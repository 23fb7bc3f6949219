CONSTANTS
  Producers = {p1, p2}
  Deadlines = {1, 2}
  MaxItems = 3
  MaxTime = 2
  Timer = Timer
  Free = Free
SPECIFICATION FairSpec
INVARIANTS Conservation OvertakesOnlyByDeadline NeverEarly LifecycleAgrees
PROPERTIES ImplementsQueue DueIsSettled StopReturnsWithWork
