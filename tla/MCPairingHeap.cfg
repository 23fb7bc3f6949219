CONSTANTS
  MaxNodes = 4
  Values = {1, 2}
  Heaps = {"a", "b"}
SPECIFICATION FairSpec
INVARIANTS TypeOK WellLinked HeapOrder NoLeak
PROPERTIES ImplementsPriorityQueue CallsReturn
