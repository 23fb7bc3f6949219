CONSTANTS
  NumWorkers = 2
  NumPartitions = 2
  Generations = 2
  Publishers = {q1}
  GraphPublishers = {q1}
  MaxPublications = 3
  Supersteps = {1}
  MailboxSize = 1
SPECIFICATION FairSpec
CHECK_DEADLOCK FALSE
INVARIANTS LeasesConserved NoticesAreCurrent OnlyGraphStays BarrierCounts
PROPERTIES LeaseComesBack StopJoins
