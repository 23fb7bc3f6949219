CONSTANTS
  c1 = c1
  c2 = c2
  Clients = {c1, c2}
  NumWorkers = 2
  Uses <- TwoUses
  TraceLimit = 2
  BatchSize = 2
  MaxRequests = 3
  MaxFailures = 1
SPECIFICATION FairSpec
CHECK_DEADLOCK FALSE
INVARIANTS TicketOutlives BlamesChosen LoadAccounted CommandsKept
PROPERTY AnswersArrive
