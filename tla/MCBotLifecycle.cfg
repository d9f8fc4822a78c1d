SPECIFICATION FairSpec
CONSTANTS
  Users = {alice, bob}
  Requests = {r1, r2}
  Workers = {w1, w2}
  Main = main
  MaxSessions = 2
  SummaryInterval = 2
INVARIANTS SessionHasRunner NoLeakedConnection
PROPERTIES EndedRunFreesSlot StoppedEngineEnds ShutdownCompletes
CHECK_DEADLOCK FALSE
