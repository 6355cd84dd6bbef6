CONSTANTS
  Games = {"instant", "grid"}
  Tabs = 1
  MaxRequests = 2
  MaxSessions = 2
  HistoryLimit = 2
  FaultBudgets <- TwoLostPublications
  Workers = {w1}
SPECIFICATION FairSpec
INVARIANTS TypeOK HistoryIsTheSession  FanoutNeverFailsABet 
PROPERTIES RequestsAreAnswered  BetsReachTheHistory
CHECK_DEADLOCK FALSE
