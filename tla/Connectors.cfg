SPECIFICATION FairSpec
CONSTANTS
  Handlers = {h1, h2}
  Accounts = {a1, a2}
  NoAccount = none
  MaxFaults = 1
  MaxMoves = 2
CHECK_DEADLOCK FALSE
INVARIANTS
  RowMatchesAccount
  OrphansHadExpired
PROPERTIES
  NeverRevives
  MissedWebhookHeals
