SPECIFICATION FairSpec
CONSTANTS
  Passwords = {p1, p2}
  ResetTokens = {t1}
  VerificationTokens = {}
  Requests = {r1, r2}
  Nobody = nobody
  Sockets = {s1}
  MaxAttempts = 1
  AppBaseUrl = TRUE
  MaxFaults = 1
CHECK_DEADLOCK FALSE
PROPERTIES
  RevokedSocketDropped
  SocketEndsWithToken
