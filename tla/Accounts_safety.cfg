SPECIFICATION Spec
CONSTANTS
  Passwords = {p1, p2}
  ResetTokens = {t1}
  VerificationTokens = {v1}
  Requests = {r1, r2, r3}
  Nobody = nobody
  Sockets = {s1}
  MaxAttempts = 1
  AppBaseUrl = TRUE
  MaxFaults = 1
CHECK_DEADLOCK FALSE
SYMMETRY AccountsSymmetry
INVARIANTS
  SessionsMatchPassword
  SocketsCurrent
  TokenHonouredOnce
  LockoutBounded
