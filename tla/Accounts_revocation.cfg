SPECIFICATION AccountsSpec
CONSTANTS
  u1 = u1
  u2 = u2
  t1 = t1
  t2 = t2
  Users <- TwoUsers
  AccountRequests <- TwoRequests
  MaxTokens = 2
  MaxChanges = 2
CHECK_DEADLOCK FALSE
INVARIANTS
  RevokedStaysRevoked
