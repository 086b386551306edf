SPECIFICATION Spec
CONSTANTS
  t1 = t1
  t2 = t2
  None = None
  Ticket = {t1, t2}
  CallValue <- MCCallValue
  Lifetime = 2
  V60 = TRUE
  Env = {"nested_redeem"}
  MaxTime = 6
  LastActivity = 3
  MaxTries = 2
  MaxDepth = 1
PROPERTY
  NoScheduledLost
