SPECIFICATION Spec
CONSTANTS
  t1 = t1
  t2 = t2
  None = None
  Ticket = {t1, t2}
  CallValue <- MCCallValue
  Lifetime = 1
  V60 = TRUE
  Env = {}
  MaxTime = 5
  LastActivity = 2
  MaxTries = 2
  MaxDepth = 1
INVARIANTS
  TypeOK
  EscrowBacksTickets
  NoStrandedEscrow
  ClearedLeavesNothing
  QueueCoversTickets
  FreshNonces
PROPERTIES
  KeepaliveHonoured
  AllReaped
  NoScheduledLost
