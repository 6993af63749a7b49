CONSTANTS
  c1 = c1
  c2 = c2
  Focus = {"viewers", "mail", "reads", "buys", "limits", "sessions", "calls"}
  Conn = {c1, c2}
  UserOf <- MCUserOf
  MaxGuests = 1
  Farm = {"a", "b"}
  MaxPatch = 1
  MaxMoves = 3
  Mail = {1, 2}
  Delivered = {1}
  MailCall = {1, 2, 3}
  Kind <- MCKind
  MailOf <- MCMailOf
  Link = {"l1", "l2"}
  MaxMailFaults = 1
  Reader = {"r1", "r2"}
  MaxWrites = 2
  MaxCacheFaults = 1
  Buy = {1, 2, 3, 4}
  Key <- MCKey
  Quantity <- MCQuantity
  MaxQuantity = 2
  Request = {"q1", "q2", "q3"}
  Rate = 1
  Burst = 1
  IdleTTL = 3
  MaxInflight = 2
  MaxDelay = 1
  MaxClock = 5
  Session = {"s1", "s2"}
  Legacy = {"s2"}
  Socket = {c1, c2}
  SessionOf <- MCSessionOf
  GatewayOf <- MCGatewayOf
  MaxTokens = 3
SPECIFICATION MCSpec
INVARIANTS
  GatewayTypeOK
  WatchedIsHeard
  BadgeSettles
  LedFillsAreCurrent
  LimitsHold
  TokensUsedOnce
  CallsTruthful
PROPERTIES
  LetGo
CHECK_DEADLOCK FALSE
