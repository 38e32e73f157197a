CONSTANTS
  Requests = {b1}
  Order <- AllServices
  Published <- EveryContent
  TTL = 2
  FetchTime = 1
  MaxTime = 0
  Failed = Failed
  Garbled = Garbled
  NoEntry = NoEntry
  Unread = Unread
SPECIFICATION Spec
INVARIANTS AdminApart RefsResolve WritesBlocked ProxiesShown
CHECK_DEADLOCK FALSE
