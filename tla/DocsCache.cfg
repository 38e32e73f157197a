CONSTANTS
  Requests = {b1, b2}
  Order <- OneService
  Published <- OneChanges
  TTL = 2
  FetchTime = 1
  MaxTime = 3
  Failed = Failed
  Garbled = Garbled
  NoEntry = NoEntry
  Unread = Unread
SPECIFICATION Spec
INVARIANTS NothingStale
PROPERTIES ErrorsPass
CHECK_DEADLOCK FALSE
