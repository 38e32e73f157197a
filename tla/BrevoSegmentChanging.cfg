CONSTANTS
  Contacts <- SixContacts
  Segment0 <- FourListed
  HasEmail <- SixContacts
  PageSize = 2
  ChunkSize = 2
  MAX_RETRIES = 0
  Outcomes = {"ok"}
  MaxChanges = 1
SPECIFICATION Spec
INVARIANTS EveryContact
CHECK_DEADLOCK FALSE
