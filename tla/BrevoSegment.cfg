CONSTANTS
  Contacts <- SixContacts
  Segment0 <- Listed
  HasEmail <- Addressed
  PageSize = 2
  ChunkSize = 2
  MAX_RETRIES = 2
  Outcomes = {"ok", "error", "429", "raised"}
  MaxChanges = 1
SPECIFICATION FairSpec
INVARIANTS ReportTrue EveryContactOfSteady
PROPERTIES Ends
CHECK_DEADLOCK FALSE
