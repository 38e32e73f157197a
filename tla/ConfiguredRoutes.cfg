CONSTANTS
  Ids = {1, 3}
  Limit = 1
  NoMinId = NoMinId
  None = None
  ContactIds = {1, 3, 11, 12, 13}
  Others <- MCOthers
  MaxMoves = 1
  Lists <- ShortLists
  PageSize = 1
  Documents <- MCDocuments
  LocalFile <- FileDoc
  NoDoc = NoDoc
  Fallback = Fallback
  MaxChanges = 1
  Orgs = {1, 2}
  Empty = Empty
  Env <- MCEnv
SPECIFICATION MCSpec
INVARIANTS NobodySkipped ReloadBinds OneDocument OrgsKeptApart
PROPERTIES ReportSettles Ends
