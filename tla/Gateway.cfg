CONSTANTS
  Requests = {"r1", "r2"}
  Calls <- AllCalls
  Tokens <- MCTokens
  NoToken = NoToken
  Pieces <- MCPieces
  Managed = {"writer"}
  Undated = {"undated"}
  Scopes <- MCScopes
  Endpoints <- MCEndpoints
  MaxOutages = 1
SPECIFICATION AnyBesideRace
INVARIANTS OnlyEntitled RefusedForCause AtMostOnce AnswersTruthful
PROPERTIES ImplementsUpstreamCall Answered
CHECK_DEADLOCK FALSE
