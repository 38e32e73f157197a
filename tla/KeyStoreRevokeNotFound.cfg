\* One worker in production: a revocation that failed to persist, asked for again.
CONSTANTS
  Instances = {p1}
  Keys = {k1}
  Presented = {k1}
  TTL = 1
  LoadTime = 0
  MaxTime = 3
  GraceWindows <- MCGraceWindows
  IssueExpiries <- MCIssueExpiries
  GetOutcomes = {"ok"}
  PutOutcomes = {"ok", "error"}
  Never = Never
  Absent = Absent
  NoKey = NoKey
  NoDoc = NoDoc
  Unborn = Unborn
  Gone = Gone
SPECIFICATION Spec
INVARIANT NotFoundIsGone
