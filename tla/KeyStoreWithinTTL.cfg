\* Two instances, and loads that take no time.
CONSTANTS
  Instances = {p1, p2}
  Keys = {k1, k2}
  Presented = {}
  TTL = 0
  LoadTime = 0
  MaxTime = 1
  GraceWindows <- MCGraceWindows
  IssueExpiries <- MCIssueExpiries
  GetOutcomes = {"ok"}
  PutOutcomes = {"ok"}
  Never = Never
  Absent = Absent
  NoKey = NoKey
  NoDoc = NoDoc
  Unborn = Unborn
  Gone = Gone
SYMMETRY AllSymmetry
SPECIFICATION Spec
INVARIANT PickedUpWithinTTL
