\* Two instances behind one address, whose writes race, fail and go unacknowledged;
\* no holder makes a request: that one would be let in is what is checked.
CONSTANTS
  Instances = {p1, p2}
  Keys = {k1, k2}
  Presented = {}
  TTL = 0
  LoadTime = 1
  MaxTime = 2
  GraceWindows <- MCGraceWindows
  IssueExpiries <- MCIssueExpiries
  GetOutcomes = {"ok", "error"}
  PutOutcomes = {"ok", "error", "lost"}
  Never = Never
  Absent = Absent
  NoKey = NoKey
  NoDoc = NoDoc
  Unborn = Unborn
  Gone = Gone
SYMMETRY AllSymmetry
SPECIFICATION Spec
INVARIANTS OnlyRacesUndo RevocationLatency
PROPERTIES RotationTimely
