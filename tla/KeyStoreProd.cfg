\* One process: in production, where Secrets Manager may fail or lose an
\* acknowledgement at any call, or on a developer's machine, where the rewrite
\* of the local file may be cut short.
CONSTANTS
  Instances = {p1}
  Keys = {k1, k2}
  Presented = {k1, k2}
  TTL = 1
  LoadTime = 1
  MaxTime = 3
  GraceWindows <- MCGraceWindows
  IssueExpiries <- MCIssueExpiries
  GetOutcomes = {"ok", "error"}
  PutOutcomes = {"ok", "error", "lost", "missing"}
  Never = Never
  Absent = Absent
  NoKey = NoKey
  NoDoc = NoDoc
  Unborn = Unborn
  Gone = Gone
SYMMETRY KeySymmetry
SPECIFICATION Spec
INVARIANTS TypeOK DurableKeys RevokedGone CacheBacked RotatedExpires
PROPERTIES UsedMonotone OneLifePerKey
