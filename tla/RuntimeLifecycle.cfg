SPECIFICATION Spec
CONSTANTS
  Requests = {q1, q2}
  Personas = {p1, p2}
  Sessions = {s1, s2}
  MaxRuntimes = 5
  None = None
INVARIANTS
  NoAuthorityLeak
  ServedIsLive
PROPERTIES
  RevokeBeforePublish
  StaleNeverPublished
  MutationsFinish
CHECK_DEADLOCK FALSE
