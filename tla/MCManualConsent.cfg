SPECIFICATION Spec
CONSTANTS
  Requests = {r1, r2}
  Decisions = {d1, d2}
  Arguments = {x1, x2}
  Sessions = {s1, s2}
  Authorities = {a1, a2}
  MaxPending = 1
  MaxIncarnation = 2
  None = None
SYMMETRY IdSymmetry
INVARIANTS
  OneExecutionPerChallenge
  ExecutesAsConfirmed
  WithinCapacity
PROPERTY WithdrawnNeverRuns
CHECK_DEADLOCK FALSE
