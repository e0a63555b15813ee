SPECIFICATION Spec
CONSTANTS
  None = None
  a1 = a1
  p1 = p1
  Authorities = {a1}
  Sessions = {s1}
  Personas = {p1}
  Contexts = {c1, c2, c3}
  Calls = {k1, k2}
  Challenges = {h1, h2}
  Owners = {}
  Tools = {"terminal", "subagent"}
  ApprovalTools = {"terminal"}
  Arguments = {x1, x2}
  Roots = {r1}
  PersonaOf <- MCPersonaOf
SYMMETRY IdSymmetry
PROPERTIES
  RunsOnlyInCurrentRun
INVARIANTS
  ActiveAncestry
  RunIsActiveRoot
  Attenuation
  ApprovalCoversExecution
  OneExecutionPerApproval
CHECK_DEADLOCK FALSE
