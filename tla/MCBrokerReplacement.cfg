SPECIFICATION Spec
CONSTANTS
  None = None
  a1 = a1
  p1 = p1
  Authorities = {a1}
  Sessions = {s1}
  Personas = {p1}
  Contexts = {c1, c2, c3}
  Calls = {}
  Challenges = {}
  Owners = {o1, o2, o3}
  Tools = {"subagent"}
  ApprovalTools = {}
  Arguments = {x1}
  Roots = {}
  PersonaOf <- MCPersonaOf
SYMMETRY IdSymmetry
INVARIANTS
  NoReplacementWhileDraining
CHECK_DEADLOCK FALSE
