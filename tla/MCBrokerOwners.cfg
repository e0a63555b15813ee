SPECIFICATION FairSpec
CONSTANTS
  None = None
  a1 = a1
  p1 = p1
  Authorities = {a1}
  Sessions = {s1}
  Personas = {p1}
  Contexts = {c1, c2}
  Calls = {}
  Challenges = {}
  Owners = {o1, o2}
  Tools = {"subagent"}
  ApprovalTools = {}
  Arguments = {x1}
  Roots = {r1}
  PersonaOf <- MCPersonaOf
INVARIANTS
  NoOrphanOwner
  OneUnreleasedOwnerPerKey
PROPERTIES
  PendingConverges
  RejectionPoisonsSession
CHECK_DEADLOCK FALSE
