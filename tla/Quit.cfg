SPECIFICATION QuitSpec
CONSTANTS
  Resources = {r1, r2}
  Loads = {l1, l2}
  None = None
INVARIANTS
  NothingLeftOpen
  QuitOnlyWhenClosed
PROPERTIES
  RetirementSettles
  ImplementsLifecycle
  QuitAnswered
CHECK_DEADLOCK FALSE
