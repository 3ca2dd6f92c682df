SPECIFICATION Spec
CONSTANTS
  Config <- MCConfig
  MaxQueue = 2
INVARIANTS TypeOK GadgetFollows NothingLeftOver
PROPERTY ConfigShown
