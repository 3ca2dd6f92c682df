SPECIFICATION Spec
CONSTANTS
  Cid = {0, 1}
  NumSlots = 4
  MaxSetups = 2
INVARIANT InterfaceIdAvailable
