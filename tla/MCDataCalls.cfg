SPECIFICATION Spec
CONSTANTS
  Cid = {0, 1}
  NumSlots = 2
  MaxSetups = 3
INVARIANTS
  TypeOK
  LiveCallRecorded
  InterfaceIdIsFirst
  SerialInterfacesDistinct
  EntriesAreCalls
