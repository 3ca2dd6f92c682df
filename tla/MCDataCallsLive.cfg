SPECIFICATION FairSpec
CONSTANTS
  Cid = {0, 1}
  NumSlots = 1
  MaxSetups = 2
PROPERTY SetupAnswered
