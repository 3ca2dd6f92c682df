SPECIFICATION FairSpec
CONSTANTS
  Serial = {s1}
  Session = {x}
  MaxSocket = 2
  MaxLosses = 1
PROPERTIES RequestsSettle SuspensionEnds AttachUnblocks
