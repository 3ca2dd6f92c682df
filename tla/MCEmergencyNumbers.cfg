SPECIFICATION Spec
CONSTANTS
  Number = {"a", "c", "s", "t", "z"}
  CtaNumbers <- MCCtaNumbers
  Xml <- MCXml
  SimLists <- MCSimLists
  NetLists <- MCNetLists
  Address <- MCAddress
  PropMax = 4
  MaxAnswers = 3
INVARIANTS
  TypeOK
  ListsExact
  SlotWhole
  NoSimNumbersRecognised
