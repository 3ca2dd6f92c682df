SPECIFICATION Spec
CONSTANTS
  Serial = {s1, s2}
  Session = {x, y}
  MaxSocket = 2
  MaxLosses = 1
SYMMETRY Symmetry
INVARIANTS TypeOK WaitingIsListed ResumeUnderWay OnlySimStatusStays
PROPERTY ImplementsPromise
