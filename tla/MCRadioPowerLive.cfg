SPECIFICATION FairSpec
CONSTANTS
  Phone = {p0, p1}
  Caller = {t0}
  MaxQueue = 1
PROPERTY
  PowerReturns
