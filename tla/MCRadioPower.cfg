SPECIFICATION Spec
CONSTANTS
  Phone = {p0, p1}
  Caller = {t0, t1}
  MaxQueue = 1
SYMMETRY Symmetry
INVARIANTS
  TypeOK
  PowerRecoverable
  FlagTracksSetting
  EbootMatchesCommand
