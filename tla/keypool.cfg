CONSTANTS
  k1 = k1
  k2 = k2
  m1 = m1
  r1 = r1
  r2 = r2
  Keys = {k1, k2}
  Models = {m1}
  Requests = {r1, r2}
  NoModel = NoModel
  NoKey = NoKey
  ShortBackoffs = {1}
  MaxBackoff = 1
  QuotaBase = 1
  QuotaMax = 2
  AuthBase = 2
  AuthMax = 3
  PinTTL = 0
  MaxNow = 4
  MaxFails = 2
  ClockStepsBack = TRUE
SPECIFICATION SpecParts
SYMMETRY Symmetry
INVARIANT TypeOK HoldIsOperatorIntent ProvenanceIsTruthful AuthParkEnds SelectionNeverStrands
PROPERTY SweepBoundsWindows SelectionBoundsCooldowns
