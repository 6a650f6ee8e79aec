SPECIFICATION Spec
CONSTANTS
  Turn = 8
  Indices <- MCIndices
  Shapes <- MCShapes
  Channels <- MCChannels
  Dead <- MCDead
  Drifts <- MCDrifts
  Steady <- MCSteady
  Malformed <- MCMalformed
  Receivers = 2
  Tick = 10
  Timings <- MCTimings
  MaxEnergy = 1
  Tolerance = 25
  Profile <- MCProfile
INVARIANTS
  CalibrationFailsOnlyOnZeroEnergy
  UnwrappedIsContinuous
  DriftShowsNoMotion
  Parseval
  FewLossesAreNotMotion
  DominantsDifferOnlyInTies
  EvidenceFollowsMotion
