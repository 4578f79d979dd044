SPECIFICATION Spec
CONSTANTS
  Configs <- MCConfigs
  Cycles = 10
  SweepSpecs <- MCSweepSpecs
INVARIANTS
  TypeOK
  FramesConserved
  UnderrunWindowsCounted
  DemandMatchesPacketModel
  SweepPicksSmallestTarget
PROPERTIES
  RefillStopsAtTarget
CHECK_DEADLOCK FALSE
