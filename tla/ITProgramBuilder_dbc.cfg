CONSTANTS
  BaseAddresses <- MCRingBases
  SkipStrategies <- MCStrategies
  Samples <- MCRingSamples
  Channels <- MCChannels
  Fragments <- MCRingFragments
  StoreVals <- MCStoreVals
  None = None
  Speed = 2
  Channel = 0
  MaxAdds = 3

SPECIFICATION Spec
CHECK_DEADLOCK FALSE
INVARIANT DbcContinuity
