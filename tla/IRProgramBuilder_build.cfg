CONSTANTS
  BaseAddresses <- MCBases
  BufferBases <- MCBufferBases
  Modes <- MCModes
  Sizes <- MCSizes
  MaxAdds = 3

SPECIFICATION Spec
INVARIANT TypeOK
INVARIANT DescriptorsDecode
INVARIANT BuffersDisjoint
CHECK_DEADLOCK FALSE
