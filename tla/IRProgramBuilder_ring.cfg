CONSTANTS
  BaseAddresses <- MCBases
  BufferBases <- MCBufferBases
  Modes <- MCModes
  Sizes <- MCRingSizes
  MaxAdds = 2

SPECIFICATION Spec
PROPERTY RingRefinement
CHECK_DEADLOCK FALSE
