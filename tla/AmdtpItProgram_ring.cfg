CONSTANTS
  Commands <- MCCommands
SPECIFICATION Spec
CHECK_DEADLOCK FALSE
PROPERTY RingRefinement
