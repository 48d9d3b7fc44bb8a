CONSTANTS
  None = None
  Uuids = {u1}
  Dirs = {outer}
  Overlaps <- MCOverlaps
  SymlinkModes = {"follow", "ignore"}
SPECIFICATION Spec
PROPERTIES PolicyInForce
CHECK_DEADLOCK FALSE
