CONSTANTS
  None = None
  Uuids = {u1, u2}
  Dirs = {outer, inner}
  Overlaps <- MCOverlaps
  SymlinkModes = {"follow", "ignore"}
SPECIFICATION Spec
INVARIANTS TypeOK RootsDisjoint OneWorker CycleFenced NoLostHint
PROPERTIES MarkerFences RemovalKeepsWork Attended
CHECK_DEADLOCK FALSE
