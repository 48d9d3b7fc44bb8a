CONSTANTS
  None = None
  r1 = r1
  r2 = r2
  xf = xf
  zf = zf
  yf = yf
  e1 = e1
  e2 = e2
  xd = xd
  yd = yd
  h1 = h1
  Roots <- MCRoots
  Files <- MCFiles
  Dirs <- MCDirs
  Parent <- MCParent
  Child <- MCChild
  Home <- MCHome
  Entry <- MCEntry
  Targets <- MCTargets
  FirstIds <- MCFirstIds
  FirstLinks <- MCFirstLinks
  Policies <- MCPolicies
  ConflictPaths <- MCConflictPaths
  MaxOps <- MCMaxOps
  MaxEdits = 0
  MaxCrashes = 0
SPECIFICATION Spec
PROPERTIES ResolutionHonoured
CHECK_DEADLOCK FALSE
