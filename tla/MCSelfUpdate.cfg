SPECIFICATION Spec
CONSTANTS
  r1 = r1
  r2 = r2
  r3 = r3
  None = None
  Runs <- MCRuns
  v1 = v1
  v2 = v2
  Versions <- MCVersions
  Installed = v1
INVARIANTS
  CopyKept
PROPERTIES
  ReplacesItsOwn
  UpgradedIsInstalled
  ExecutableAgain
CHECK_DEADLOCK FALSE
