CONSTANTS
  file = file
  first = first
  second = second
  Workers = {first, second}
  Roles <- MCRoles
  Locals = {file}
  Webs = {}
  Albums <- MCAlbums
  Gains = {1}
  Builds = {1}
  None = None
  MaxBatch = 1
  MaxContent = 1
  MaxCrashes = 0
  MaxCalls = 5
SPECIFICATION DatabaseSpec
SYMMETRY Symmetry
PROPERTIES
  FreshMatchesFile
CHECK_DEADLOCK FALSE
