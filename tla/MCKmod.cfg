SPECIFICATION FairSpec
CONSTANTS
  Proc = {p, q}
  Regions <- MCRegions
  Length = 2
  Version <- MCVersion
  Size <- MCSize
INVARIANTS MappedWhileRunning
PROPERTIES NoReloadWhileRunning FreshStart Starts
