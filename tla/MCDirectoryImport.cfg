SPECIFICATION FairImportSpec
CONSTANTS
  n1 = n1
  n2 = n2
  n3 = n3
  n4 = n4
  n5 = n5
  e1 = e1
  e2 = e2
  Orgs = {n1, n2, n3, n4, n5}
  Names = {"x", "y"}
  Trees <- MCTrees
  Manual = {m}
  Loop = loop
  None = None
  MaxEdits = 2
  MaxFaults = 1
  Externals = {e1, e2}
  Directories <- MCDirectories
  Selections <- MCSelections
  Calls = 2
INVARIANTS ImportTypeOK EditsAreNoticed LeftoversHaveAReason
PROPERTIES ImportTakesEffect CascadeSparesAttachedTeams Converges
CHECK_DEADLOCK FALSE
