SPECIFICATION Spec
CONSTANTS
  n1 = n1
  n2 = n2
  n3 = n3
  n4 = n4
  n5 = n5
  Orgs = {n1, n2, n3, n4, n5}
  Calls = {c1, c2, c3}
  Forests <- MCForests
  None = None
SYMMETRY MCSymmetry
INVARIANTS TypeOK ReferencesResolve TreeIsWhole StrandedKeysNeedARace
CHECK_DEADLOCK FALSE
