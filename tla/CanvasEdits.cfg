CONSTANTS
  a = a  b = b  m = m  ext = ext  i = i  j = j  n = n
  Classes <- MCClasses
  Externals = {ext}
  Individuals = {i, j}
  Notes = {n}
  Associations = {m}
  LinkNames <- MCLinkNames
  StartStores <- MCStores
  MaxCalls = 1
  MaxEdits = 2
  LoadsOverlap = FALSE
SPECIFICATION Spec
CHECK_DEADLOCK FALSE
INVARIANTS SnapshotKeepsUp PictureKeepsUp
