CONSTANTS
  kA = kA  kB = kB  c1 = c1  c2 = c2  n1 = n1  n2 = n2
  e1 = e1  e2 = e2  e3 = e3  x = x  y = y  t1 = t1
  None = None  Keep = Keep
  Kinds = {kA, kB}
  Classes = {c1, c2}
  Namespaces = {n1, n2}
  Entities = {e1, e2, e3}
  Refs = {x, y}
  Targets = {t1}
  KindOf <- Recreated
  RefOf <- RecreatedRefs
  Contents <- RelatedContents
  ShapeOf <- RelatedShapes
  SourceNamespace = n1
  Runs = {r1}
  Triggers = {}
  Settings <- StartRepresented
  Environment = {"upstream", "mapping", "home", "represents"}
  MaxChanges = 2
SPECIFICATION FairSpec
PROPERTIES QuietSyncMirrors QuietSyncRelates QuietSyncFlags MirroredInTheEnd
