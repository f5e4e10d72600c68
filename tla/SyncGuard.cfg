CONSTANTS
  kA = kA  kB = kB  c1 = c1  c2 = c2  n1 = n1  n2 = n2
  e1 = e1  e2 = e2  e3 = e3  x = x  y = y  t1 = t1
  None = None  Keep = Keep
  Kinds = {kA, kB}
  Classes = {c1, c2}
  Namespaces = {n1, n2}
  Entities = {e1}
  Refs = {x, y}
  Targets = {}
  KindOf <- OneKind
  RefOf <- OneRef
  Contents <- OnlyPlain
  ShapeOf <- NoShapes
  SourceNamespace = n1
  Runs = {r1, r2}
  Triggers = {r2}
  Settings <- StartMapped
  Environment = {"upstream", "late", "home", "mapping", "graph"}
  MaxChanges = 1
SPECIFICATION Spec
INVARIANTS GuardHeldExactly
PROPERTIES ImplementsContract SyncNeverDestroys
