CONSTANTS
  c1 = c1  c2 = c2  edit = edit  register = register  p1 = p1  p2 = p2  None = None
  Consumers = {c1}
  Writes = {}
  NamespaceWrites = {}
  Refreshes = {"first", "again"}
  Loads = {p1, p2}
SPECIFICATION RecoverySpec
PROPERTIES OutageIsForgotten
