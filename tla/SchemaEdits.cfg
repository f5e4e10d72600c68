CONSTANTS
  n1 = n1
  n2 = n2
  a = a
  b = b
  z = z
  Namespaces <- MCNamespaces
  Classes <- MCClasses
  HomeOf <- MCHomeOf
  External = {v}
  x = x
  y = y
  Names <- MCNames
  Drawn <- MCDrawn
  Editors = {u}
  MaxEdits = 3
  MaxFailures = 1
SPECIFICATION Spec
SYMMETRY Twins
CHECK_DEADLOCK FALSE
INVARIANTS DeletionsLeaveNothing NothingDanglesUnwarned HierarchiesEnd GenericsStayDeclared ShapesFollowSchema
