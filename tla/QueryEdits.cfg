CONSTANTS
  None = None
  a = a
  b = b
  p = p
  q = q
  r = r
  text = text
  number = number
  Classes = {a, b}
  FieldsOf <- MCFields
  Numbers = {number}
  Links <- MCLinks
  Stored <- MCStored
  MaxEdits = 3
SPECIFICATION Spec
INVARIANTS NothingDangles HopsAreJoins GroupsAreChoices
