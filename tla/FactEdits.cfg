CONSTANTS
  h = h
  j = j
  a = a
  b = b
  age = age
  tag = tag
  p = p
  q = q
  one = one
  two = two
  Individuals <- MCIndividuals
  Classes <- MCClasses
  Single <- MCSingle
  Repeatable <- MCRepeatable
  Relations <- MCRelations
  FieldsOf <- MCFieldsOf
  RangeOf <- MCRangeOf
  LabelOf <- MCLabelOf
  Start <- MCStart
  u = u
  w = w
  Clients <- MCClients
  Unreliable <- MCClients
  MaxEdits = 3
  MaxFailures = 1
SPECIFICATION Spec
INVARIANTS TypeOK AnnotationsFollowTheirFact FormsMerge
PROPERTIES AnnotationsOutliveEdits
SYMMETRY Alike
CHECK_DEADLOCK FALSE
