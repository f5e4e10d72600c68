CONSTANTS
  h = h
  j = j
  a = a
  b = b
  age = age
  p = p
  one = one
  two = two
  tag = tag
  u = u
  w = w
  adder = adder
  remover = remover
  Individuals <- MCIndividuals
  Classes <- MCClasses
  Single <- MCSingle
  Repeatable <- MCRepeatable
  Relations <- MCRelations
  FieldsOf <- MCFieldsOf
  RangeOf <- MCRangeOf
  LabelOf <- MCLabelOf
  Start <- MCStart
  Adder = adder
  Remover = remover
  Clients <- MCClients
  MaxEdits = 2
  MaxFailures = 1
  Unreliable <- MCUnreliable
SPECIFICATION TableSpec
SYMMETRY Alike
CHECK_DEADLOCK FALSE
INVARIANTS TableShowsStored AnnotationsFollowTheirFact FormsMerge
PROPERTIES AnnotationsOutliveEdits
