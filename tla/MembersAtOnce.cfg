SPECIFICATION Spec
CONSTANTS
  Elements = {"crm_Person", "hr_Person", "crm_Order"}
  Names = {"Person", "Order"}
  NameOf <- MCNameOf
  Positions = {1, 2}
  Calls = {1, 2}
  MaxCalls = 2
  ChunkSize = 1
INVARIANT
  NoSharedSubject
CHECK_DEADLOCK FALSE
