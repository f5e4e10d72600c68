SPECIFICATION TransferSpec
CONSTANTS
  Elements = {"crm_Person", "hr_Person", "crm_Agent"}
  Names = {"Person", "Agent"}
  NameOf <- MCNameOf
  Positions = {1, 2}
  Calls = {1}
  MaxCalls = 5
  ChunkSize = 1
  Namespaces = {"crm", "hr"}
  Default = "crm"
  ShapeIri <- MCShapeIri
  Datatypes = {"xsd_string"}
  HomeOf <- MCHomeOf
  Notes = {"note"}
  Workspace = "ws"
  Repositories <- MCRepositories
  Foreign <- MCForeign
  Scopes <- MCScopes
  Edits <- MCEdits
  MaxLoads = 2
  CallsBeside <- MCCallsBeside
CHECK_DEADLOCK FALSE
INVARIANT PanelShowsItsScope
