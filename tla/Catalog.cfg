SPECIFICATION Spec
CONSTANTS
  Names <- MCNames
  Tenants = {t1}
  NoTenant = NoTenant
  Definitions <- MCDefinitions
  Renames <- MCRenames
  Lists <- MCLists
  DefaultLimit = 2
  Clients = {c1}
  Requests = {r1}
  MaxWorkflows = 3
  MaxDisturbed = 1
  MaxExecutions = 1
  MaxPosition = 4
INVARIANTS TypeOK WalkComplete DefinitionKept NextPageExists
CHECK_DEADLOCK FALSE
