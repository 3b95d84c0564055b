CONSTANTS
  d1 = d1
  d2 = d2
  d3 = d3
  Domains <- MCDomains3
  None = None
  MaxMigrations = 2
  MaxOps = 2
  QueryNames <- MCOneQueryName
  ContextIds <- MCContextIds
  MaxDeaths = 0
SPECIFICATION Spec
SYMMETRY DomainSymmetry3
INVARIANTS
  TypeOK
  AddressesDense
  DomainsMatchController
  InitResolves
PROPERTIES
  ColumnsBeforeConnect
