CONSTANTS
  d1 = d1
  d2 = d2
  d3 = d3
  Domains <- MCDomains
  None = None
  MaxMigrations = 2
  MaxOps = 2
  QueryNames <- MCOneQueryName
  ContextIds <- MCContextIds
  MaxDeaths = 0
SPECIFICATION Spec
INVARIANT
  IngressColumnsMatch
