CONSTANTS
  d1 = d1
  d2 = d2
  d3 = d3
  Domains <- MCDomains
  None = None
  MaxMigrations = 2
  MaxOps = 2
  QueryNames <- MCOneQueryName
  ContextIds <- MCContextIds
  MaxDeaths = 1
SPECIFICATION Spec
\* a commit waiting on a dead domain never moves again, and a panic ends
\* the controller: the system really stops there
CHECK_DEADLOCK FALSE
PROPERTIES
  CommitEndsUnlessDomainDies
