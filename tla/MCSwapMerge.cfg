CONSTANTS
  d1 = d1
  d2 = d2
  Domains <- MCDomains
  OrigEdges <- MCOrigEdges
  MaxSharders = 2
  SharedSharders = FALSE
SPECIFICATION Spec
INVARIANTS
  TypeOK
  MergedIsNearest
