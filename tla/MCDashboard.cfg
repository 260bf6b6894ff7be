SPECIFICATION Spec
CONSTANTS
  d1 = d1
  d2 = d2
  o1 = o1
  b1 = b1
  b2 = b2
  t1 = t1
  t2 = t2
  All = All
  None = None
  Deals <- MCDeals
  OrgOf <- MCOrgOf
  BranchOf <- MCBranchOf
  Scopes <- MCScopes
  Threads <- MCThreads
  LeftRows <- MCLeftRows
  TTL = 1
  MaxChanges = 2
INVARIANTS
  TypeOK
  StaleExplained
PROPERTIES
  EventuallyFresh
