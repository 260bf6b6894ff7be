SPECIFICATION Spec
CONSTANTS
  d1 = d1
  d2 = d2
  d3 = d3
  o1 = o1
  o2 = o2
  NoDeal = NoDeal
  Deals <- MCDeals
  Orgs = {o1, o2}
  OrgOf <- MCOrgOf
  MaxRows = 5
INVARIANTS
  TypeOK
  OneChain
  LogTellsState
PROPERTIES
  AtomicPair
\* The rows are bounded.
CHECK_DEADLOCK FALSE
