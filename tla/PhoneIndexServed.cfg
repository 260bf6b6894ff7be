SPECIFICATION Spec
CONSTANTS
  p1 = p1
  p2 = p2
  o1 = o1
  o2 = o2
  None = None
  Procs <- MCProcs
  Orgs <- MCOrgs
  FirstOrg = o1
  Databases <- MCDatabases
  RETRIES = 2
  MaxDeals = 2
  MaxDisruptions = 0
INVARIANTS
  PhoneIndexServed
\* A process that serves and is not disturbed has nothing left to do.
CHECK_DEADLOCK FALSE
