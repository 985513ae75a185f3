SPECIFICATION FairSpec
CONSTANTS
  r1 = r1
  r2 = r2
  Requests <- MCRequests
INVARIANTS
  CallsAreExact
PROPERTIES
  ResolvedOnce
  CallCompletes
