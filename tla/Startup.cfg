SPECIFICATION FairSpec
CONSTANTS
  IssueBound = 4
INVARIANTS
  TypeOK
  StaleOnlyIfMissed
PROPERTIES
  RenewalIsServed
