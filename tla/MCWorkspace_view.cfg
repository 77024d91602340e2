CONSTANTS
  Calls = {c1, c2}
  MaxLosses = 1
  None = None
SPECIFICATION FairSpec
CHECK_DEADLOCK FALSE
INVARIANTS
  TypeOK
  ProjectIsAuthoritative
  NoErrorForOpenProject
  CardShowsRunningOpen
PROPERTIES
  OpeningEnds
