SPECIFICATION FairSpec
CONSTANTS
  steve = steve
  alex = alex
  Players = {steve, alex}
  ActivityCap = 2
  DeathCap = 1
  Faults = {"statement", "command", "crash"}
  EventBound = 3
INVARIANTS
  TypeOK
  PlacesBelong
  NoRowForgotten
PROPERTIES
  ActivityIsCappedLog
  DeathsAreCappedLog
  ComesToRest
