CONSTANTS
  Raw <- Ends
  Resting <- AtRest
  Feel <- Feels
  MinSpan = 20
  MaxLate = 1
  MaxUnplugs = 1
  MaxUpdates = 1
  MaxPresses = 3
SPECIFICATION Spec
INVARIANTS ShowsInEffect
PROPERTIES DoneIsSaved
CHECK_DEADLOCK FALSE
