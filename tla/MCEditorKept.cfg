CONSTANTS
  Nil = Nil
  Settings <- MCSettings
  Canvas = 12
  MinSize = 2
  Snap = 1
  Size <- MCSize
  Corner = 4
  Step = 1
  Around = 2
  Columns = 2
  Gap = 1
  MaxHid = 3
  MaxTabs = 3
  SeedUid = 1
  RestartUid = 8
  Texts = {"plain", "dollar", "long"}
  Nudges <- MCNudges
  Documents <- MCDocuments
  Width = 12
  Places <- MCPlaces
  Scenarios <- MCScenarios
SPECIFICATION FairSpec
PROPERTIES EditsKept
CHECK_DEADLOCK FALSE
