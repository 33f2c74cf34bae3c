SPECIFICATION FairSpec
CONSTANTS
  Images = {1, 3, 4}
  Factory = 4
  Chunk = 2
  Faults <- AllFaults
  NoOta = NoOta
  MaxUploads = 2
  MaxCommands = 1
  MaxPulls = 0
  MaxCuts = 1
INVARIANTS
  BootSlotComplete
  FlowControl
PROPERTIES
  DoneIsAboutThisImage
  TrialBootSpec
  SessionEnds
  UploadReturns
