SPECIFICATION FairSpec
CONSTANTS
  Images = {1, 2, 3, 4, 5, 6}
  Factory = 1
  Chunk = 2
  Faults <- NoFaults
  NoOta = NoOta
  MaxUploads = 2
  MaxCommands = 1
  MaxPulls = 0
  MaxCuts = 0
PROPERTIES
  UploadInstalls
