SPECIFICATION Spec
CONSTANTS
  Images = {1, 3}
  Factory = 1
  Chunk = 2
  Faults <- Stalls
  NoOta = NoOta
  MaxUploads = 2
  MaxCommands = 0
  MaxPulls = 0
  MaxCuts = 0
PROPERTIES
  OkMeansInstalled
