SPECIFICATION Spec
CONSTANTS
  Images = {1, 3}
  Factory = 1
  Chunk = 2
  Faults <- AllFaults
  NoOta = NoOta
  MaxUploads = 1
  MaxCommands = 0
  MaxPulls = 1
  MaxCuts = 1
INVARIANTS
  AlwaysBootable
