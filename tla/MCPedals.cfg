CONSTANTS
  Window = 2
  Samples = 2
  MaxVel = 1
  MaxAcc = 2
  MaxPower = 2
  Mass = 1
  MoreMass = 1
  Leash = 2
  AxisMax = 7
  Word = 4
  Rail = 1
  Scenarios <- MCScenarios
  Envelopes <- MCEnvelopes
  Configs <- MCConfigs
  Actions <- MCActions
  Forces <- MCForces
SPECIFICATION FairSpec
INVARIANTS MovesWhole WithinEnvelope
PROPERTIES EffectsEnd DisarmHeard
