CONSTANTS
  Width = 8
  Height = 8
  Gap = 1
  Close = 16
  Coarse = 2
  MaxPoints = 5
  Roles <- MCRoles
  Brake = "brake"
  Names = {1, 2}
  Cars <- MCCars
  Games <- MCGames
  Alike <- MCAlike
  Numbers = {0, 2}
  Spots <- MCSpots
  Hidden = {"default", "device"}
  Device <- MCDevice
  Scenarios <- MCScenarios
SPECIFICATION FairSpec
INVARIANTS WholeConfigs CurveOrdered
PROPERTIES MarksFollow AutoFollows
CHECK_DEADLOCK FALSE
