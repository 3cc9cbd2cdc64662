SPECIFICATION Spec
CONSTANTS
  NumVPs = 2
  MaxThreads = 2
  CreateInRun = FALSE
  Parking = FALSE
PROPERTY IdleSteals
