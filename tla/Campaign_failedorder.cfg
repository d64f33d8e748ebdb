\* A master that is killed, and slaves that do not fail by themselves.
SPECIFICATION Spec
CONSTANTS
  NbSlaves = 2
  NbMin = 1
  NbMax = 2
  Step = 1
  Iterations = 2
  Warmup = TRUE
  MaxClients = 2
  MaxMasters = 1
  MaxKills = 1
  MaxFaults = 0
PROPERTY FailedOrderContinues
