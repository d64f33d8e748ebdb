\* One slg_master, two waves of a warm-up and two iterations.
SPECIFICATION Spec
CONSTANTS
  NbSlaves = 3
  NbMin = 1
  NbMax = 2
  Step = 1
  Iterations = 2
  Warmup = TRUE
  MaxClients = 2
  MaxMasters = 1
  MaxKills = 1
  MaxFaults = 1
INVARIANTS TypeOK LoadsInStep SamplesAreOneLoad TablesFit
PROPERTY ImplementsBenchmark
