\* slg_master is started again on slaves that still serve the one before;
\* the second wave asks for more clients than a slave takes.  Fair scheduling
\* of the processes.
SPECIFICATION FairSpec
CONSTANTS
  NbSlaves = 2
  NbMin = 1
  NbMax = 3
  Step = 2
  Iterations = 2
  Warmup = FALSE
  MaxClients = 2
  MaxMasters = 2
  MaxKills = 1
  MaxFaults = 1
INVARIANTS SamplesAreOneLoad TablesFit
PROPERTIES CampaignEnds SlavesComeBack
