SPECIFICATION FairSpec
CONSTANTS
  ScoreOne = 100
  DecayOne = 20
  InitialScore = 50
  Beta = 50
  SplitNMin = 4
  MaxSamples = 5
  MinOverlap = 3
  Heart = heart
  Rpc = rpc
  Clients = {rpc}
  Nobody_ = nobody
  Torn = torn
  Scenarios <- MCScenarios
INVARIANTS
    CoactivationsAccounted
PROPERTIES
    HostEditsSurvive
    ReflexCoreConserved
    MergesIntoLive
    
    ConflictsDeclared
