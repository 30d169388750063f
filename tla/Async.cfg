SPECIFICATION RuntimeSpec
CONSTANTS
  Programs <- MCPrograms
  MaxThreads = 3
  MaxSpawns = 2
  MaxChannels = 2
  Buf = 3
  MaxTries = 2
  Nodes = {"1"}
  OtherPipes = {}
  Messages = {7}
  MaxPipes = 2
  MaxFifos = 3
  MaxPipeCalls = 5
  FifoCap = 1
  ReadCap = 1
  BloodNames = {"a", "b"}
  Texts = {"t", "bad"}
  Broken = {"bad"}
  MaxModulesBuilt = 3
  Top = 2
  DebtTop = 2
  DebtLimit = 1
  SeasonSteps = 2
  GammaNames = {"a", "b", "c"}
  MaxGamma = 2
  HistoryLen = 2
  TrendWindow = 1
  Harmonics = 1
  MaxOrganisms = 2
  MaxFieldCalls = 8
  Voices = {"yent", "janus"}
  Vocabulary <- MCVocabulary
  MaxEdges = 3
  RingLen = 2
  Window = 2
  MaxText = 3
  CntCap = 3
  PruneFloor = 2
  HostScripts <- MCHostScripts
  NamedScripts <- MCNamedScripts
  Builtins = {"galvanize"}
  MaxFuncs = 3
  MaxCallDepth = 2
  MaxIterations = 2
  MaxNesting = 2
INVARIANTS ChannelsAreQueues JoinsAreFinal PipesLeadToTheirPath LibrariesFollowRows
  WordsAreOwnAndOnce RestoredFieldFollows ScriptsRunAsWritten
PROPERTY ScriptsEnd
CHECK_DEADLOCK FALSE
