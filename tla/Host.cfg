SPECIFICATION HostSpec
CONSTANTS
  Names = {"field", "kk"}
  KernelName = "sartre_kernel"
  SizeOf <- MCSizeOf
  Paths <- MCPaths
  FormatOf <- MCFormatOf
  FileSizes <- MCFileSizes
  Ram = 80
  MaxEvents = 2
  MaxModules = 2
  MaxNamespaces = 2
  MaxPackages = 2
  MaxModels = 2
  MaxCalls = 6
  Scripts <- MCScripts
  Manifest <- MCManifest
  MaxSlots = 2
  MaxArgv = 6
  a1 = a1
  a2 = a2
  b = b
  PeersTxt <- Txt
  HostOf <- HostName
  MaxPolls = 3
  MaxCrashes = 1
  MaxChanges = 2
  Ids = {"a/b", "a__b", "heart"}
  SlotFiles <- MCFiles
  slotFilename <- MCFile
  MaxInstalls = 2
  stdout = stdout
  stderr = stderr
  c1 = c1
  c2 = c2
  Pumps <- Both
  Clients <- OneClient
  Lines <- ThreeAndOne
  SubCap = 1
  ChanCap = 2
  RingCap = 3
  PipeCap = 2
INVARIANTS LogTellsTables CommandEndsClean SessionInOrder SlotsAreServed JoinedGetClosed StreamIsWhole
PROPERTIES TierIsJudged IdsAreStable LastKnownIsKept
CHECK_DEADLOCK FALSE
