SPECIFICATION NotorchSpec
CONSTANTS
  w1 = w1
  w2 = w2
  Base = {w1, w2}
  AdapterA = A
  AdapterB = B
  MaxEntries = 10
  MaxParams = 3
  Plans <- TrainPlans
  GraphPlans <- AnyGraphPlans
  MaxOps = 2
  MaxSessions = 2
  Warmers = {"seq_linear", "rmsnorm", "lora"}
  Feeders = {"seq_linear", "gelu"}
  WordMax = 1023
  MaxTensors = 2
  MaxKv = 3
  MaxName = 4
  KeyBuffer = 6
  TextBuffer = 5
  ItemBuffer = 3
  Files <- MCFiles
  Shapes <- MCShapes
  Cores = {0, 2, 3, 8}
  MaxThreads = 3
  Gate = 8
  Bytes = 2
  MaxTokenLen = 5
  MergeLists <- MCMergeLists
  Texts <- MCTexts
  TextFiles <- MCTextFiles
  MergesFiles <- MCMergesFiles
  Sizes <- MCSizes
  MaxEpochs = 2
  Schedules <- MCSchedules
  MaxSteps = 9
  Geometries <- MCGeometries
  Norms <- MCNorms
  Attentions <- MCAttentions
INVARIANTS MirrorsAreTruthful ReadsAreLatest GradientsAreComplete MomentsAreOwn
  PackedProductsAreWhole TextIsTrainedWhole ImagesAreWhole
CHECK_DEADLOCK FALSE
