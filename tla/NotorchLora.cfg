SPECIFICATION Spec
CONSTANTS
  w1 = w1
  w2 = w2
  Base = {w1, w2}
  AdapterA = A
  AdapterB = B
  MaxEntries = 10
  MaxParams = 3
  Plans <- LoraPlans
  GraphPlans = {}
  MaxOps = 2
  MaxSessions = 1
  Warmers = {"lora"}
  Feeders = {"seq_linear", "gelu"}
INVARIANT EveryTrainableIsStepped
CHECK_DEADLOCK FALSE
