SPECIFICATION Spec
CONSTANTS
  Weights = {"w1", "w2"}
  Input = "x"
  Results = {"h"}
  Names <- AllNames
  MaxEntries = 5
  MaxParams = 2
  Plans <- AllPlans
  GraphPlans <- AnyGraphPlans
  MaxOps = 2
  MaxSteps = 2
  MaxScripts = 2
  Warmers = {"seq_matvec"}
  Feeders = {"seq_matvec", "gelu", "add"}
INVARIANT AdditionsAddOnce
CHECK_DEADLOCK FALSE
