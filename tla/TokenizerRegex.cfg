\* One character of each class; "'s" is a contraction.
SPECIFICATION TokenizerSpec
CONSTANTS
  Letters = {"s", "l"}
  Numbers = {"1"}
  Others = {".", "'"}
  Newlines = {"nl"}
  Tabs = {"tab"}
  Space = " "
  Apostrophe = "'"
  Contractions <- MCContractions
  Bos = "bos"
  Inputs <- MCInputs
CHECK_DEADLOCK FALSE
INVARIANT ChunksMatchRegex
