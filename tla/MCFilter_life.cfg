SPECIFICATION Spec
CONSTANTS
  Fws = {"lite", "custom", "npu"}
  FwNames = {"auto", "lite", "custom", "npu"}
  Models <- MCModels
  Shapes = {"a", "b"}
  Streams <- MCStreams
  Rates = {1, 2}
  Combis <- MCCombis
  Version <- MCVersion
  GetDim = {"lite", "npu"}
  SetDim = {"custom", "npu"}
  Reloads = {"lite"}
  Opens <- MCOpens
  Detect <- MCDetect
  InOf <- MCInOf
  OutFor <- MCOutFor
  Careful = TRUE
INVARIANTS FilterState PushedAsNegotiated
PROPERTIES InvokedAsOpened
CHECK_DEADLOCK FALSE
