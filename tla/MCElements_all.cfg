SPECIFICATION ElementsSpec
CONSTANTS
  RateGaps <- MCRateGaps
  RatePeriods = {2, 3}
  RateSegments <- MCRateSegments
  RateLatencies = {0, 4}
  MagicLimit = 3
  RateMaxTime = 8
  RateMaxIn = 4
  AggClients = {0, 7}
  AggFrames = {1, 2, 3}
  AggFlushes = {0, 1, 2, 3, 4}
  AggDims <- MCAggDims
  AggTick = 2
  AggMaxFrames = 6
  IfValues = {3, 6}
  IfSupplied <- MCIfSupplied
  IfCustom <- MCIfCustom
  IfPicks <- MCIfPicks
  IfMaxBuffers = 3
  CropGaps = {1, 2, 3}
  Latenesses <- MCLatenesses
  CropRegions <- MCCropRegions
  CropWidth = 3
  CropHeight = 3
  CropWord = 16
  CropMaxTime = 5
  JoinPads = {p1, p2}
  JoinCaps = {c1, c2}
  JoinMaxEvents = 3
  JoinMaxBuffers = 2
  DemuxTensors = {2, 3}
  DemuxPicks <- MCDemuxPicks
  SplitSegs <- MCSplitSegs
  SplitPicks <- MCSplitPicks
  DemuxMaxSteps = 6
  NegZero = NegZero
  MergeSizes = {1, 2}
  MergePads = 2
  MergeMaxCaps = 1
  SparseValues = {1, 2}
  SparseCount = 3
  SparseTypes = {"int8", "float32", "float16"}
  SparseMaxBuffers = 2
  SinkRates = {0, 1, 2, 5}
  SinkSecond = 4
  SinkMaxTime = 7
  DecModes = {"m1", "m2"}
  DecOptions = {1, 2}
  DecConfigs = {1, 2, 3}
  DecMedia = {1, 2}
  DecMaxSteps = 7
  ConvClients = {0, 7}
  ConvSizes = {2, 3}
  ConvOuts = {1, 2, 3}
  ConvPeriods = {0, 2}
  ConvSegments = {3}
  ConvVideos <- MCConvVideos
  ConvStrides = {8, 12, 16}
  ConvShapes = {"a", "b"}
  ConvMaxFrames = 6
  ConvMaxCaps = 3
  ConvMaxEvents = 1
  TrnOptions <- MCTrnOptions
  TrnTensors <- MCTrnTensors
  TrnApply = {{2}}
  TrnPhases = {0, 3}
  TrnUnit = 12
  TrnWord = 16
  TrnMaxSets = 4
  TrnMaxCaps = 2
  TrnMaxBuffers = 2
  IioTypes <- MCIioTypes
  IioTraits <- MCIioTraits
  IioEnabled = {{}, {1, 2}}
  IioTables = {{1, 3, 9}}
  IioFrequencies = {6}
  IioCapacities = {2}
  IioTriggers = {"t1"}
  IioFaults <- MCIioFaults
  IioSeeds = {7}
  IioTensorLimit = 2
  IioPatience = 1
  IioMaxStarts = 2
  AmcBuffers = 2
  AmcBounds <- MCAmcBounds
CHECK_DEADLOCK FALSE
INVARIANTS RateCorrect FramesKept Routed  Coded TrnCorrect Captured
PROPERTIES Paced
