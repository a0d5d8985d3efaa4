SPECIFICATION PluginsSpec
CONSTANTS
  RankLimit = 3
  RankLimitPrev = 2
  SizeLimit = 3
  DimWord = 8
  InfoTypes <- MCInfoTypes
  LinkStrings <- MCLinkStrings
  LinkConfigs <- MCLinkConfigs
  LinkTemplates <- MCLinkTemplates
  MemoryMax = 3
  ExtraLimit = 3
  TensorSizes = {1, 2}
  ExtraHeader = 2
  FlexHeader = 1
  SpThreads = {"s", "t"}
  SpTypes <- MCSpTypes
  SpNames = {"p", "q", "a"}
  SpAppNames = {"a"}
  SpFiles <- MCSpFiles
  SpPaths <- MCSpPaths
  SpMaxCalls = 2
  BbDecoders = {"d1"}
  BbModes = {"yolov5", "yolov8", "yolov10", "mobilenet-ssd", "mobilenet-ssd-postprocess", "ov-person-detection", "mp-palm-detection"}
  BbTracked = {"yolov10"}
  BbUnit = 4
  BbAnchors <- MCBbAnchors
  BbPriorFiles <- MCBbPriorFiles
  BbConfigs <- MCBbConfigs
  BbSizes = {8}
  BbPicture <- MCBbPicture
  BbLabels = {0, 2}
  BbFrames <- MCBbFrames
  BbThresholds = {2, 3}
  BbIou <- MCBbIou
  BbChar <- MCBbChar
  BbLabelLength = 2
  MaxCentroids = 3
  DisappearLimit = 2
  BbMaxFrames = 3
  PoseDefault <- MCPoseDefault
  PoseFiles <- MCPoseFiles
  PoseMaxLinks = 3
  PoseOutputs <- MCPoseOutputs
  PoseInputs <- MCPoseInputs
  PoseConfigs <- MCPoseConfigs
  PoseHeats <- MCPoseHeats
  PoseOffsets <- MCPoseOffsets
  PoseSure = 2
  PoseDot <- MCPoseDot
  PoseChar <- MCPoseChar
  PoseLabelLen = 2
  SegConfigs <- MCSegConfigs
  SegMaxLabels = {1, 2}
  SegDefault = 2
  SegLanes = 2
  SegRgb = 15
  SegWhite = 15
  SegPalettes <- MCSegPalettes
  SegSure = 1
  SegProbs = {0, 2}
  SegValues = {0, 1, 3}
  SegGarbage = {0, 4}
  LabelFiles <- MCLabelFiles
  NoLabel = "empty"
  LabelScores = {0, 1, 2}
  LabelDims <- MCLabelDims
  VideoDims <- MCVideoDims
  VideoFormats <- MCVideoFormats
  VideoTypes = {1, 2, 4}
  OctetSizes = {1, 3}
  OctetHeader = 2
  RegionNums = {0, 1, 2}
  RegionConfigs <- MCRegionConfigs
  RegionFrames <- MCRegionFrames
  StatLatencies <- MCStatLatencies
  StatMaxRecent = 2
  StatCacheOld = 2
  StatDropOld = 4
  StatScale = 100
  StatIntMax = 40
  StatMaxInvokes = 6
  StatMaxSets = 2
  FoFws <- MCFoFws
  FoInstalled = {{"one", "cpus", "old", "two"}, {"two", "old"}}
  FoAliases <- MCFoAliases
  FoPriority <- MCFoPriority
  FoModels <- MCFoModels
  FoRequests <- MCFoRequests
  FoCustoms = {"c1", "c2"}
  FoLayouts <- MCFoLayouts
  FoTensors = 2
  FoNeon = {TRUE, FALSE}
  FoMaxSets = 5
  SerIdls = {"flexbuf", "flatbuf", "protobuf", "grpc", "grpcflat"}
  SerBytes <- MCSerBytes
  SerHeader = 2
  SerConfigs <- MCSerConfigs
  SerShapes <- MCSerShapes
  SerLimit = 3
  SerMaxFrames = 3
  TizenSpecs <- MCTizenSpecs
  TizenSensors <- MCTizenSensors
  TizenRates <- MCTizenRates
  TizenSequences <- MCTizenSequences
  TizenReadings = {7, 300}
  TizenMax <- MCTizenMax
  TflApis <- MCTflApis
  TflOutputs = 2
  TflShapes = {1, 2}
  TflPool = 2
  TflBounds <- MCTflBounds
  AraModels <- MCAraModels
  AraAsks = {1, 2}
  AraLimit = 3
CHECK_DEADLOCK FALSE
INVARIANTS LinkCorrect TensorsSurvive RegistryCorrect BoxesCorrect PicturesCorrect  TizenCorrect DelegatesCorrect
