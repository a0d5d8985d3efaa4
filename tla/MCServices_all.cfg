SPECIFICATION ServicesSpec
CONSTANTS
  RepoStatic <- MCRepoStatic
  RepoShapes <- MCRepoShapes
  RepoBlocks = {1, 2}
  RepoSequences <- MCRepoSequences
  RepoEpochs = {1, 2}
  RepoWord = 16
  RepoMaxSamples = 3
  RepoMaxPlays = 2
  RepoMaxReads = 8
  TrainSamples = {2}
  ValidSamples = {1}
  TrainEpochs = {0, 2}
  TrainerMaxSamples = 4
  TrainerMaxPlays = 2
  TrainerMaxCount = 4
  EdgeSrcs = {1}
  EdgeMaxBuffers = 2
  EdgeMaxStarts = 2
  MqttSizes = {2, 3}
  MqttMaxSizes = {0, 2}
  MqttHeader = 1
  MqttNumBuffers <- MCMqttNumBuffers
  MqttMaxStarts = 2
  MqttMaxRenders = 2
  MqttEpochs = {1, 2}
  MqttStamps = {1}
  MqttCaps = {"a", "b"}
  MqttPatience = 2
  MqttMaxMessages = 2
  MqttMaxPlays = 2
  GrpcModes <- MCGrpcModes
  GrpcMaxFrames = 2
CHECK_DEADLOCK FALSE
INVARIANTS RepoStored StatsOfEpoch  MqttCorrect GrpcCorrect
 
