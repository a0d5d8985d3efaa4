---------------------------- MODULE MCServices ----------------------------
(***************************************************************************)
(* The parts that work with a thread, a file or a peer of their own, one   *)
(* at a time: in each behaviour one is there and the others are absent.    *)
(* Each has the fairness its threads justify.                              *)
(***************************************************************************)
EXTENDS DataRepo, TensorTrainer, EdgePubSub, Mqtt, GrpcStream

MCRepoStatic == <<2, 1, 1>>
MCRepoShapes == {<<1>>, <<2, 1>>}
MCRepoSequences == {<< >>, <<3, 2>>}
MCMqttNumBuffers == {-1, 1}
MCGrpcModes == [server : {"sink", "src"}, sinkBlocks : BOOLEAN, srcBlocks : BOOLEAN, flat : {FALSE}, still : {FALSE}]
   \cup {[server |-> "src", sinkBlocks |-> TRUE, srcBlocks |-> TRUE, flat |-> TRUE, still |-> FALSE],
         [server |-> "sink", sinkBlocks |-> TRUE, srcBlocks |-> TRUE, flat |-> FALSE, still |-> TRUE]}

vars == <<drepo, trainer, edge, mqttsink, mqttsrc, grpc>>

ServicesInit ==
  \/ /\ RepoInit
     /\ trainer = Absent /\ edge = Absent /\ mqttsink = Absent /\ mqttsrc = Absent
     /\ grpc = Absent
  \/ /\ TrainerInit
     /\ drepo = Absent /\ edge = Absent /\ mqttsink = Absent /\ mqttsrc = Absent
     /\ grpc = Absent
  \/ /\ EdgeInit
     /\ drepo = Absent /\ trainer = Absent /\ mqttsink = Absent /\ mqttsrc = Absent
     /\ grpc = Absent
  \/ /\ MqttSinkInit
     /\ drepo = Absent /\ trainer = Absent /\ edge = Absent /\ mqttsrc = Absent
     /\ grpc = Absent
  \/ /\ MqttSrcInit
     /\ drepo = Absent /\ trainer = Absent /\ edge = Absent /\ mqttsink = Absent
     /\ grpc = Absent
  \/ /\ GrpcInit
     /\ drepo = Absent /\ trainer = Absent /\ edge = Absent /\ mqttsink = Absent
     /\ mqttsrc = Absent

ServicesNext ==
  \/ /\ drepo # Absent /\ RepoNext
     /\ UNCHANGED <<trainer, edge, mqttsink, mqttsrc, grpc>>
  \/ /\ trainer # Absent /\ TrainerNext
     /\ UNCHANGED <<drepo, edge, mqttsink, mqttsrc, grpc>>
  \/ /\ edge # Absent /\ EdgeNext
     /\ UNCHANGED <<drepo, trainer, mqttsink, mqttsrc, grpc>>
  \/ /\ mqttsink # Absent /\ MqttSinkNext
     /\ UNCHANGED <<drepo, trainer, edge, mqttsrc, grpc>>
  \/ /\ mqttsrc # Absent /\ MqttSrcNext
     /\ UNCHANGED <<drepo, trainer, edge, mqttsink, grpc>>
  \/ /\ grpc # Absent /\ GrpcNext
     /\ UNCHANGED <<drepo, trainer, edge, mqttsink, mqttsrc>>

ServicesFair ==
  /\ RepoFair /\ TrainerFair /\ EdgeFair /\ MqttSinkFair
  /\ MqttSrcFair /\ GrpcFair

ServicesSpec == ServicesInit /\ [][ServicesNext]_vars /\ ServicesFair

\* One part alone.
RepoOnly ==
  /\ RepoInit
  /\ trainer = Absent /\ edge = Absent /\ mqttsink = Absent /\ mqttsrc = Absent
  /\ grpc = Absent
RepoSpec == RepoOnly /\ [][ServicesNext]_vars

\* One part alone.
ResumeOnly ==
  /\ MqttSrcInit
  /\ drepo = Absent /\ trainer = Absent /\ edge = Absent /\ mqttsink = Absent
  /\ grpc = Absent
ResumeSpec == ResumeOnly /\ [][ServicesNext]_vars /\ MqttSrcFair

\* Nobody waits for good: reading, training, subscribing, publishing and
\* stopping come to an end, each under the fairness of its own threads.
ServicesEnd ==
  /\ RepoEnds /\ WaitsEnd /\ PausedTrainingEnds
  /\ EdgeSrcEnds /\ MqttSinkReturns /\ MqttCreateEnds
  /\ GrpcSinkStops
=============================================================================
