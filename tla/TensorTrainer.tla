---------------------------- MODULE TensorTrainer ----------------------------
(***************************************************************************)
(* tensor_trainer hands the samples of a stream to a sub-plugin, whose     *)
(* thread trains a model epoch by epoch and notifies the element at the    *)
(* end of each epoch and of the training. The streaming thread waits for   *)
(* the end of an epoch before the next one, and at the end of the stream   *)
(* for the end of the training. Pausing an unfinished training starts a    *)
(* thread that fills the epoch with dummy samples.                         *)
(***************************************************************************)
EXTENDS Integers, Element

CONSTANTS
  TrainSamples,      \* values of num-training-samples
  ValidSamples,      \* values of num-validation-samples
  TrainEpochs,       \* values of epochs
  TrainerMaxSamples, \* bound: samples the source sends
  TrainerMaxPlays,   \* bound: times the element is set to PLAYING
  TrainerMaxCount    \* bound: value of the counter of samples

ASSUME TrainerAssumption == TrainSamples \subseteq Nat /\ ValidSamples \subseteq Nat

VARIABLE trainer

(***************************************************************************)
(* stream: what the streaming thread does; dummy: the thread of dummy      *)
(* data, holding the count it has read between its read and its write (the *)
(* counter is not locked). out is what was pushed downstream: how often,   *)
(* and the figures of the last time. fw is the sub-plugin: got are the     *)
(* samples it has for the present epoch, ending that it leaves after this  *)
(* epoch. clean remembers how the training was stopped, for the last       *)
(* property.                                                               *)
(***************************************************************************)
TrainerInit ==
  trainer \in [train : TrainSamples, valid : ValidSamples, epochs : TrainEpochs,
               name : {"nntrainer", "other"}, state : {"ready"}, plays : {0},
               created : {FALSE}, complete : {FALSE}, epochDone : {FALSE},
               cnt : {0}, required : {0}, stream : {"idle"}, sent : {0},
               out : {[n |-> 0, epoch |-> 0]}, dummy : {"none"}, read : {0},
               clean : {FALSE},
               fw : {[run |-> FALSE, got |-> 0, epoch |-> 0, stop |-> FALSE,
                      ending |-> FALSE]}]

Needed == trainer.train + trainer.valid

\* Some value of a property is missing.
InvalidParam == trainer.epochs <= 0

\* find_framework, create_framework: once.
CreateModel(t) == [t EXCEPT !.created = TRUE]

\* The sub-plugin starts, or starts again, with the first epoch.
StartModelTraining(t) ==
  [t EXCEPT !.fw = [run |-> TRUE, got |-> 0, epoch |-> 0, stop |-> FALSE, ending |-> FALSE]]

\* PAUSED to PLAYING: the model is created once; the training is started each time.
Play ==
  /\ trainer.state \in {"ready", "paused"} /\ trainer.plays < TrainerMaxPlays
  /\ trainer' = IF InvalidParam THEN [trainer EXCEPT !.state = "failed"]
                ELSE [StartModelTraining(CreateModel(trainer))
                      EXCEPT !.state = "playing", !.plays = @ + 1]

\* PLAYING to PAUSED: a thread for the dummy data, of nntrainer only.
PauseTraining ==
  /\ trainer.state = "playing"
  /\ trainer' = [trainer EXCEPT
       !.state = "paused",
       !.dummy = IF ~trainer.complete /\ trainer.name = "nntrainer" THEN "stop" ELSE @]

\* To NULL and back to READY, when no thread is at work: the counter and the flag of
\* the epoch keep their values.
Restart ==
  /\ trainer.state = "paused" /\ trainer.stream \in {"idle", "eos"}
  /\ trainer.dummy \in {"none", "done"}
  /\ trainer' = [trainer EXCEPT !.state = "ready", !.complete = FALSE, !.stream = "idle"]

-----------------------------------------------------------------------------
\* chain: a sample after the end of the training is dropped; otherwise it is pushed
\* to the sub-plugin and counted.
PushData ==
  /\ trainer.state \in {"playing", "paused"} /\ trainer.created
  /\ trainer.stream = "idle" /\ trainer.sent < TrainerMaxSamples
  /\ trainer.cnt < TrainerMaxCount
  /\ IF trainer.complete THEN trainer' = [trainer EXCEPT !.sent = @ + 1]
     ELSE trainer' = [trainer EXCEPT !.sent = @ + 1, !.fw.got = @ + 1, !.cnt = @ + 1,
                                     !.stream = "pushed"]

\* Too many tensors, a memory that cannot be mapped, a header that cannot be parsed or
\* a size that is not that of the caps: the sample is not pushed.
RefuseSample ==
  /\ trainer.state = "playing" /\ trainer.stream = "idle" /\ ~trainer.complete
  /\ trainer.sent < TrainerMaxSamples
  /\ trainer' = [trainer EXCEPT !.sent = @ + 1, !.stream = "error"]

\* The sub-plugin refuses the sample, which is counted all the same.
PushFails ==
  /\ trainer.state = "playing" /\ trainer.stream = "idle" /\ ~trainer.complete
  /\ trainer.sent < TrainerMaxSamples /\ trainer.cnt < TrainerMaxCount
  /\ trainer' = [trainer EXCEPT !.sent = @ + 1, !.cnt = @ + 1, !.stream = "error"]

\* epochs_is_complete: at the last sample of an epoch the thread waits.
EpochsIsComplete ==
  /\ trainer.stream = "pushed"
  /\ IF trainer.cnt = 1 THEN trainer' = [trainer EXCEPT !.stream = "output"]
     ELSE trainer' = [trainer EXCEPT
            !.required = Needed,
            !.stream = IF trainer.cnt = Needed THEN "waitEpoch" ELSE "idle"]

\* Mutant: the end of an epoch is not waited for.
WaitEpoch_NoWait ==
  /\ trainer.stream = "waitEpoch"
  /\ trainer' = [trainer EXCEPT !.epochDone = FALSE, !.cnt = 0, !.stream = "output"]

\* wait_for_epoch_completion, and the reset of the counter.
WaitEpoch ==
  /\ trainer.stream = "waitEpoch" /\ trainer.epochDone
  /\ trainer' = [trainer EXCEPT !.epochDone = FALSE, !.cnt = 0, !.stream = "output"]

\* create_output_tensors: the figures the sub-plugin has now, here the epochs done.
PushOutput ==
  /\ trainer.stream = "output"
  /\ trainer' = [trainer EXCEPT !.out = [n |-> @.n + 1, epoch |-> trainer.fw.epoch],
                            !.stream = "idle"]

\* The end of the stream waits for the end of the training.
EosEvent ==
  /\ trainer.state \in {"playing", "paused"} /\ trainer.stream = "idle"
  /\ trainer' = [trainer EXCEPT
       !.stream = IF trainer.complete THEN "eos" ELSE "waitTraining"]

WaitTraining ==
  /\ trainer.stream = "waitTraining" /\ trainer.complete
  /\ trainer' = [trainer EXCEPT !.stream = "eos"]

-----------------------------------------------------------------------------
(***************************************************************************)
(* The thread of dummy data: it stops the training, then pushes samples,   *)
(* one at least, until the epoch has as many as it needs.                  *)
(***************************************************************************)
DummyStop ==
  /\ trainer.dummy = "stop"
  /\ trainer' = [trainer EXCEPT !.dummy = "push", !.fw.stop = TRUE,
       !.clean = trainer.plays = 1 /\ trainer.stream = "idle"
                 /\ trainer.cnt \in 1..(trainer.required - 1)]

DummyPush ==
  /\ trainer.dummy = "push" /\ trainer.cnt < TrainerMaxCount
  /\ trainer' = [trainer EXCEPT !.dummy = "count", !.read = trainer.cnt, !.fw.got = @ + 1]

DummyCount ==
  /\ trainer.dummy = "count"
  /\ LET cnt == trainer.read + 1
     IN trainer' = [trainer EXCEPT
          !.cnt = cnt, !.read = 0,
          !.dummy = IF trainer.required > cnt THEN "push" ELSE "done"]

-----------------------------------------------------------------------------
(***************************************************************************)
(* The sub-plugin's training thread and its notifications. An epoch is     *)
(* trained with all its samples, also when the training has been stopped.  *)
(***************************************************************************)
EpochCompletion ==
  /\ trainer.fw.run /\ ~trainer.fw.ending /\ trainer.fw.got >= Needed
  /\ trainer' = [trainer EXCEPT
       !.fw.got = @ - Needed, !.fw.epoch = @ + 1, !.epochDone = TRUE,
       !.fw.ending = trainer.fw.stop \/ trainer.fw.epoch + 1 = trainer.epochs]

TrainingCompletion ==
  /\ trainer.fw.run /\ trainer.fw.ending
  /\ trainer' = [trainer EXCEPT !.fw.run = FALSE, !.complete = TRUE]

TrainerNext ==
  \/ Play \/ PauseTraining \/ Restart
  \/ PushData \/ RefuseSample \/ PushFails \/ EpochsIsComplete
  \/ WaitEpoch \/ PushOutput \/ EosEvent \/ WaitTraining
  \/ DummyStop \/ DummyPush \/ DummyCount
  \/ EpochCompletion \/ TrainingCompletion

\* Threads that can go on do: the streaming thread in chain, that of the dummy data and
\* the sub-plugin's. Nothing forces the application or the source.
TrainerFair ==
  /\ WF_trainer(trainer # Absent
                /\ (EpochsIsComplete \/ WaitEpoch \/ PushOutput \/ WaitTraining))
  /\ WF_trainer(trainer # Absent /\ (DummyStop \/ DummyPush \/ DummyCount))
  /\ WF_trainer(trainer # Absent /\ (EpochCompletion \/ TrainingCompletion))

-----------------------------------------------------------------------------
(***************************************************************************)
(* The figures pushed downstream belong to their epoch: those of the end   *)
(* of epoch k are pushed when the sub-plugin has trained k epochs, neither *)
(* before nor after it trained another, and those of its first sample when *)
(* it has trained k - 1; for an element that is not paused, with more than *)
(* one sample in an epoch.                                                 *)
(***************************************************************************)
StatsOfEpoch ==
  trainer # Absent /\ trainer.plays = 1 /\ trainer.state = "playing" /\ Needed > 1 =>
    trainer.out.epoch = trainer.out.n \div 2

(***************************************************************************)
(* A streaming thread that waits gets on: for the end of an epoch always,  *)
(* also when it was notified before the wait began, and at the end of the  *)
(* stream when all the samples announced were sent.                        *)
(***************************************************************************)
WaitsEnd ==
  (trainer # Absent /\ trainer.plays = 1 /\ trainer.state = "playing"
   /\ \/ trainer.stream = "waitEpoch"
      \/ trainer.stream = "waitTraining" /\ trainer.sent >= Needed * trainer.epochs)
    ~> (trainer # Absent /\ (\/ trainer.stream \notin {"waitEpoch", "waitTraining"}
                             \/ trainer.state # "playing"))

(***************************************************************************)
(* A training that is stopped within an epoch ends: the dummy samples fill *)
(* the epoch, whatever the streaming thread still adds, and their thread   *)
(* comes to an end. (Stopped before the second sample, when the number of  *)
(* samples needed has not been computed, or while the streaming thread     *)
(* waits for the epoch, it may not.)                                       *)
(***************************************************************************)
PausedTrainingEnds ==
  (trainer # Absent /\ trainer.dummy = "push" /\ trainer.clean)
    ~> (trainer # Absent /\ (\/ trainer.dummy = "done" /\ trainer.complete
                             \/ trainer.state # "paused"))
=============================================================================
