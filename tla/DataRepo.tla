------------------------------ MODULE DataRepo ------------------------------
(***************************************************************************)
(* datareposink writes the samples of a stream to a file, and what is      *)
(* needed to find them to a JSON file when it is stopped; datareposrc      *)
(* reads them, once per epoch, in the order of the file or shuffled, in    *)
(* training and replay pipelines. A byte is <<sample, tensor, place>>, a   *)
(* sample the sequence of the sizes of its tensors. The kinds of data are  *)
(* "octet" (one block a sample, also video, audio and text), "static" and  *)
(* "flexible" tensors, and "image" (a file per sample).                    *)
(***************************************************************************)
EXTENDS Integers, Sequences, FiniteSets, Element
LOCAL INSTANCE SequencesExt

CONSTANTS
  RepoStatic,     \* sizes of the tensors of a static stream
  RepoShapes,     \* sizes of the tensors of a flexible sample
  RepoBlocks,     \* sizes of a block
  RepoSequences,  \* values of tensors-sequence; << >>: not set
  RepoEpochs,     \* values of epochs
  RepoWord,       \* bound: unsigned integers of the samples' indices
  RepoMaxSamples, \* bound: samples written
  RepoMaxPlays,   \* bound: times the sink is set to PLAYING
  RepoMaxReads    \* bound: buffers read, more than there are in all epochs

VARIABLE drepo

NoJson == [total |-> 0]
RepoKinds == {"octet", "static", "flexible", "image"}
Bytes(sample, sizes) ==
  FlattenSeq([t \in 1..Len(sizes) |-> [b \in 1..sizes[t] |-> <<sample, t, b>>]])
SumOf(s) == FoldSeq(LAMBDA a, b : a + b, 0, s)

RepoInit ==
  drepo \in [kind : RepoKinds, state : {"paused"}, plays : {0}, file : {<< >>},
             samples : {<< >>}, fdOffset : {0}, total : {0}, size : {0},
             offsets : {<< >>}, sizes : {<< >>}, counts : {<< >>}, cumulative : {0},
             json : {NoJson}, cut : {FALSE}, failed : {FALSE},
             src : {[state |-> "null"]}]

(***************************************************************************)
(* datareposink. Every change to PLAYING opens the file and empties it,    *)
(* also the one after a pause; the counts go on.                           *)
(***************************************************************************)
OpenFile ==
  /\ drepo.state = "paused" /\ drepo.plays < RepoMaxPlays
  /\ drepo' = [drepo EXCEPT
       !.state = "playing", !.plays = @ + 1,
       !.file = IF drepo.kind = "image" THEN @ ELSE << >>,
       !.cut = @ \/ (drepo.kind # "image" /\ drepo.total > 0)]

PauseSink ==
  /\ drepo.state = "playing"
  /\ drepo' = [drepo EXCEPT !.state = "paused"]

Rendering == drepo.state = "playing" /\ ~drepo.failed /\ drepo.total < RepoMaxSamples

\* write_others and write_multi_images: a block, or an image file, per sample.
WriteOthers(sizes) ==
  /\ Rendering /\ drepo.kind # "flexible"
  /\ drepo' = [drepo EXCEPT
       !.size = SumOf(sizes), !.file = @ \o Bytes(drepo.total, sizes),
       !.samples = Append(@, sizes),
       !.fdOffset = @ + SumOf(sizes), !.total = @ + 1]

\* Mutant: the tensors of a sample are counted before its count is stored.
WriteFlexible_Counted(sizes) ==
  /\ Rendering /\ drepo.kind = "flexible"
  /\ drepo' = [drepo EXCEPT
       !.file = @ \o Bytes(drepo.total, sizes), !.samples = Append(@, sizes),
       !.sizes = @ \o sizes, !.offsets = Append(@, drepo.fdOffset),
       !.fdOffset = @ + SumOf(sizes), !.counts = Append(@, drepo.cumulative + Len(sizes)),
       !.cumulative = @ + Len(sizes), !.total = @ + 1]

\* write_flexible_or_sparse_tensors: the sizes of the tensors, where the sample
\* starts in the file, and where its sizes start in the list of all sizes.
WriteFlexible(sizes) ==
  /\ Rendering /\ drepo.kind = "flexible"
  /\ drepo' = [drepo EXCEPT
       !.file = @ \o Bytes(drepo.total, sizes), !.samples = Append(@, sizes),
       !.sizes = @ \o sizes, !.offsets = Append(@, drepo.fdOffset),
       !.fdOffset = @ + SumOf(sizes), !.counts = Append(@, drepo.cumulative),
       !.cumulative = @ + Len(sizes), !.total = @ + 1]

\* A write fails after the first n tensors of a sample: their sizes are kept, the
\* sample is not counted, and the stream ends with an error.
WriteFails(sizes, n) ==
  /\ Rendering /\ drepo.kind = "flexible" /\ n < Len(sizes)
  /\ drepo' = [drepo EXCEPT !.failed = TRUE,
                            !.file = @ \o Bytes(drepo.total, SubSeq(sizes, 1, n)),
                            !.sizes = @ \o SubSeq(sizes, 1, n)]

\* stop, and READY to NULL: the file is closed and the JSON file written, once.
WriteJsonMetaFile ==
  /\ drepo.state \in {"playing", "paused"} /\ drepo.plays > 0
  /\ drepo' = [drepo EXCEPT
       !.state = "null",
       !.json = IF drepo.kind = "flexible"
                THEN [total |-> drepo.total, offsets |-> drepo.offsets,
                      sizes |-> drepo.sizes, counts |-> drepo.counts]
                ELSE [total |-> drepo.total, size |-> drepo.size]]

-----------------------------------------------------------------------------
(***************************************************************************)
(* datareposrc: its properties, of which json is read when it is set. The  *)
(* caps give the sizes of the tensors of a static stream, the JSON file    *)
(* those of octet streams and images.                                      *)
(***************************************************************************)
Offsets(sizes) == [t \in 1..Len(sizes) |-> SumOf(SubSeq(sizes, 1, t - 1))]

\* parse_caps overwrites the first entries of the two tables and sample_size.
SrcParseCaps(s, sizes) ==
  [s EXCEPT
     !.tsizes = [t \in 1..Len(RepoStatic) |-> IF t <= Len(sizes) THEN sizes[t] ELSE @[t]],
     !.toffsets = [t \in 1..Len(RepoStatic) |->
                     IF t <= Len(sizes) THEN Offsets(sizes)[t] ELSE @[t]],
     !.size = SumOf(sizes), !.config = sizes]

\* read_json_file and the other properties. A sequence with an index beyond the
\* tensors, or longer than they are, is refused.
SetProperties(start, stop, epochs, shuffle, seq) ==
  /\ drepo.src.state = "null" /\ drepo.json # NoJson /\ drepo.json.total > 0
  /\ drepo.kind \in {"octet", "image"} => drepo.json.size > 0
  /\ seq # << >> => drepo.kind = "static" /\ \A i \in 1..Len(seq) : seq[i] <= Len(RepoStatic)
  /\ LET blank == [state |-> "set", start |-> start, stop |-> stop, epochs |-> epochs,
                   given |-> epochs, shuffle |-> shuffle, seq |-> seq,
                   needCaps |-> seq # << >>, tsizes |-> [t \in 1..Len(RepoStatic) |-> 0],
                   toffsets |-> [t \in 1..Len(RepoStatic) |-> 0], config |-> << >>,
                   size |-> IF drepo.kind \in {"octet", "image"} THEN drepo.json.size ELSE 0,
                   started |-> FALSE, current |-> 0, num |-> 0, index |-> 0,
                   first |-> TRUE, array |-> << >>, pushed |-> << >>, read |-> << >>]
     IN drepo' = [drepo EXCEPT
          !.src = IF drepo.kind = "static" THEN SrcParseCaps(blank, RepoStatic) ELSE blank]

\* NULL to READY: the default of stop-sample-index, and the ranges.
SrcReady ==
  /\ drepo.src.state = "set"
  /\ LET s == drepo.src
         stop == IF s.stop = 0 THEN drepo.json.total - 1 ELSE s.stop
         valid == s.start < drepo.json.total /\ stop < drepo.json.total /\ s.epochs > 0
     IN drepo' = [drepo EXCEPT
          !.src = IF ~valid THEN [s EXCEPT !.state = "failed"]
                  ELSE [s EXCEPT !.state = "ready", !.stop = stop,
                                 !.seq = IF s.seq = << >>
                                         THEN [t \in 1..Len(s.config) |-> t] ELSE s.seq]]

\* get_caps with a tensors-sequence: the caps of the chosen tensors are parsed as
\* those of the file were.
GetCapsBySequence ==
  /\ drepo.src.state = "ready"
  /\ drepo' = [drepo EXCEPT
       !.src = LET s == [@ EXCEPT !.state = "playing"]
               IN IF ~s.needCaps THEN s
                  ELSE [SrcParseCaps(s, [i \in 1..Len(s.seq) |-> s.config[s.seq[i]]])
                        EXCEPT !.needCaps = FALSE]]

\* start: how many samples there are to read, an unsigned number.
SrcStart(s) ==
  IF s.started THEN s
  ELSE [s EXCEPT !.started = TRUE, !.current = s.start,
                 !.num = (s.stop - s.start + 1) % RepoWord]

\* epoch_is_done
EpochIsDone(s) ==
  IF s.num # s.index THEN s
  ELSE [s EXCEPT !.first = FALSE, !.index = 0, !.epochs = (@ - 1) % RepoWord]

\* shuffle_samples_index: places are swapped, any order can come out.
Shuffles(a) == SetToSeqs({a[i] : i \in 1..Len(a)})

\* Bytes of the file from an offset; fewer at its end, and none is the end of the
\* stream.
ReadAt(offset, n) ==
  SubSeq(drepo.file, offset + 1,
         IF offset + n < Len(drepo.file) THEN offset + n ELSE Len(drepo.file))

\* get_num_tensors
NumTensors(sample) ==
  (IF sample + 1 = Len(drepo.json.counts) THEN Len(drepo.json.sizes)
   ELSE drepo.json.counts[sample + 2]) - drepo.json.counts[sample + 1]

\* read_flexible_or_sparse_tensors: the sizes come one after the other.
ReadFlexible(sample) ==
  LET first == drepo.json.counts[sample + 1]
  IN [i \in 1..NumTensors(sample) |->
        ReadAt(drepo.json.offsets[sample + 1]
               + SumOf(SubSeq(drepo.json.sizes, first + 1, first + i - 1)),
               drepo.json.sizes[first + i])]

\* read_multi_images: a file that is not there is the end of the stream.
ReadImage(sample) ==
  IF sample < Len(drepo.samples) THEN Bytes(sample, drepo.samples[sample + 1]) ELSE << >>

\* read_tensors, or as many bytes as a sample has, or the file of an image: the
\* tensors read for a sample.
ReadSample(s, sample) ==
  CASE drepo.kind = "octet" -> <<ReadAt(s.size * sample, s.size)>>
    [] drepo.kind = "image" -> <<ReadImage(sample)>>
    [] drepo.kind = "static" ->
         [i \in 1..Len(s.seq) |->
            ReadAt(s.size * sample + s.toffsets[s.seq[i]], s.tsizes[s.seq[i]])]
    [] drepo.kind = "flexible" -> ReadFlexible(sample)

(***************************************************************************)
(* create: the end of an epoch or of the stream, the index of the sample,  *)
(* which in the first epoch is the next one, and the sample. Of samples    *)
(* whose range is empty or backwards only the end is modelled: the code    *)
(* reads an array out of its bounds.                                       *)
(***************************************************************************)
Create ==
  /\ drepo.src.state = "playing" /\ Len(drepo.src.pushed) < RepoMaxReads
  /\ LET done == EpochIsDone(SrcStart(drepo.src))
         ended == done.index = 0 /\ ~done.first /\ done.epochs = 0
     IN IF ended THEN drepo' = [drepo EXCEPT !.src = [done EXCEPT !.state = "eos"]]
        ELSE IF drepo.src.start > drepo.src.stop
        THEN drepo' = [drepo EXCEPT !.src = [done EXCEPT !.state = "failed"]]
        ELSE \E a \in (IF done.index = 0 /\ ~done.first /\ done.shuffle
                       THEN Shuffles(done.array) ELSE {done.array}) :
               LET array == IF done.first THEN Append(a, done.current) ELSE a
                   sample == array[done.index + 1]
                   read == ReadSample(done, sample)
                   short == \E i \in 1..Len(read) : read[i] = << >>
                   s == [done EXCEPT !.array = array, !.index = @ + 1,
                                     !.current = IF done.first THEN @ + 1 ELSE @]
               IN drepo' = [drepo EXCEPT
                    !.src = IF short THEN [s EXCEPT !.state = "eos"]
                            ELSE [s EXCEPT !.pushed = Append(@, sample), !.read = read]]

RepoNext ==
  \/ OpenFile \/ PauseSink \/ WriteJsonMetaFile
  \/ \E n \in RepoBlocks : drepo.kind \in {"octet", "image"} /\ WriteOthers(<<n>>)
  \/ drepo.kind = "static" /\ WriteOthers(RepoStatic)
  \/ \E s \in RepoShapes : WriteFlexible(s) \/ \E n \in 0..Len(s) : WriteFails(s, n)
  \/ \E start, stop \in 0..(RepoMaxSamples - 1), e \in RepoEpochs, b \in BOOLEAN,
        q \in RepoSequences : SetProperties(start, stop, e, b, q)
  \/ SrcReady \/ GetCapsBySequence \/ Create

\* The streaming thread goes on calling create until the stream ends.
RepoFair == WF_drepo(drepo # Absent /\ (SrcReady \/ GetCapsBySequence \/ Create))

-----------------------------------------------------------------------------
\* What the reading can be held to: the sink was not paused and resumed, which
\* empties the file, and its blocks have one size.
RepoSound ==
  /\ ~drepo.cut /\ ~drepo.failed
  /\ drepo.kind = "octet" =>
       \A i \in 1..Len(drepo.samples) : drepo.samples[i] = drepo.samples[1]

RepoReading == drepo # Absent /\ drepo.src.state = "playing" /\ drepo.src.pushed # << >>

(***************************************************************************)
(* What is read as a sample is that sample, with all its tensors and no    *)
(* byte of another, for every kind of data, in every order and epoch. For  *)
(* all tensors in their order: see RepoSequence.                           *)
(***************************************************************************)
RepoSamples ==
  RepoReading /\ RepoSound /\ ~drepo.src.needCaps
  /\ drepo.src.seq = [t \in 1..Len(drepo.src.config) |-> t] =>
    LET sample == Last(drepo.src.pushed)
    IN FlattenSeq(drepo.src.read) = Bytes(sample, drepo.samples[sample + 1])

(***************************************************************************)
(* In each epoch every sample of the range is read once, and the stream    *)
(* ends after the number of epochs that was asked for.                     *)
(***************************************************************************)
RepoOncePerEpoch ==
  drepo # Absent /\ drepo.src.state \in {"playing", "eos"} /\ RepoSound
  /\ drepo.src.start <= drepo.src.stop
  /\ drepo.src.seq = [t \in 1..Len(drepo.src.config) |-> t] =>
    LET s == drepo.src
        n == s.stop - s.start + 1
        epoch(k) == SubSeq(s.pushed, (k - 1) * n + 1, k * n)
    IN /\ \A k \in 1..(Len(s.pushed) \div n) :
            {epoch(k)[i] : i \in 1..n} = s.start..s.stop
       /\ s.state = "eos" => Len(s.pushed) = s.given * n

\* A source that was set up comes to an end or fails, whatever the file holds.
RepoEnds ==
  (drepo # Absent /\ drepo.src.state # "null")
    ~> (drepo # Absent /\ drepo.src.state \in {"eos", "failed"})

(***************************************************************************)
(* "if user sets tensor-sequence=2,1, datareposrc read offset 9528 then    *)
(* 9488": the tensors read are those the sequence names, of the sample.    *)
(***************************************************************************)
RepoSequence ==
  RepoReading /\ RepoSound /\ drepo.kind = "static" =>
    LET sample == Last(drepo.src.pushed)
    IN drepo.src.read =
         [i \in 1..Len(drepo.src.seq) |->
            [b \in 1..RepoStatic[drepo.src.seq[i]] |-> <<sample, drepo.src.seq[i], b>>]]

\* What datareposink wrote over several runs is what datareposrc reads, each
\* sample once in every epoch.
RepoStored == RepoSamples /\ RepoOncePerEpoch
=============================================================================
