----------------------------- MODULE MCElements -----------------------------
(***************************************************************************)
(* The elements that run on their own, one at a time: in each behaviour    *)
(* one of them is there and the others are absent.                         *)
(***************************************************************************)
EXTENDS TensorRate, TensorAggregator, TensorIf, TensorCrop, Join, TensorSplitMerge,
        TensorDecoder, TensorConverter, TensorTransform, TensorSrcIio, AmcSource

MCRateSegments == {[base |-> 0, start |-> 0, stop |-> NoTime],
                   [base |-> 1, start |-> 0, stop |-> 7]}
MCRateGaps == {-1, 1, 2, 5}
MCAggDims == {<<2, 2>>, <<3, 1>>}
MCIfSupplied == {<<3, 7>>, <<5, 300>>}
MCIfPicks == {<<2>>}
MCIfCustom == {b \in IfBuffers : b[1] = b[2]}
MCLatenesses == {-1, 0, 1}
MCCropRegions == [x : {0, 2, 3}, y : {1}, w : {0, 2, 15}, h : {2, 5}]
MCDemuxPicks == {<< >>, <<<<2>>>>, <<<<1>>, <<2, 1>>>>, <<<<2>>, <<3>>>>}
MCSplitSegs == {<<1, 2>>, <<2, 1, 1>>}
MCSplitPicks == {{}, {1, 2}, {2}}
MCConvVideos == {[format |-> "GRAY8", color |-> 1, width |-> 5, height |-> 2],
                 [format |-> "GRAY8", color |-> 1, width |-> 8, height |-> 2],
                 [format |-> "RGB", color |-> 3, width |-> 3, height |-> 2],
                 [format |-> "RGBx", color |-> 4, width |-> 2, height |-> 2]}
MCTrnOp(op, v, ch) == [op |-> op, value |-> v, ch |-> ch]
MCTrnTensor(d, t) == [dims |-> d, type |-> t]
MCTrnOptions ==
  {[kind |-> "transpose", order |-> <<p[1], p[2], p[3], 3>>] :
     p \in {q \in [1..3 -> 0..2] : \A i, j \in 1..3 : i # j => q[i] # q[j]}}
  \cup {[kind |-> "dimchg", from |-> f, to |-> t] : f \in {0, 1}, t \in {0, 2}}
  \cup {[kind |-> "padding", before |-> <<1, 0, 2>>, after |-> <<1, 1, 0>>, nhwc |-> b] :
         b \in BOOLEAN}
  \cup {[kind |-> "clamp", min |-> 24, max |-> m] : m \in {12, 48}}
  \cup {[kind |-> "typecast", type |-> t] : t \in {"uint8", "float32"}}
  \cup {[kind |-> "stand", type |-> "float32", per |-> b] : b \in BOOLEAN}
  \cup {[kind |-> "arithmetic", type |-> "any", chdim |-> 0,
          ops |-> <<MCTrnOp("add", 18, -1), MCTrnOp("mul", 24, -1)>>],
        [kind |-> "arithmetic", type |-> "float32", chdim |-> 1,
         ops |-> <<[op |-> "typecast", type |-> "float32"], MCTrnOp("add", 18, 1),
                   MCTrnOp("div", 24, -1)>>]}
MCTrnTensors ==
  {<<MCTrnTensor(<<2, 3, 2, 0>>, "uint8")>>, <<MCTrnTensor(<<3, 2, 0, 0>>, "float32")>>,
   <<MCTrnTensor(<<2, 1, 2, 2>>, "float32"), MCTrnTensor(<<1, 3, 2, 0>>, "uint8")>>}
MCIioType(s, u, h, g, b) == [storage |-> s, used |-> u, shift |-> h, signed |-> g, big |-> b]
MCIioTypes == <<MCIioType(8, 5, 2, TRUE, FALSE), MCIioType(16, 12, 4, TRUE, TRUE), MCIioType(16, 16, 0, FALSE, FALSE)>>
MCIioTraits == {[file |-> TRUE, avail |-> <<4, 5>>], [file |-> TRUE, avail |-> << >>], [file |-> FALSE, avail |-> <<4>>],
                [file |-> FALSE, avail |-> << >>]}
MCIioFaults == [files : {{}, {"trigger"}, {"frequency"}, {"length"}, {"open"}}, channels : {{}}]
               \cup [files : {{}}, channels : {{2}, {1, 3}}]
MCAmcBounds == {[frames |-> 3, starts |-> 1, plays |-> 3], [frames |-> 2, starts |-> 2, plays |-> 2]}

vars == <<rate, agg, tif, crop, join, dmx, merge, sparse, snk, dec, conv, trn,
          iio, amc>>

ElementsInit ==
  \/ RateInit
     /\ agg = Absent /\ tif = Absent /\ crop = Absent /\ join = Absent
     /\ dmx = Absent /\ merge = Absent /\ sparse = Absent /\ snk = Absent
     /\ dec = Absent /\ conv = Absent /\ trn = Absent /\ iio = Absent
     /\ amc = Absent
  \/ AggInit
     /\ rate = Absent /\ tif = Absent /\ crop = Absent /\ join = Absent
     /\ dmx = Absent /\ merge = Absent /\ sparse = Absent /\ snk = Absent
     /\ dec = Absent /\ conv = Absent /\ trn = Absent /\ iio = Absent
     /\ amc = Absent
  \/ IfInit
     /\ rate = Absent /\ agg = Absent /\ crop = Absent /\ join = Absent
     /\ dmx = Absent /\ merge = Absent /\ sparse = Absent /\ snk = Absent
     /\ dec = Absent /\ conv = Absent /\ trn = Absent /\ iio = Absent
     /\ amc = Absent
  \/ CropInit
     /\ rate = Absent /\ agg = Absent /\ tif = Absent /\ join = Absent
     /\ dmx = Absent /\ merge = Absent /\ sparse = Absent /\ snk = Absent
     /\ dec = Absent /\ conv = Absent /\ trn = Absent /\ iio = Absent
     /\ amc = Absent
  \/ JoinInit
     /\ rate = Absent /\ agg = Absent /\ tif = Absent /\ crop = Absent
     /\ dmx = Absent /\ merge = Absent /\ sparse = Absent /\ snk = Absent
     /\ dec = Absent /\ conv = Absent /\ trn = Absent /\ iio = Absent
     /\ amc = Absent
  \/ DemuxInit
     /\ rate = Absent /\ agg = Absent /\ tif = Absent /\ crop = Absent
     /\ join = Absent /\ merge = Absent /\ sparse = Absent /\ snk = Absent
     /\ dec = Absent /\ conv = Absent /\ trn = Absent /\ iio = Absent
     /\ amc = Absent
  \/ MergeInit
     /\ rate = Absent /\ agg = Absent /\ tif = Absent /\ crop = Absent
     /\ join = Absent /\ dmx = Absent /\ sparse = Absent /\ snk = Absent
     /\ dec = Absent /\ conv = Absent /\ trn = Absent /\ iio = Absent
     /\ amc = Absent
  \/ SparseInit
     /\ rate = Absent /\ agg = Absent /\ tif = Absent /\ crop = Absent
     /\ join = Absent /\ dmx = Absent /\ merge = Absent /\ snk = Absent
     /\ dec = Absent /\ conv = Absent /\ trn = Absent /\ iio = Absent
     /\ amc = Absent
  \/ SinkInit
     /\ rate = Absent /\ agg = Absent /\ tif = Absent /\ crop = Absent
     /\ join = Absent /\ dmx = Absent /\ merge = Absent /\ sparse = Absent
     /\ dec = Absent /\ conv = Absent /\ trn = Absent /\ iio = Absent
     /\ amc = Absent
  \/ DecInit
     /\ rate = Absent /\ agg = Absent /\ tif = Absent /\ crop = Absent
     /\ join = Absent /\ dmx = Absent /\ merge = Absent /\ sparse = Absent
     /\ snk = Absent /\ conv = Absent /\ trn = Absent /\ iio = Absent
     /\ amc = Absent
  \/ ConvInit
     /\ rate = Absent /\ agg = Absent /\ tif = Absent /\ crop = Absent
     /\ join = Absent /\ dmx = Absent /\ merge = Absent /\ sparse = Absent
     /\ snk = Absent /\ dec = Absent /\ trn = Absent /\ iio = Absent
     /\ amc = Absent
  \/ TrnInit
     /\ rate = Absent /\ agg = Absent /\ tif = Absent /\ crop = Absent
     /\ join = Absent /\ dmx = Absent /\ merge = Absent /\ sparse = Absent
     /\ snk = Absent /\ dec = Absent /\ conv = Absent /\ iio = Absent
     /\ amc = Absent
  \/ IioInit
     /\ rate = Absent /\ agg = Absent /\ tif = Absent /\ crop = Absent
     /\ join = Absent /\ dmx = Absent /\ merge = Absent /\ sparse = Absent
     /\ snk = Absent /\ dec = Absent /\ conv = Absent /\ trn = Absent
     /\ amc = Absent
  \/ AmcInit
     /\ rate = Absent /\ agg = Absent /\ tif = Absent /\ crop = Absent
     /\ join = Absent /\ dmx = Absent /\ merge = Absent /\ sparse = Absent
     /\ snk = Absent /\ dec = Absent /\ conv = Absent /\ trn = Absent
     /\ iio = Absent

ElementsNext ==
  \/ rate # Absent /\ RateNext
     /\ UNCHANGED <<agg, tif, crop, join, dmx, merge, sparse, snk, dec, conv,
                     trn, iio, amc>>
  \/ agg # Absent /\ AggNext
     /\ UNCHANGED <<rate, tif, crop, join, dmx, merge, sparse, snk, dec,
                     conv, trn, iio, amc>>
  \/ tif # Absent /\ IfNext
     /\ UNCHANGED <<rate, agg, crop, join, dmx, merge, sparse, snk, dec,
                     conv, trn, iio, amc>>
  \/ crop # Absent /\ CropNext
     /\ UNCHANGED <<rate, agg, tif, join, dmx, merge, sparse, snk, dec, conv,
                     trn, iio, amc>>
  \/ join # Absent /\ JoinNext
     /\ UNCHANGED <<rate, agg, tif, crop, dmx, merge, sparse, snk, dec, conv,
                     trn, iio, amc>>
  \/ dmx # Absent /\ DemuxNext
     /\ UNCHANGED <<rate, agg, tif, crop, join, merge, sparse, snk, dec,
                     conv, trn, iio, amc>>
  \/ merge # Absent /\ MergeNext
     /\ UNCHANGED <<rate, agg, tif, crop, join, dmx, sparse, snk, dec, conv,
                     trn, iio, amc>>
  \/ sparse # Absent /\ SparseNext
     /\ UNCHANGED <<rate, agg, tif, crop, join, dmx, merge, snk, dec, conv,
                     trn, iio, amc>>
  \/ snk # Absent /\ SinkNext
     /\ UNCHANGED <<rate, agg, tif, crop, join, dmx, merge, sparse, dec,
                     conv, trn, iio, amc>>
  \/ dec # Absent /\ DecNext
     /\ UNCHANGED <<rate, agg, tif, crop, join, dmx, merge, sparse, snk,
                     conv, trn, iio, amc>>
  \/ conv # Absent /\ ConvNext
     /\ UNCHANGED <<rate, agg, tif, crop, join, dmx, merge, sparse, snk, dec,
                     trn, iio, amc>>
  \/ trn # Absent /\ TrnNext
     /\ UNCHANGED <<rate, agg, tif, crop, join, dmx, merge, sparse, snk, dec,
                     conv, iio, amc>>
  \/ iio # Absent /\ IioNext
     /\ UNCHANGED <<rate, agg, tif, crop, join, dmx, merge, sparse, snk, dec,
                     conv, trn, amc>>
  \/ amc # Absent /\ AmcNext
     /\ UNCHANGED <<rate, agg, tif, crop, join, dmx, merge, sparse, snk, dec,
                     conv, trn, iio>>

ElementsSpec == ElementsInit /\ [][ElementsNext]_vars

\* Elements that limit a rate keep it over changes of the rate: the time
\* stamps of tensor_rate and the signals of tensor_sink are a period apart.
Paced == RateEven /\ SinkSpacing

\* The elements that gather bytes in an adapter per client, tensor_aggregator
\* and tensor_converter, push the frames of one client, in order, with the
\* time of their first frame.
FramesKept ==
  /\ AggWindow /\ AggTime /\ ConvFrames
  /\ ConvTimes /\ ConvRows /\ ConvAnnounced

\* The elements that choose a pad, tensor_if, join, tensor_demux and
\* tensor_split, push what belongs there under the caps it has, and end the
\* stream only when nobody is left.
Routed ==
  /\ IfDecides /\ IfBranches /\ JoinOwnSegment
  /\ DemuxMatches /\ SplitWhole /\ DemuxLinked

\* The elements that put buffers of several pads together, tensor_crop and
\* tensor_merge, take those that belong together and put every element into
\* its place.
Combined == CropPairs /\ CropCells /\ MergePlaces

\* What is encoded is decoded again, and a tensor_decoder decodes with the
\* options and the configuration that are in force.
Coded == SparseRoundTrip /\ DecoderOptions /\ DecoderConfig

\* The sources of a device and of a codec: readings and frames come from the
\* channels asked for and are overwritten by nobody, and the device is left
\* as it was.
Captured ==
  /\ IioSelected /\ IioRestored /\ IioValues
  /\ AmcBufferInUse /\ AmcOneRound /\ AmcGoesOn
=============================================================================
