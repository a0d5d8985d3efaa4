-------------------------- MODULE TensorAggregator --------------------------
(***************************************************************************)
(* tensor_aggregator (gsttensor_aggregator.c, and the table of adapters of *)
(* nnstreamer_plugin_api_impl.c): buffers of frames-in frames in, buffers  *)
(* of frames-out frames out, frames-flush frames further each time, kept   *)
(* apart per client of a tensor_query server.                              *)
(*                                                                         *)
(* A byte of the stream is <<frame, position>>, frames counted per client; *)
(* the frame n of a client is due at AggTick * n.  agg holds the           *)
(* properties, the adapters, and what the last chain pushed.               *)
(***************************************************************************)
EXTENDS Integers, Sequences, Element

CONSTANTS
  AggClients,    \* client ids of the query meta
  AggFrames,     \* values of frames-in and frames-out
  AggFlushes,    \* values of frames-flush
  AggDims,       \* dimensions of one frame, pairs
  AggTick,       \* time from one frame to the next
  AggMaxFrames   \* bound: frames that come from a client

ASSUME AggAssumption ==
  /\ AggFrames \subseteq Nat \ {0} /\ AggFlushes \subseteq Nat
  /\ AggDims \subseteq (Nat \ {0}) \X (Nat \ {0})
  /\ AggTick \in Nat /\ AggMaxFrames \in Nat

VARIABLE agg

FrameSize == agg.dims[1] * agg.dims[2]
EmptyAdapter == [data |-> << >>, pts |-> 0, dist |-> 0]

\* gst_tensor_aggregator_parse_caps refuses a flush of more frames than the
\* adapter ever holds.
ParseCaps(in, out, flush) == in * ((out + in - 1) \div in) >= flush

\* gst_tensor_aggregator_init, the properties and caps of a stream.  axis is
\* frames-dim, counted from 1.
AggInit ==
  \E in \in AggFrames, out \in AggFrames, flush \in AggFlushes, axis \in 1..2,
     concat \in BOOLEAN, dims \in AggDims :
    /\ ParseCaps(in, out, flush)
    /\ agg = [in |-> in, out |-> out, flush |-> flush, axis |-> axis,
              concat |-> concat, dims |-> dims,
              adapters |-> [c \in AggClients |-> EmptyAdapter],
              came |-> [c \in AggClients |-> 0], sent |-> [c \in AggClients |-> 0],
              client |-> 0, pushed |-> << >>]

\* gst_tensor_aggregator_check_concat_axis
CheckConcatAxis == agg.concat /\ agg.out > 1 /\ agg.axis = 1 /\ agg.dims[2] > 1

\* Mutant: the frames are put one after the other, as along the last axis.
Concat_Append(data) == data

\* gst_tensor_aggregator_concat: the blocks up to the axis, of all frames in
\* turn.
Concat(data) ==
  LET block == IF agg.axis = 1 THEN agg.dims[1] ELSE FrameSize
  IN [i \in 1..Len(data) |->
        LET b == (i - 1) \div block
        IN data[(b % agg.out) * FrameSize + (b \div agg.out) * block
                + ((i - 1) % block) + 1]]

\* gst_tensor_aggregator_push
AggPush(data, pts) ==
  [data |-> IF CheckConcatAxis THEN Concat(data) ELSE data, pts |-> pts]

\* The time stamp of the first byte: gst_adapter_prev_pts and, when buffers
\* hold several frames, the frames passed since then.
AdapterPts(a) ==
  IF agg.in > 1 THEN a.pts + (a.dist * AggTick) \div FrameSize ELSE a.pts

\* The bytes flushed after a push; never more than there are.
FlushSize(a) ==
  LET flush == (IF agg.flush > 0 THEN agg.flush ELSE agg.out) * FrameSize
  IN IF flush > Len(a.data) THEN Len(a.data) ELSE flush

\* gst_adapter_push and gst_adapter_flush (GStreamer): bytes in order, with
\* the time stamp of the buffer the first byte is of, and the distance to it.
\* The buffers pushed all have agg.in frames.
AdapterPush(a, data, pts) ==
  [data |-> a.data \o data,
   pts |-> IF a.data = << >> THEN pts ELSE a.pts,
   dist |-> IF a.data = << >> THEN 0 ELSE a.dist]
AdapterFlush(a, n) ==
  LET size == agg.in * FrameSize
      moved == a.dist + n
  IN [data |-> SubSeq(a.data, n + 1, Len(a.data)),
      pts |-> IF n = Len(a.data) THEN a.pts
              ELSE a.pts + (moved \div size) * agg.in * AggTick,
      dist |-> IF n = Len(a.data) THEN moved ELSE moved % size]

\* The loop of gst_tensor_aggregator_chain: the adapter after k rounds, and
\* how many rounds there are.
AfterRounds(a, k) ==
  LET after[n \in 0..k] ==
        IF n = 0 THEN a
        ELSE LET b == after[n - 1] IN AdapterFlush(b, FlushSize(b))
  IN after[k]
Rounds(a) ==
  CHOOSE k \in 0..Len(a.data) :
    /\ Len(AfterRounds(a, k).data) < agg.out * FrameSize
    /\ \A j \in 0..(k - 1) : Len(AfterRounds(a, j).data) >= agg.out * FrameSize

\* gst_tensor_aggregator_chain
AggChain ==
  \E c \in AggClients :
    LET first == agg.came[c]
        data == [i \in 1..(agg.in * FrameSize) |->
                   <<first + (i - 1) \div FrameSize, (i - 1) % FrameSize>>]
        a == AdapterPush(agg.adapters[c], data, first * AggTick)
        k == Rounds(a)
        out == [j \in 1..k |->
                  LET b == AfterRounds(a, j - 1)
                  IN AggPush(SubSeq(b.data, 1, agg.out * FrameSize), AdapterPts(b))]
        direct == agg.in = agg.out
        pushed == IF direct THEN <<AggPush(data, first * AggTick)>> ELSE out
    IN /\ first + agg.in <= AggMaxFrames
       /\ agg' = [agg EXCEPT !.came[c] = @ + agg.in, !.client = c, !.pushed = pushed,
                             !.sent[c] = @ + Len(pushed),
                             !.adapters[c] = IF direct THEN @ ELSE AfterRounds(a, k)]

\* gst_tensor_aggregator_reset, of a flush or a state change: the streams of
\* all clients begin anew.
AggReset ==
  /\ \E c \in AggClients : agg.came[c] > 0
  /\ agg' = [agg EXCEPT !.adapters = [c \in AggClients |-> EmptyAdapter],
                        !.came = [c \in AggClients |-> 0],
                        !.sent = [c \in AggClients |-> 0],
                        !.client = 0, !.pushed = << >>]

AggNext == AggChain \/ AggReset

-----------------------------------------------------------------------------
(* Properties *)

\* The frames a tensor is made of, with frames-dim as their axis: the element
\* at coordinates <<x, y>> is that of frame x \div dims[1] (or y \div dims[2]).
Aggregated(first) ==
  LET w == IF agg.axis = 1 THEN agg.dims[1] * agg.out ELSE agg.dims[1]
      Element(x, y) ==
        IF agg.axis = 1
        THEN <<first + x \div agg.dims[1], y * agg.dims[1] + (x % agg.dims[1])>>
        ELSE <<first + y \div agg.dims[2], (y % agg.dims[2]) * agg.dims[1] + x>>
  IN [i \in 1..(agg.out * FrameSize) |-> Element((i - 1) % w, (i - 1) \div w)]
Stacked(first) ==
  [i \in 1..(agg.out * FrameSize) |-> <<first + (i - 1) \div FrameSize, (i - 1) % FrameSize>>]

AggStride == IF agg.flush > 0 THEN agg.flush ELSE agg.out
AggFirst(j) == (agg.sent[agg.client] - Len(agg.pushed) + j - 1)
               * (IF agg.in = agg.out THEN agg.out ELSE AggStride)

\* The n-th buffer pushed for a client holds frames-out frames of that client
\* from n * frames-flush on, none lost, repeated or of another client however
\* the clients' buffers interleave, and put together along frames-dim
\* (gsttensor_aggregator.md).  With frames-in = frames-out buffers pass as they
\* come, and a flush larger than the output may be cut short.
AggWindow ==
  agg # Absent /\ agg.flush <= agg.out =>
    \A j \in 1..Len(agg.pushed) :
      agg.pushed[j].data = IF agg.concat THEN Aggregated(AggFirst(j))
                           ELSE Stacked(AggFirst(j))

\* Every buffer has the time stamp of its first frame.
AggTime ==
  agg # Absent /\ agg.flush <= agg.out =>
    \A j \in 1..Len(agg.pushed) : agg.pushed[j].pts = AggTick * AggFirst(j)
=============================================================================
