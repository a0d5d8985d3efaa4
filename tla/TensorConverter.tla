--------------------------- MODULE TensorConverter ---------------------------
(***************************************************************************)
(* tensor_converter: media and byte streams become tensors. Three parts of *)
(* chain are modelled, one per kind of stream (conv.kind):                 *)
(*   "frames"  audio and octet streams: a buffer holds several frames, and *)
(*             a tensor as many as frames-per-tensor says. Frames wait in  *)
(*             an adapter per query client, and time stamps are made up.   *)
(*             An octet stream can also be flexible: a buffer is a tensor. *)
(*   "video"   a buffer holds one image, whose rows may be padded.         *)
(*   "shapes"  flexible tensors, and whatever a custom converter returns:  *)
(*             the shape comes with the buffer and the caps follow it.     *)
(* A frame is its number in the stream of its client, an image the         *)
(* sequence of the places its bytes had, a shape a value.                  *)
(***************************************************************************)
EXTENDS Integers, Sequences, FiniteSets, Element

CONSTANTS
  ConvClients,   \* query clients; buffers without the meta are client 0's
  ConvSizes,     \* frames a buffer may hold
  ConvOuts,      \* frames-per-tensor
  ConvPeriods,   \* duration of a frame; 0: the stream has no frame rate
  ConvSegments,  \* where a segment may start, in frames
  ConvVideos,    \* video caps: [format, color, width, height]
  ConvStrides,   \* bytes a row has according to a GstVideoMeta
  ConvShapes,    \* shapes of flexible and custom buffers
  ConvMaxFrames, \* bound: frames of a stream
  ConvMaxEvents, \* bound: segments and flushes of a stream
  ConvMaxCaps    \* bound: caps and shapes of a stream

VARIABLE conv

NoStamp == -1
NoShape == "none"
NoStride == 0
Zero == <<-1, -1>> \* a byte that comes from nowhere

\* The properties: frames-per-tensor, and the shape of input-dim and input-type.
ConvInit ==
  conv \in [kind : {"frames"}, out : ConvOuts, configured : {FALSE}, period : {0},
            flexible : {FALSE}, adapter : {[c \in ConvClients |-> << >>]},
            old : {NoStamp}, segment : {0}, need : {FALSE}, pushed : {<< >>},
            stamps : {[c \in ConvClients |-> << >>]}, size : {0}, mixed : {FALSE},
            next : {NoStamp}, steps : {0}]
       \cup [kind : {"video"}, caps : ConvVideos, padding : {FALSE}, imx : {FALSE},
             configured : {FALSE}, stride : {NoStride}, meta : {NoStride},
             image : {<< >>}, state : {"ok"}, renewed : {FALSE}, steps : {0}]
       \cup [kind : {"shapes"}, custom : BOOLEAN, info : ConvShapes \cup {NoShape},
             config : {NoShape}, srccaps : {NoShape}, pushed : {NoShape},
             flow : {"ok"}, steps : {0}]

(***************************************************************************)
(* Caps of audio and octet streams. The frame rate is that of the caps, an *)
(* octet stream may have none; a flexible peer gets a buffer as a tensor,  *)
(* which excludes several frames per tensor.                               *)
(***************************************************************************)
ParseAudio(period) ==
  /\ conv.kind = "frames" /\ ~conv.configured /\ period > 0
  /\ conv' = [conv EXCEPT !.configured = TRUE, !.period = period]

ParseOctet(period, flexible) ==
  /\ conv.kind = "frames" /\ ~conv.configured
  /\ ~(flexible /\ conv.out > 1)
  /\ conv' = [conv EXCEPT !.configured = TRUE, !.period = period, !.flexible = flexible]

(***************************************************************************)
(* Segments. One in time is forwarded, one in bytes becomes one in time at *)
(* the next buffer, and starts at 0 when there is no frame rate.           *)
(***************************************************************************)
SegmentTime(start) ==
  /\ conv.kind = "frames" /\ conv.configured /\ conv.steps < ConvMaxEvents
  /\ conv' = [conv EXCEPT !.segment = start * conv.period, !.steps = @ + 1]

SegmentBytes(start) ==
  /\ conv.kind = "frames" /\ conv.configured /\ conv.steps < ConvMaxEvents
  /\ conv' = [conv EXCEPT !.segment = start, !.need = TRUE, !.steps = @ + 1]

ChainSegment == IF conv.need THEN conv.segment * conv.period ELSE conv.segment

\* A buffer without a time stamp gets the one before plus its own duration, the
\* first one the start of the segment. Without a frame rate it is the clock's
\* time, which the model does not have.
ChainTimestamp(given, k) ==
  CASE given # NoStamp -> given
    [] conv.period = 0 -> NoStamp
    [] conv.old # NoStamp -> conv.old + k * conv.period
    [] OTHER -> ChainSegment

GetAdapter(c) == conv.adapter[c]

\* The time stamp of what starts with frame f, in a call that got k frames.
ChunkPts(f, k) ==
  IF k > 1 /\ conv.period > 0 /\ f.pts # NoStamp
  THEN f.pts + f.off * conv.period ELSE f.pts

Outgoing(c, s, k) ==
  [client |-> c, frames |-> [i \in 1..Len(s) |-> s[i].n], pts |-> ChunkPts(s[1], k)]

\* The frames chain takes a buffer of k frames for.
FramesIn(k) == IF conv.flexible THEN 1 ELSE k

(***************************************************************************)
(* chain, for a buffer of k frames of client c. One that holds exactly the *)
(* frames of a tensor is pushed as it is, any other goes through the       *)
(* adapter.                                                                *)
(***************************************************************************)
ChainFrames(c, k, stamped) ==
  /\ conv.kind = "frames" /\ conv.configured
  /\ LET framesIn == FramesIn(k)
         true == IF conv.next = NoStamp THEN ChainSegment ELSE conv.next
         pts == ChainTimestamp(IF stamped THEN true ELSE NoStamp, framesIn)
         n == Len(conv.stamps[c])
         new == [i \in 1..k |-> [n |-> n + i, pts |-> pts, off |-> i - 1]]
         all == GetAdapter(c) \o new
         chunks == Len(all) \div conv.out
     IN /\ n + k <= ConvMaxFrames
        /\ conv' = [conv EXCEPT
             !.segment = ChainSegment, !.need = FALSE, !.old = pts,
             !.adapter[c] = IF framesIn = conv.out THEN @
                            ELSE SubSeq(all, chunks * conv.out + 1, Len(all)),
             !.pushed = @ \o
               IF framesIn = conv.out THEN <<[Outgoing(c, new, k) EXCEPT !.pts = pts]>>
               ELSE [j \in 1..chunks |->
                       Outgoing(c, SubSeq(all, (j - 1) * conv.out + 1, j * conv.out), k)],
             !.stamps[c] = @ \o [i \in 1..k |-> true + (i - 1) * conv.period],
             !.next = true + framesIn * conv.period,
             !.mixed = @ \/ conv.size \notin {0, framesIn}, !.size = framesIn]

\* FLUSH_STOP, and the changes to and from PAUSED: nothing is kept.
ConvReset ==
  /\ conv.kind = "frames" /\ conv.configured /\ conv.steps < ConvMaxEvents
  /\ conv' = [conv EXCEPT
       !.adapter = [c \in ConvClients |-> << >>], !.old = NoStamp, !.segment = 0,
       !.need = FALSE, !.pushed = << >>, !.stamps = [c \in ConvClients |-> << >>],
       !.next = NoStamp, !.size = 0, !.mixed = FALSE, !.steps = @ + 1]

(***************************************************************************)
(* Video. GStreamer pads a row of GRAY8 and RGB to four bytes; some        *)
(* hardware pads more and says so in a GstVideoMeta.                       *)
(***************************************************************************)
RowSize(v) == v.color * v.width
RoundUp4(n) == 4 * ((n + 3) \div 4)
VideoStride(v) == v.format \in {"GRAY8", "RGB"} /\ v.width % 4 # 0
VideoStrideImx(v) ==
  /\ v.format = "GRAY8"
  /\ v.width % 16 # 0 \/ v.height % 16 # 0 \/ (v.width * v.height) % 4096 # 0

\* parse_video sets the two flags and clears neither.
ParseVideo(v) ==
  /\ conv.kind = "video" /\ conv.steps < ConvMaxCaps /\ conv.state = "ok"
  /\ conv' = [conv EXCEPT !.caps = v, !.configured = TRUE,
                          !.padding = @ \/ VideoStride(v),
                          !.imx = @ \/ VideoStrideImx(v),
                          !.renewed = conv.configured, !.image = << >>, !.steps = @ + 1]

\* The byte at place i of a buffer whose rows are stride bytes apart.
ByteAt(i, stride) ==
  IF i % stride < RowSize(conv.caps) THEN <<i \div stride, i % stride>> ELSE Zero

\* How far apart chain takes the rows to be.
RowOffset(meta) ==
  IF meta # NoStride THEN meta ELSE RoundUp4(RowSize(conv.caps))

(***************************************************************************)
(* chain, for an image in a buffer with a GstVideoMeta (its stride) or     *)
(* without. When the flag is the second one only and there is no meta, the *)
(* break leaves the buffer that was made for the result in place of the    *)
(* one that came, and it is still zero.                                    *)
(***************************************************************************)
ChainVideo(meta) ==
  /\ conv.kind = "video" /\ conv.configured /\ conv.state = "ok"
  /\ LET v == conv.caps
         row == RowSize(v)
         stride == IF meta = NoStride THEN RoundUp4(row) ELSE meta
         zeros == conv.imx /\ ~conv.padding /\ meta = NoStride
         remove == conv.padding \/ conv.imx
         aborts == remove /\ ~zeros /\ meta = NoStride /\ row % 4 = 0
     IN /\ stride >= row /\ stride < 2 * RoundUp4(row)
        /\ conv' = [conv EXCEPT
             !.stride = stride, !.meta = meta,
             !.state = IF aborts THEN "aborted" ELSE @,
             !.image =
               CASE aborts -> << >>
                 [] zeros -> [i \in 1..(row * v.height) |-> Zero]
                 [] ~remove -> [i \in 1..(stride * v.height) |-> ByteAt(i - 1, stride)]
                 [] OTHER -> [i \in 1..(row * v.height) |->
                      ByteAt(((i - 1) \div row) * RowOffset(meta) + ((i - 1) % row),
                             stride)]]

(***************************************************************************)
(* Flexible tensors and custom converters: the shape is the buffer's. Caps *)
(* are accepted when they do not contradict the properties; what they say  *)
(* of the shape is preliminary ("1") unless the properties or, for a       *)
(* custom converter, the peer know it.                                     *)
(***************************************************************************)
ConvParseCaps(config) ==
  /\ conv.config = NoShape /\ conv.info \in {NoShape, config}
  /\ conv' = [conv EXCEPT !.config = config, !.srccaps = config]

ParseTensor ==
  /\ conv.kind = "shapes" /\ ~conv.custom
  /\ ConvParseCaps(IF conv.info # NoShape THEN conv.info ELSE "1")

ParseCustom(peer) ==
  /\ conv.kind = "shapes" /\ conv.custom
  /\ ConvParseCaps(IF peer # NoShape THEN peer ELSE "1")

UpdateCaps(s) == s

ShapePushed(s) ==
  conv' = [conv EXCEPT !.config = s, !.pushed = s, !.steps = @ + 1,
                       !.srccaps = IF s # conv.config THEN UpdateCaps(s) ELSE @]

Streaming ==
  conv.kind = "shapes" /\ conv.config # NoShape /\ conv.flow = "ok"
  /\ conv.steps < ConvMaxCaps

\* The data of a flexible tensor must be as long as its header says, and its
\* shape the one of the properties, if they give one.
ChainTensor(s, whole) ==
  /\ Streaming /\ ~conv.custom
  /\ IF whole /\ (s = conv.config \/ conv.info = NoShape) THEN ShapePushed(s)
     ELSE conv' = [conv EXCEPT !.flow = "error", !.pushed = NoShape]

\* A custom converter returns a buffer of any shape, or none.
ChainCustom(s, converted) ==
  /\ Streaming /\ conv.custom
  /\ IF converted THEN ShapePushed(s)
     ELSE conv' = [conv EXCEPT !.flow = "error", !.pushed = NoShape]

ConvNext ==
  \/ \E p \in ConvPeriods, b \in BOOLEAN : ParseAudio(p) \/ ParseOctet(p, b)
  \/ \E s \in ConvSegments : SegmentTime(s) \/ SegmentBytes(s)
  \/ \E c \in ConvClients, k \in ConvSizes, b \in BOOLEAN : ChainFrames(c, k, b)
  \/ ConvReset
  \/ \E v \in ConvVideos : ParseVideo(v)
  \/ \E m \in ConvStrides \cup {NoStride} : ChainVideo(m)
  \/ ParseTensor
  \/ \E s \in ConvShapes \cup {NoShape} : ParseCustom(s)
  \/ \E s \in ConvShapes, b \in BOOLEAN : ChainTensor(s, b) \/ ChainCustom(s, b)

-----------------------------------------------------------------------------
(***************************************************************************)
(* Every tensor holds frames-per-tensor frames that follow each other in   *)
(* the stream of one client, and the tensors of a client follow each       *)
(* other, however the buffers of the clients are interleaved. Stated for   *)
(* buffers of one size: one that holds exactly a tensor's frames overtakes *)
(* those that wait in the adapter.                                         *)
(***************************************************************************)
ConvFrames ==
  conv # Absent /\ conv.kind = "frames" /\ ~conv.mixed =>
    \A i \in 1..Len(conv.pushed) :
      LET p == conv.pushed[i]
          before == Cardinality({j \in 1..(i - 1) : conv.pushed[j].client = p.client})
          first == IF conv.flexible THEN p.frames[1] - 1 ELSE before * conv.out
      IN /\ p.frames = [m \in 1..Len(p.frames) |-> first + m]
         /\ ~conv.flexible => Len(p.frames) = conv.out

(***************************************************************************)
(* A tensor carries the time of its first frame: the start of the segment  *)
(* and one period for each frame that came before, whether its buffer was  *)
(* stamped or not. For buffers of one size: the time of a buffer without a *)
(* stamp is taken from the length of that buffer, not of the one before.   *)
(* A buffer of a flexible stream counts as one frame.                      *)
(***************************************************************************)
ConvTimes ==
  conv # Absent /\ conv.kind = "frames" /\ ~conv.mixed /\ ~conv.flexible
  /\ conv.period > 0 =>
    \A i \in 1..Len(conv.pushed) :
      LET p == conv.pushed[i] IN p.pts = conv.stamps[p.client][p.frames[1]]

(***************************************************************************)
(* The tensor of an image is its rows without their padding, in order.     *)
(* Left out are images whose padding only a GstVideoMeta tells and whose   *)
(* caps do not ask for its removal, GRAY8 ones whose removal is asked for   *)
(* and that carry no GstVideoMeta (line 1135: they come out as zeros), and *)
(* the images of caps that follow others.                                  *)
(***************************************************************************)
ConvRows ==
  conv # Absent /\ conv.kind = "video" /\ conv.image # << >> /\ ~conv.renewed
  /\ (VideoStride(conv.caps) \/ VideoStrideImx(conv.caps)
      \/ conv.stride = RowSize(conv.caps))
  /\ (VideoStride(conv.caps) \/ ~VideoStrideImx(conv.caps) \/ conv.meta # NoStride) =>
    conv.image = [i \in 1..(RowSize(conv.caps) * conv.caps.height) |->
                    <<(i - 1) \div RowSize(conv.caps), (i - 1) % RowSize(conv.caps)>>]

(***************************************************************************)
(* What is pushed has the shape the caps of the source pad say, after any  *)
(* sequence of shapes.                                                     *)
(***************************************************************************)
ConvAnnounced ==
  conv # Absent /\ conv.kind = "shapes" /\ conv.pushed # NoShape =>
    conv.pushed = conv.srccaps
=============================================================================
