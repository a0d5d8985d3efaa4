----------------------------- MODULE TensorCrop -----------------------------
(***************************************************************************)
(* tensor_crop (gsttensor_crop.c): buffers of the raw pad are paired with  *)
(* buffers of regions of the info pad by their time stamps, and the        *)
(* regions cut out.  GstCollectPads (external) calls back when both pads   *)
(* have a buffer or an end of stream.                                      *)
(*                                                                         *)
(* A raw buffer is its time stamp; the content of its element n is n.  An  *)
(* info buffer is a time stamp and one region.  Numbers are of guint:      *)
(* CropWord is one more than the largest.                                  *)
(***************************************************************************)
EXTENDS Integers, Sequences, Element

CONSTANTS
  CropGaps,     \* distances of the time stamps of two buffers of a pad
  Latenesses,   \* values of the lateness property
  CropRegions,  \* regions: [x, y, w, h]
  CropWidth, CropHeight,   \* size of a raw buffer
  CropWord,     \* guint is modulo this
  CropMaxTime   \* bound: the last time stamp

ASSUME CropAssumption ==
  /\ CropGaps \subseteq Nat \ {0}
  /\ CropWidth \in 1..(CropWord - 1) /\ CropHeight \in 1..(CropWord - 1)

VARIABLE crop

CropPads == {"raw", "info"}

\* gst_tensor_crop_init.  queue holds what a pad has received and not popped
\* (at most one buffer: the pad blocks), last the time stamp received last;
\* dropped and paired are the time stamps popped.
CropInit ==
  \E l \in Latenesses :
    crop = [lateness |-> l, queue |-> [p \in CropPads |-> << >>],
            last |-> [p \in CropPads |-> 0], eos |-> {}, ended |-> FALSE,
            dropped |-> [p \in CropPads |-> {}], paired |-> {},
            region |-> << >>, cut |-> << >>, aborted |-> FALSE]

\* A buffer reaches a pad (GstCollectPads); the region is that of info.
CropArrive ==
  \E p \in CropPads, gap \in CropGaps, r \in CropRegions :
    LET ts == crop.last[p] + gap
    IN /\ crop.queue[p] = << >> /\ p \notin crop.eos /\ ~crop.ended /\ ~crop.aborted
       /\ ts <= CropMaxTime
       /\ p = "raw" => r = CHOOSE x \in CropRegions : TRUE
       /\ crop' = [crop EXCEPT !.queue[p] = <<[ts |-> ts, region |-> r]>>,
                               !.last[p] = ts, !.region = << >>, !.cut = << >>]

CropEosEvent ==
  \E p \in CropPads :
    /\ p \notin crop.eos /\ ~crop.ended /\ ~crop.aborted
    /\ crop' = [crop EXCEPT !.eos = @ \cup {p}, !.region = << >>, !.cut = << >>]

\* The region cut to the buffer, along one axis: <<start, size>>
Clip(x, w, max) ==
  LET x1 == IF x < max THEN x ELSE max
  IN <<x1, IF (x1 + w - 1) % CropWord < max THEN w ELSE max - x1>>

\* gst_tensor_crop_do_cropping: row by row; an assertion ends the process
\* when nothing is left of the region.
DoCropping(r) ==
  LET cx == Clip(r.x, r.w, CropWidth)
      cy == Clip(r.y, r.h, CropHeight)
  IN [ok |-> cx[2] > 0 /\ cy[2] > 0,
      cut |-> [i \in 1..(cx[2] * cy[2]) |->
                 cx[1] + ((i - 1) % cx[2]) + ((i - 1) \div cx[2] + cy[1]) * CropWidth]]

\* Mutant: the newer buffer is dropped.
LateBuffers_Newer(raw, info) == IF raw > info THEN {"raw"} ELSE {"info"}

\* The buffer cleared when the time stamps are too far apart: the older one
LateBuffers(raw, info) == IF raw > info THEN {"info"} ELSE {"raw"}

\* gst_tensor_crop_collected and gst_tensor_crop_chain
CropCollected ==
  LET raw == crop.queue["raw"][1]
      info == crop.queue["info"][1]
      apart == IF raw.ts > info.ts THEN raw.ts - info.ts ELSE info.ts - raw.ts
      late == LateBuffers(raw.ts, info.ts)
      out == DoCropping(info.region)
  IN /\ \A p \in CropPads : crop.queue[p] # << >>
     /\ crop.eos = {} /\ ~crop.ended /\ ~crop.aborted
     /\ crop' = IF crop.lateness >= 0 /\ apart > crop.lateness
                THEN [crop EXCEPT !.queue = [p \in CropPads |->
                                               IF p \in late THEN << >> ELSE @[p]],
                                  !.dropped = [p \in CropPads |->
                                                 IF p \in late THEN @[p] \cup {crop.queue[p][1].ts}
                                                 ELSE @[p]],
                                  !.region = << >>, !.cut = << >>]
                ELSE [crop EXCEPT !.queue = [p \in CropPads |-> << >>],
                                  !.paired = @ \cup {<<raw.ts, info.ts>>},
                                  !.region = <<info.region>>,
                                  !.cut = IF out.ok THEN out.cut ELSE << >>,
                                  !.aborted = ~out.ok]

\* gst_tensor_crop_collected, with a pad at its end: the stream ends
CropEnd ==
  /\ crop.eos # {} /\ ~crop.ended /\ ~crop.aborted
  /\ \A p \in CropPads : crop.queue[p] # << >> \/ p \in crop.eos
  /\ crop' = [crop EXCEPT !.ended = TRUE, !.region = << >>, !.cut = << >>]

CropNext == CropArrive \/ CropEosEvent \/ CropCollected \/ CropEnd

-----------------------------------------------------------------------------
(* Properties *)

\* Buffers are paired only within the lateness and each once; a buffer that is
\* dropped could match none of the other pad that were dropped, and none that
\* is still to come: time stamps of a pad increase.
CropPairs ==
  crop # Absent =>
  LET Within(a, b) == crop.lateness < 0 \/ (a - b <= crop.lateness /\ b - a <= crop.lateness)
  IN /\ \A q \in crop.paired : Within(q[1], q[2])
     /\ \A q, r \in crop.paired : q # r => q[1] # r[1] /\ q[2] # r[2]
     /\ \A a \in crop.dropped["raw"], b \in crop.dropped["info"] : ~Within(a, b)
     /\ \A p, q \in CropPads : p # q =>
          \A d \in crop.dropped[p] : d + crop.lateness < crop.last[q]

\* What is cut out of the buffer are the elements inside the region, row by
\* row, for regions that reach over the edges of the buffer too; a region that
\* has none is the only one that ends the process.  The ends of the region do
\* not overflow, and it is not empty (one of width 0 at x = 0 is taken for one
\* of the whole width).
CropCells ==
  crop # Absent /\ crop.region # << >> =>
    LET r == crop.region[1]
        in == {c \in (0..(CropWidth - 1)) \X (0..(CropHeight - 1)) :
                 /\ r.x <= c[1] /\ c[1] < r.x + r.w
                 /\ r.y <= c[2] /\ c[2] < r.y + r.h}
    IN r.w > 0 /\ r.h > 0 /\ r.x + r.w <= CropWord /\ r.y + r.h <= CropWord =>
         /\ crop.aborted = (in = {})
         /\ \A i \in 1..Len(crop.cut) : \E c \in in : crop.cut[i] = c[1] + c[2] * CropWidth
         /\ \A c \in in : \E i \in 1..Len(crop.cut) : crop.cut[i] = c[1] + c[2] * CropWidth
         /\ \A i, j \in 1..Len(crop.cut) : i < j => crop.cut[i] < crop.cut[j]
=============================================================================
