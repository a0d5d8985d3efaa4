---------------------------- MODULE BoundingBox -----------------------------
(*****************************************************************************)
(* The sub-plugins of tensor_decoder that find boxes: bounding_boxes draws   *)
(* them, tensor_region gives the best of them to tensor_crop.                *)
(*****************************************************************************)
EXTENDS Integers, Sequences, FiniteSetsExt, SequencesExt, Element

-----------------------------------------------------------------------------
(***************************************************************************)
(* The bounding_boxes sub-plugin of tensor_decoder                         *)
(* (tensordec-boundingbox.cc and box_properties/).  Each detection mode is *)
(* one object of the process, kept in a table and shared by all decoders   *)
(* of that mode; a decoder adds labels, the size of its picture and the    *)
(* centroids it tracks.                                                    *)
(*                                                                         *)
(* Coordinates of a row of a tensor are in 1/BbUnit of the picture; the    *)
(* logistic and exponential functions are already applied to the scores    *)
(* and sizes a row holds.  A tensor has more rows than a frame lists: the  *)
(* others are below every threshold.                                       *)
(***************************************************************************)
CONSTANTS
  BbDecoders,      \* decoders of this sub-plugin
  BbModes,         \* detection modes
  BbTracked,       \* modes used with tracking
  BbUnit,          \* coordinates are in 1/BbUnit
  BbPriorFiles,    \* prior files, as sequences of lines
  BbAnchors,       \* anchors generated, <<x, y, width, height>>
  BbConfigs,       \* configurations of the stream
  BbSizes,         \* input sizes
  BbPicture,       \* width and height of the output
  BbLabels,        \* numbers of labels of a label file
  BbFrames,        \* frames: sequences of rows
  BbThresholds,    \* thresholds of the confidence, the least is the default
  BbIou,           \* threshold of the overlap, <<numerator, denominator>>
  BbChar,          \* width and height of a character
  BbLabelLength,   \* characters of a label
  MaxCentroids,    \* max_centroids_num
  DisappearLimit,  \* consecutive_disappear_threshold
  BbMaxFrames      \* bound on the frames of a decoder

ASSUME BoundingBoxAssumption ==
  /\ BbTracked \subseteq BbModes /\ BbUnit \in Nat \ {0} /\ BbThresholds \subseteq Nat
  /\ BbSizes \subseteq Nat \ {0} /\ BbLabels \subseteq Nat
  /\ BbIou \in Nat \X (Nat \ {0}) /\ BbChar \in Nat \X Nat /\ BbPicture \in Nat \X Nat
  /\ MaxCentroids \in Nat \ {0} /\ DisappearLimit \in Nat \ {0} /\ BbMaxFrames \in Nat

VARIABLE bbox

LOCAL Greater(x, y) == IF x > y THEN x ELSE y
LOCAL Less(x, y) == IF x < y THEN x ELSE y
\* The conversion of a quotient to int cuts towards zero.
LOCAL Cut(n, d) == IF n >= 0 THEN n \div d ELSE -((-n) \div d)

BbGone == [mode |-> "gone"]
NewDecoder ==
  [mode |-> "none", labels |-> 0, track |-> FALSE, agreed |-> FALSE, frames |-> 0,
   centroids |-> << >>, lastId |-> 0, distances |-> << >>, found |-> << >>, boxes |-> << >>]
NewProperties == [i_width |-> 0, total_labels |-> 0, max_detection |-> 0, scaled |-> FALSE,
                  threshold |-> Min(BbThresholds), anchors |-> << >>,
                  priors |-> <<<< >>, << >>, << >>, << >>>>]

\* The constructors of the modes put them into the table when the library
\* is loaded.
BbInit ==
  bbox = [table |-> BbModes, props |-> [m \in BbModes |-> NewProperties],
          dec |-> [d \in BbDecoders |-> BbGone], status |-> "ok"]

Runs(d) == bbox.status = "ok" /\ bbox.dec[d].mode # "gone"

\* bb_init
BbNew(d) ==
  /\ bbox.status = "ok" /\ bbox.dec[d].mode = "gone"
  /\ bbox' = [bbox EXCEPT !.dec[d] = NewDecoder]

\* bb_exit: the destructor of a decoder destroys the table of all.
BbExit(d) == Runs(d) /\ bbox' = [bbox EXCEPT !.dec[d] = BbGone, !.table = {}]

\* setBoxDecodingMode; getProperties makes a new table where there is none.
SetBoxDecodingMode(d) ==
  \E m \in BbModes :
    /\ Runs(d) /\ bbox.dec[d].mode = "none" /\ m \in bbox.table
    /\ bbox' = [bbox EXCEPT !.dec[d].mode = m]

\* The options after the mode, before the caps.
Configures(d) == Runs(d) /\ bbox.dec[d].mode \in BbModes /\ ~bbox.dec[d].agreed

\* setLabelPath: the number of labels goes to the properties of the mode.
SetLabelPath(d) ==
  \E n \in BbLabels :
    /\ Configures(d)
    /\ bbox' = [bbox EXCEPT !.dec[d].labels = n,
                  !.props[bbox.dec[d].mode].total_labels = IF n > 0 THEN n ELSE @]

\* setInputModelSize; the pictures of the model are squares.
SetInputModelSize(d) ==
  \E w \in BbSizes :
    /\ Configures(d) /\ bbox' = [bbox EXCEPT !.props[bbox.dec[d].mode].i_width = w]

\* setOption, of option6
SetTrack(d) ==
  /\ Configures(d) /\ bbox.dec[d].mode \in BbTracked
  /\ bbox' = [bbox EXCEPT !.dec[d].track = TRUE]

\* setOptionInternal, of option3: yolo is told whether its values are
\* scaled, and its thresholds.
YoloOption(d) ==
  \E t \in BbThresholds :
    /\ Configures(d) /\ bbox.dec[d].mode \in {"yolov5", "yolov8"}
    /\ bbox' = [bbox EXCEPT !.props[bbox.dec[d].mode].scaled = TRUE,
                            !.props[bbox.dec[d].mode].threshold = t]
YoloV10Option(d) ==
  \E t \in BbThresholds :
    /\ Configures(d) /\ bbox.dec[d].mode = "yolov10"
    /\ bbox' = [bbox EXCEPT !.props["yolov10"].threshold = t]

\* mobilenet_ssd_loadBoxPrior, of a file as the sequence of its lines: the
\* line that has another number of values than the one before fails, and
\* has been stored.
LoadBoxPrior(priors, file) ==
  LET uneven == {k \in 2..4 : Len(file[k]) # Len(file[k - 1])}
      read == IF uneven = {} THEN 4 ELSE Min(uneven)
  IN IF Len(file) < 4 THEN [ok |-> FALSE, priors |-> priors]
     ELSE [ok |-> uneven = {}, priors |-> [k \in 1..4 |-> IF k <= read THEN file[k] ELSE priors[k]]]

\* The parameters after the file are set only if it was read.
MobilenetSSDOption(d) ==
  \E file \in BbPriorFiles, t \in BbThresholds :
    LET load == LoadBoxPrior(bbox.props["mobilenet-ssd"].priors, file)
    IN /\ Configures(d) /\ bbox.dec[d].mode = "mobilenet-ssd"
       /\ bbox' = [bbox EXCEPT !.props["mobilenet-ssd"].priors = load.priors,
                               !.props["mobilenet-ssd"].threshold = IF load.ok THEN t ELSE @]

\* Five numbers, the last of them the threshold.
MobilenetSSDPPOption(d) ==
  \E t \in BbThresholds :
    /\ Configures(d) /\ bbox.dec[d].mode = "mobilenet-ssd-postprocess"
    /\ bbox' = [bbox EXCEPT !.props["mobilenet-ssd-postprocess"].threshold = t]

\* mp_palm_detection_generate_anchors adds to the anchors that are there.
GenerateAnchors(anchors) == anchors \o BbAnchors
MpPalmOption(d) ==
  LET palm == "mp-palm-detection"
  IN \E t \in BbThresholds :
       /\ Configures(d) /\ bbox.dec[d].mode = palm
       /\ Len(bbox.props[palm].anchors) < 2 * Len(BbAnchors)
       /\ bbox' = [bbox EXCEPT !.props[palm].threshold = t,
                               !.props[palm].anchors = GenerateAnchors(@)]

\* check_tensors
CheckTensors(config, limit) == config.num >= limit /\ config.sametype

\* The rows a yolo model of this input size has, for each of its anchors.
YoloRows(w) == (w \div 32) * (w \div 32) + (w \div 16) * (w \div 16) + (w \div 8) * (w \div 8)

\* checkCompatible of the modes.  Three of them keep the first
\* max_detection for good.
YoloV5Compatible(p, c) ==
  CheckTensors(c, 1) /\ c.cols = p.total_labels + 5 /\ c.rows = 3 * YoloRows(p.i_width)
YoloV8Compatible(p, c) ==
  /\ CheckTensors(c, 1) /\ c.type = "float32"
  /\ c.cols = p.total_labels + 4 /\ c.rows = YoloRows(p.i_width)
YoloV10Compatible(p, c) == CheckTensors(c, 1) /\ c.type = "float32" /\ c.cols = 6
SameMax(p, c) == p.max_detection \in {0, c.rows}
MobilenetSSDCompatible(p, c) ==
  CheckTensors(c, 2) /\ c.cols = 4 /\ c.classes <= p.total_labels /\ SameMax(p, c)
MobilenetSSDPPCompatible(p, c) == CheckTensors(c, 4) /\ c.cols = 4 /\ SameMax(p, c)
OVCompatible(p, c) == CheckTensors(c, 1) /\ c.cols = 7
MpPalmCompatible(p, c) == CheckTensors(c, 2) /\ c.cols = 18 /\ c.classes = 1 /\ SameMax(p, c)

Compatible(m, p, c) ==
  CASE m = "yolov5" -> YoloV5Compatible(p, c)
    [] m = "yolov8" -> YoloV8Compatible(p, c)
    [] m = "yolov10" -> YoloV10Compatible(p, c)
    [] m = "mobilenet-ssd" -> MobilenetSSDCompatible(p, c)
    [] m = "mobilenet-ssd-postprocess" -> MobilenetSSDPPCompatible(p, c)
    [] m = "ov-person-detection" -> OVCompatible(p, c)
    [] m = "mp-palm-detection" -> MpPalmCompatible(p, c)

\* getOutCaps; the detection by OpenVINO learns max_detection from each
\* frame.  The mode yolov5 looks at the type only when it decodes.  The
\* application gives priors and anchors for all rows, which is not tested.
GetOutCaps(d) ==
  \E c \in BbConfigs :
    LET m == bbox.dec[d].mode
        max == IF m = "yolov5" THEN 3 * YoloRows(bbox.props[m].i_width) ELSE c.rows
    IN /\ Configures(d) /\ bbox.props[m].i_width > 0 /\ Compatible(m, bbox.props[m], c)
       /\ m = "mp-palm-detection" => Len(bbox.props[m].anchors) >= c.rows
       /\ m = "mobilenet-ssd" => \A k \in 1..4 : Len(bbox.props[m].priors[k]) >= c.rows
       /\ bbox' = [bbox EXCEPT !.dec[d].agreed = TRUE,
                     !.props[m].max_detection = IF m = "ov-person-detection" THEN @ ELSE max,
                     !.status = IF m = "yolov5" /\ c.type # "float32" THEN "aborted" ELSE @]

-----------------------------------------------------------------------------
(* decode of the modes: the box of a row, and whether there is one.        *)

Detected(cls, x, y, w, h, prob) ==
  [class |-> cls, x |-> x, y |-> y, width |-> w, height |-> h, prob |-> prob, id |-> 0]

\* The first class with the highest score.
Best(scores) == CHOOSE i \in DOMAIN scores :
  \A j \in DOMAIN scores : scores[j] < scores[i] \/ (scores[j] = scores[i] /\ i <= j)

\* A centre and a size, of a picture of w pixels, with its corner kept inside.
Centred(cls, r, n, w, prob) ==
  Detected(cls, Greater(0, Cut((2 * r.box[1] - r.box[3]) * w, 2 * n)),
           Greater(0, Cut((2 * r.box[2] - r.box[4]) * w, 2 * n)),
           Cut(r.box[3] * w, n), Cut(r.box[4] * w, n), prob)

Yolo(p, r, prob) ==
  LET n == IF p.scaled THEN p.i_width ELSE BbUnit
      b == Centred(Best(r.scores) - 1, r, n, p.i_width, prob)
  IN IF prob > p.threshold
     THEN <<[b EXCEPT !.width = Less(p.i_width, @), !.height = Less(p.i_width, @)]>>
     ELSE << >>

\* The rows are sorted: the first below the threshold ends the frame.
YoloV10(p, rows) ==
  LET low == {k \in DOMAIN rows : rows[k].conf < p.threshold}
      last == IF low = {} THEN Len(rows) ELSE Min(low) - 1
      box(r) == Detected(r.class, Greater(0, Cut(r.box[1] * p.i_width, BbUnit)),
                         Greater(0, Cut(r.box[2] * p.i_width, BbUnit)),
                         Less(p.i_width, Cut((r.box[3] - r.box[1]) * p.i_width, BbUnit)),
                         Less(p.i_width, Cut((r.box[4] - r.box[2]) * p.i_width, BbUnit)), r.conf)
  IN SelectSeq([k \in 1..last |-> box(rows[k])], LAMBDA b : b.class < p.total_labels)

\* A row relative to a prior box or an anchor.
Placed(r, a) ==
  [r EXCEPT !.box = <<r.box[1] * a[3] + a[1], r.box[2] * a[4] + a[2], r.box[3] * a[3],
                      r.box[4] * a[4]>>]

\* The lines are y, x, height and width.
PriorOf(p, k) == <<p.priors[2][k], p.priors[1][k], p.priors[4][k], p.priors[3][k]>>

\* highscore is never raised: of the classes (but the first) over the
\* threshold the last one counts, not the most likely.
MobilenetSSD(p, r, k) ==
  LET over == {c \in DOMAIN r.scores : c > 1 /\ r.scores[c] >= p.threshold}
      c == Max(over)
  IN IF over = {} THEN << >>
     ELSE <<Centred(c - 1, Placed(r, PriorOf(p, k)), BbUnit, p.i_width, r.scores[c])>>

MpPalm(p, r, k) ==
  IF r.conf < p.threshold THEN << >>
  ELSE <<Centred(0, Placed(r, p.anchors[k]), BbUnit, p.i_width, r.conf)>>

\* A box from two corners; the post-processed mode keeps them in 0..1.
Cornered(p, cls, b, prob) ==
  Detected(cls, Cut(b[1] * p.i_width, BbUnit), Cut(b[2] * p.i_width, BbUnit),
           Cut((b[3] - b[1]) * p.i_width, BbUnit), Cut((b[4] - b[2]) * p.i_width, BbUnit), prob)
MobilenetSSDPP(p, r) ==
  LET in(v) == Less(Greater(v, 0), BbUnit)
  IN IF r.conf < p.threshold THEN << >>
     ELSE <<Cornered(p, r.class, [i \in 1..4 |-> in(r.box[i])], r.conf)>>
OVDetection(p, rows) ==
  LET bad == {k \in DOMAIN rows : rows[k].class < 0}
      last == IF bad = {} THEN Len(rows) ELSE Min(bad) - 1
  IN FlattenSeq([k \in 1..last |->
       IF rows[k].conf < p.threshold THEN << >> ELSE <<Cornered(p, -1, rows[k].box, 1)>>])

YoloV5(p, r) == Yolo(p, r, r.conf * r.scores[Best(r.scores)])
YoloV8(p, r) == Yolo(p, r, r.scores[Best(r.scores)])

Objects(m, p, rows) ==
  LET each(Row(_)) == FlattenSeq([k \in DOMAIN rows |-> Row(k)])
  IN CASE m = "yolov5" -> each(LAMBDA k : YoloV5(p, rows[k]))
       [] m = "yolov8" -> each(LAMBDA k : YoloV8(p, rows[k]))
       [] m = "yolov10" -> YoloV10(p, rows)
       [] m = "mobilenet-ssd" -> each(LAMBDA k : MobilenetSSD(p, rows[k], k))
       [] m = "mobilenet-ssd-postprocess" -> each(LAMBDA k : MobilenetSSDPP(p, rows[k]))
       [] m = "ov-person-detection" -> OVDetection(p, rows)
       [] m = "mp-palm-detection" -> each(LAMBDA k : MpPalm(p, rows[k], k))

\* These modes leave overlapping boxes to the model.
NoNms == {"yolov10", "mobilenet-ssd-postprocess", "ov-person-detection"}

-----------------------------------------------------------------------------
(* nms: of boxes that overlap the most likely stays.                       *)

\* iou (a, b) > threshold.  The corners count as inside for the common
\* part and not for the areas; a negative or undefined quotient is zero.
Overlaps(a, b) ==
  LET span(p, q, n, k) == Greater(0, Less(p + n, q + k) - Greater(p, q) + 1)
      inter == span(a.x, b.x, a.width, b.width) * span(a.y, b.y, a.height, b.height)
      union == a.width * a.height + b.width * b.height - inter
  IN \/ union > 0 /\ inter * BbIou[2] > BbIou[1] * union
     \/ union = 0 /\ inter > 0

\* g_array_sort is stable.
SortBy(s, Before(_, _)) ==
  LET insert(t, e) ==
        LET k == Cardinality({i \in DOMAIN t : ~Before(e, t[i])})
        IN SubSeq(t, 1, k) \o <<e>> \o SubSeq(t, k + 1, Len(t))
  IN FoldLeft(insert, << >>, s)

Nms(s) ==
  LET sorted == SortBy(s, LAMBDA a, b : a.prob > b.prob)
      keep(t, b) == IF \E i \in DOMAIN t : Overlaps(t[i], b) THEN t ELSE Append(t, b)
  IN FoldLeft(keep, << >>, sorted)

-----------------------------------------------------------------------------
(* updateCentroids: boxes get the number of the nearest centroid.          *)

CentreOf(b) == [cx |-> b.x + b.width \div 2, cy |-> b.y + b.height \div 2]
Square(n) == n * n
Distance(c, b) == Square(c.cx - CentreOf(b).cx) + Square(c.cy - CentreOf(b).cy)

\* The distance of centroid i and box j is stored at i * centroids + j,
\* not i * boxes + j: a later centroid overwrites, and entries nobody
\* writes keep what the sorted array of the frame before had there, or
\* zeros.  What falls behind the end is not seen.
Distances(old, cs, bs) ==
  LET at(k) == {i \in 0..Len(cs) - 1 : k - i * Len(cs) \in 0..Len(bs) - 1}
      entry(k) ==
        LET i == Max(at(k))
            j == k - i * Len(cs)
        IN [c |-> i + 1, b |-> j + 1, d |-> Distance(cs[i + 1], bs[j + 1])]
  IN [k \in 1..Len(cs) * Len(bs) |->
        IF at(k - 1) # {} THEN entry(k - 1)
        ELSE IF k <= Len(old) THEN old[k] ELSE [c |-> 1, b |-> 1, d |-> 0]]

\* One pair, nearest first.  An entry from an earlier frame may name a
\* centroid that is gone (its place was cleared: number 0) or a box behind
\* the last, where ghost says whether the memory reads as unassigned.
Match(st, e, ghost) ==
  IF \/ e.c > Len(st.cs) \/ (e.b <= Len(st.bs) /\ st.bs[e.b].id # 0)
     \/ (e.b > Len(st.bs) /\ ~ghost) \/ (e.c <= Len(st.cs) /\ st.cs[e.c].box # 0)
  THEN st
  ELSE [cs |-> [st.cs EXCEPT ![e.c].box = e.b, ![e.c].missing = 0],
        bs |-> IF e.b > Len(st.bs) THEN st.bs ELSE [st.bs EXCEPT ![e.b].id = st.cs[e.c].id]]

\* Every box without a number starts a centroid.
Enrol(dec, cs, bs) ==
  LET new == SelectSeq([i \in DOMAIN bs |-> i], LAMBDA i : bs[i].id = 0)
      nth(i) == Len(SelectSeq(new, LAMBDA j : j <= i))
      born == [k \in DOMAIN new |->
                 [id |-> dec.lastId + k, missing |-> 0, box |-> new[k],
                  cx |-> CentreOf(bs[new[k]]).cx, cy |-> CentreOf(bs[new[k]]).cy]]
  IN [dec EXCEPT !.centroids = cs \o born, !.lastId = @ + Len(new),
        !.boxes = [i \in DOMAIN bs |->
                     IF bs[i].id = 0 THEN [bs[i] EXCEPT !.id = dec.lastId + nth(i)] ELSE bs[i]]]

\* A matched centroid stays where it first was.
UpdateCentroids(dec, bs, ghost) ==
  LET kept == SelectSeq(dec.centroids, LAMBDA c : c.missing < DisappearLimit)
      missed(cs) == [i \in DOMAIN cs |-> IF cs[i].box = 0 THEN [cs[i] EXCEPT !.missing = @ + 1]
                                         ELSE cs[i]]
      free == [i \in DOMAIN kept |-> [kept[i] EXCEPT !.box = 0]]
      ds == SortBy(Distances(dec.distances, kept, bs), LAMBDA a, b : a.d < b.d)
      matched == FoldLeft(LAMBDA st, e : Match(st, e, ghost), [cs |-> free, bs |-> bs], ds)
  IN CASE Len(bs) > MaxCentroids -> [dec EXCEPT !.boxes = bs]
       [] Len(bs) <= MaxCentroids /\ Len(kept) > MaxCentroids ->
            [dec EXCEPT !.centroids = kept, !.boxes = bs]
       [] Len(kept) <= MaxCentroids /\ bs = << >> ->
            [dec EXCEPT !.centroids = [i \in DOMAIN kept |-> [kept[i] EXCEPT !.missing = @ + 1]],
                        !.boxes = bs]
       [] Len(kept) \in 1..MaxCentroids /\ Len(bs) \in 1..MaxCentroids ->
            Enrol([dec EXCEPT !.distances = ds], missed(matched.cs), matched.bs)
       [] kept = << >> /\ Len(bs) \in 1..MaxCentroids -> Enrol(dec, << >>, bs)

\* decode; the number of the boxes a palm detection gives is not set, it is
\* not used with tracking here.
BbDecode(d) ==
  \E rows \in BbFrames, ghost \in BOOLEAN :
    LET dec == bbox.dec[d]
        found == Objects(dec.mode, bbox.props[dec.mode], rows)
        boxes == IF dec.mode \in NoNms THEN found ELSE Nms(found)
        seen == [dec EXCEPT !.frames = @ + 1, !.found = found]
    IN /\ Runs(d) /\ dec.agreed /\ dec.frames < BbMaxFrames
       /\ Len(rows) <= bbox.props[dec.mode].max_detection \/ dec.mode = "ov-person-detection"
       /\ ghost => dec.track
       /\ bbox' = [bbox EXCEPT !.dec[d] =
                     IF dec.track THEN UpdateCentroids(seen, boxes, ghost)
                     ELSE [seen EXCEPT !.boxes = boxes]]

BbNext ==
  \E d \in BbDecoders :
    \/ BbNew(d) \/ BbExit(d) \/ SetBoxDecodingMode(d) \/ SetLabelPath(d)
    \/ SetInputModelSize(d) \/ SetTrack(d) \/ YoloOption(d) \/ YoloV10Option(d)
    \/ MobilenetSSDOption(d) \/ MobilenetSSDPPOption(d) \/ MpPalmOption(d)
    \/ GetOutCaps(d) \/ BbDecode(d)

-----------------------------------------------------------------------------
(* draw: the pixels a box and its label write.                             *)

Edges(p, b) ==
  [x1 |-> (BbPicture[1] * b.x) \div p.i_width,
   x2 |-> Less(BbPicture[1] - 1, (BbPicture[1] * (b.x + b.width)) \div p.i_width),
   y1 |-> (BbPicture[2] * b.y) \div p.i_width,
   y2 |-> Less(BbPicture[2] - 1, (BbPicture[2] * (b.y + b.height)) \div p.i_width)]

\* The label starts a line of characters above the box and is cut where
\* the next character would not fit.
LabelPixels(e) ==
  LET top == Greater(0, e.y1 - (BbChar[2] + 1))
      starts == {e.x1 + k * (BbChar[1] + 1) : k \in 0..BbLabelLength - 1}
  IN {(top + y) * BbPicture[1] + s + x :
        s \in {s \in starts : s + BbChar[1] <= BbPicture[1]},
        y \in 0..BbChar[2] - 1, x \in 0..BbChar[1] - 1}

Draw(dec, p, b) ==
  LET e == Edges(p, b)
  IN IF dec.labels > 0 /\ b.class \notin 0..dec.labels - 1 THEN {}
     ELSE {y * BbPicture[1] + x : x \in e.x1..e.x2, y \in {e.y1, e.y2}}
          \cup {y * BbPicture[1] + x : x \in {e.x1, e.x2}, y \in e.y1 + 1..e.y2 - 1}
          \cup (IF dec.labels > 0 THEN LabelPixels(e) ELSE {})

-----------------------------------------------------------------------------
(* Properties                                                              *)

Decoding == IF bbox = Absent THEN {} ELSE {d \in BbDecoders : bbox.dec[d].mode \in BbModes}

\* nms keeps no two boxes that overlap too much, keeps the most likely of
\* those it was given, and drops a box only for one that is at least as
\* likely and that overlaps it and stays (nms, iou and compare_detection).
BoxesApart ==
  \A d \in Decoding :
    LET dec == bbox.dec[d]
        kept == {[b EXCEPT !.id = 0] : b \in ToSet(dec.boxes)}
    IN dec.mode \notin NoNms =>
         /\ \A i, j \in DOMAIN dec.boxes : i < j =>
              /\ dec.boxes[i].prob >= dec.boxes[j].prob
              /\ ~Overlaps(dec.boxes[i], dec.boxes[j])
         /\ \A b \in ToSet(dec.found) \ kept :
              \E a \in kept : a.prob >= b.prob /\ Overlaps(a, b)

\* Within a frame no two boxes have the same number, and the centroids have
\* numbers of their own, none above the last given: although the array of
\* distances is filled at wrong places and holds pairs of earlier frames,
\* two objects are never taken for one (updateCentroids).
TrackedApart ==
  \A d \in Decoding :
    LET dec == bbox.dec[d]
    IN /\ \A i, j \in DOMAIN dec.boxes :
            i # j /\ dec.boxes[i].id # 0 => dec.boxes[i].id # dec.boxes[j].id
       /\ \A i, j \in DOMAIN dec.centroids : i < j => dec.centroids[i].id < dec.centroids[j].id
       /\ \A i \in DOMAIN dec.centroids : dec.centroids[i].id \in 1..dec.lastId

\* Boxes that start inside the input picture are drawn inside the output
\* picture, their labels too (draw).  A box reaching beyond the right or
\* lower edge is cut there.
DrawnInside ==
  \A d \in Decoding :
    LET dec == bbox.dec[d]
        p == bbox.props[dec.mode]
    IN \A i \in DOMAIN dec.boxes :
         dec.boxes[i].x \in 0..p.i_width - 1 /\ dec.boxes[i].y \in 0..p.i_width - 1
           /\ dec.boxes[i].width >= 0 /\ dec.boxes[i].height >= 0
         => Draw(dec, p, dec.boxes[i]) \subseteq 0..BbPicture[1] * BbPicture[2] - 1

-----------------------------------------------------------------------------
(***************************************************************************)
(* The tensor_region sub-plugin of tensor_decoder                          *)
(* (tensordec-tensor_region.c): the best boxes of a mobilenet-ssd model as *)
(* regions for tensor_crop.  Reading the prior file, placing a box and     *)
(* dropping overlaps are the code of bounding_boxes once more, so are the  *)
(* units of rows and boxes.                                                *)
(***************************************************************************)
CONSTANTS
  RegionNums,     \* numbers of regions asked for
  RegionConfigs,  \* rows and classes of the stream
  RegionFrames    \* frames: sequences of rows

ASSUME RegionAssumption == RegionNums \subseteq Nat

VARIABLE region

\* tr_init
RegionInit ==
  region = [num |-> 1, labels |-> 0, priors |-> <<<< >>, << >>, << >>, << >>>>,
            threshold |-> Min(BbThresholds), width |-> Max(BbSizes), max |-> 0,
            agreed |-> FALSE, found |-> << >>, out |-> << >>]

\* tr_setOption
RegionSetNum ==
  \E n \in RegionNums : ~region.agreed /\ region' = [region EXCEPT !.num = n]
RegionSetLabels ==
  \E n \in BbLabels : ~region.agreed /\ region' = [region EXCEPT !.labels = n]

\* _setOption_mode: an unreadable file keeps the parameters.
RegionSetPriors ==
  \E file \in BbPriorFiles, t \in BbThresholds :
    LET load == LoadBoxPrior(region.priors, file)
    IN /\ ~region.agreed
       /\ region' = [region EXCEPT !.priors = load.priors,
                                   !.threshold = IF load.ok THEN t ELSE @]

\* A size that cannot be read leaves zeros.
RegionSetSize ==
  \E w \in BbSizes \cup {0} : ~region.agreed /\ region' = [region EXCEPT !.width = w]

\* tr_getOutCaps, with _set_max_detection, which keeps the first number of
\* rows for good.  The application gives priors for all rows, which is not
\* tested.
RegionGetOutCaps ==
  \E c \in RegionConfigs :
    /\ ~region.agreed
    /\ c.cols = 4 /\ c.rows > 0 /\ c.classes <= region.labels /\ region.max \in {0, c.rows}
    /\ \A k \in 1..4 : Len(region.priors[k]) >= c.rows
    /\ region' = [region EXCEPT !.agreed = TRUE, !.max = c.rows]

\* _get_object_i_mobilenet_ssd: the first class over the threshold counts.
RegionObject(r, k) ==
  LET over == {c \in DOMAIN r.scores : c > 1 /\ r.scores[c] >= region.threshold}
      c == Min(over)
  IN IF over = {} THEN << >>
     ELSE <<Centred(c - 1, Placed(r, PriorOf(region, k)), BbUnit, region.width, r.scores[c])>>

\* _get_objects_mobilenet_ssd
RegionObjects(rows) == FlattenSeq([k \in DOMAIN rows |-> RegionObject(rows[k], k)])

\* nms, compare_detection and iou
RegionNms(boxes) == Nms(boxes)

CropRegion(b) == <<b.x, b.y, b.width, b.height>>

\* Mutant: the boxes are cut to their number before overlaps are dropped.
CropInfo_Early(boxes) ==
  LET best == RegionNms([i \in DOMAIN boxes \cap (1..region.num) |-> boxes[i]])
  IN [i \in 1..region.num |-> IF i <= Len(best) THEN CropRegion(best[i]) ELSE <<0, 0, 0, 0>>]

\* gst_tensor_top_detectedObjects_cropInfo, into memory that was zeroed.
CropInfo(boxes) ==
  LET best == RegionNms(boxes)
  IN [i \in 1..region.num |-> IF i <= Len(best) THEN CropRegion(best[i]) ELSE <<0, 0, 0, 0>>]

\* tr_decode
RegionDecode ==
  \E rows \in RegionFrames :
    LET boxes == RegionObjects(rows)
    IN /\ region.agreed /\ region.out = << >> /\ Len(rows) <= region.max
       /\ region' = [region EXCEPT !.found = boxes, !.out = CropInfo(boxes)]

RegionNext ==
  \/ RegionSetNum \/ RegionSetLabels \/ RegionSetPriors \/ RegionSetSize
  \/ RegionGetOutCaps \/ RegionDecode

-----------------------------------------------------------------------------
(* Properties                                                              *)

\* A box that gets no region overlaps one that does and is at least as
\* likely, or all regions asked for went to boxes at least as likely
\* (tr_decode: suppression first, then the cut to the number of regions).
RegionsBest ==
  region # Absent =>
    (region.out # << >> =>
      LET given == {region.out[i] : i \in DOMAIN region.out}
          shown == {i \in DOMAIN region.found : CropRegion(region.found[i]) \in given}
          atLeast(b) == {i \in shown : region.found[i].prob >= b.prob}
      IN \A j \in DOMAIN region.found \ shown :
           LET b == region.found[j]
           IN \/ \E i \in atLeast(b) : Overlaps(region.found[i], b)
              \/ \A r \in given : \E i \in atLeast(b) : CropRegion(region.found[i]) = r)

\* Over any options and frames: boxes that stay do not overlap, objects
\* tracked have numbers of their own, what is drawn is inside the picture,
\* and the regions are the best ones.
BoxesCorrect == BoxesApart /\ TrackedApart /\ DrawnInside /\ RegionsBest
=============================================================================
