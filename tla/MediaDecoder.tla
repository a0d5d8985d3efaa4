---------------------------- MODULE MediaDecoder ----------------------------
(*****************************************************************************)
(* The sub-plugins of tensor_decoder that make pictures, labels and bytes:   *)
(* image_segment, image_labeling, direct_video, octet_stream and             *)
(* pose_estimation.                                                          *)
(*****************************************************************************)
EXTENDS Integers, Sequences, FiniteSetsExt, SequencesExt, Element

-----------------------------------------------------------------------------
(***************************************************************************)
(* The image_segment sub-plugin of tensor_decoder                          *)
(* (tensordec-imagesegment.c): it colours each pixel by its label, or      *)
(* shades it by its depth.  A build for aarch64 does so SegLanes pixels at *)
(* a time, the last step reaching beyond the picture, and then does the    *)
(* pixels of that step once more one by one.                               *)
(*                                                                         *)
(* A colour is <<opaque, rgb>>; rgb is 0..SegRgb, shades are 0..SegWhite.  *)
(***************************************************************************)
CONSTANTS
  SegConfigs,   \* configurations: type and three dimensions
  SegMaxLabels, \* values of option2
  SegDefault,   \* DEFAULT_LABELS
  SegLanes,     \* pixels of a vector
  SegRgb,       \* 0xFFFFFF
  SegWhite,     \* MAX_RGB
  SegPalettes,  \* colours the generator of random numbers may give
  SegSure,      \* DETECTION_THRESHOLD
  SegProbs,     \* probabilities
  SegValues,    \* values of a pixel of a labelled or of a depth picture
  SegGarbage    \* what may lie in memory behind a picture

ASSUME SegAssumption ==
  /\ SegLanes \in Nat \ {0} /\ SegRgb \in Nat /\ SegWhite \in Nat /\ SegSure \in Nat
  /\ SegDefault \in Nat \ {0} /\ SegMaxLabels \subseteq Nat \ {0} /\ SegProbs \subseteq Nat
  /\ SegValues \subseteq Nat /\ SegGarbage \subseteq Nat

VARIABLE seg

\* is_init
SegInit ==
  \E neon \in BOOLEAN :
    seg = [neon |-> neon, mode |-> "unknown", max_labels |-> SegDefault, size |-> 0,
           color_map |-> << >>, rgb_modifier |-> 0, config |-> << >>,
           labels |-> << >>, out |-> << >>]

\* is_setOption
SegSetMode ==
  \E m \in {"tflite-deeplab", "snpe-deeplab", "snpe-depth"} :
    seg.config = << >> /\ seg' = [seg EXCEPT !.mode = m]
SegSetLabels ==
  \E n \in SegMaxLabels : seg.config = << >> /\ seg' = [seg EXCEPT !.max_labels = n]

\* is_getOutCaps, once per stream: the maps keep the size they first have.
SegGetOutCaps ==
  \E c \in SegConfigs :
    LET at == IF seg.mode = "snpe-deeplab" THEN 1 ELSE 2
    IN /\ seg.config = << >>
       /\ seg' = [seg EXCEPT !.config = <<c>>, !.size = c.dim[at] * c.dim[at + 1]]

\* _fill_color_map: entry 1 is the background
FillColorMap(n, palette) ==
  IF seg.neon THEN [i \in 1..n + 1 |-> <<i > 1, (SegRgb \div (n + 1)) * (i - 1)>>]
  ELSE [i \in 1..n + 1 |-> IF i = 1 THEN <<FALSE, 0>> ELSE <<TRUE, palette[i - 1]>>]

\* _init_modes
InitModes(palette) ==
  IF seg.mode = "snpe-depth" \/ seg.color_map # << >> THEN seg
  ELSE [seg EXCEPT !.color_map = FillColorMap(seg.max_labels, palette),
                   !.rgb_modifier = SegRgb \div (seg.max_labels + 1)]

\* check_sanity
CheckSanity ==
  /\ seg.config[1].type = "float32"
  /\ seg.mode = "tflite-deeplab" => seg.config[1].dim[1] = seg.max_labels + 1
  /\ seg.mode = "snpe-depth" => seg.config[1].dim[1] = 1

\* set_label_index, of a pixel: the first of the most likely labels, if
\* it is likely enough
LabelIndex(probs) ==
  LET best == CHOOSE i \in DOMAIN probs :
                \A j \in DOMAIN probs : probs[j] < probs[i] \/ (probs[j] = probs[i] /\ i <= j)
  IN IF probs[best] > SegSure THEN best - 1 ELSE 0

\* The pixels done one by one: all, or those of the last vector.
OneByOne(size) ==
  IF ~seg.neon THEN 1..size
  ELSE IF size % SegLanes = 0 THEN {} ELSE (size \div SegLanes) * SegLanes + 1..size

\* set_color_according_to_label: the buffer was cleared; a label beyond the
\* last is left out, but not by the vectors.
ColorByLabel(s, labels) ==
  LET vector(l) == <<l * s.rgb_modifier > 0, l * s.rgb_modifier>>
      before == IF s.neon THEN [k \in DOMAIN labels |-> vector(labels[k])]
                ELSE [k \in DOMAIN labels |-> <<FALSE, 0>>]
  IN [k \in DOMAIN labels |->
        IF k \in OneByOne(Len(labels)) /\ labels[k] <= s.max_labels
        THEN s.color_map[labels[k] + 1] ELSE before[k]]

\* find_max_grayscale; the last vector looks at what is behind the picture.
FindMaxGrayscale(values, behind) ==
  Max({0} \cup ToSet(values)
        \cup (IF seg.neon /\ Len(values) % SegLanes # 0 THEN {behind} ELSE {}))

\* set_color_grayscale
ColorGrayscale(values, behind) ==
  LET max == FindMaxGrayscale(values, behind)
  IN IF max = 0 THEN [k \in DOMAIN values |-> <<FALSE, 0>>]
     ELSE [k \in DOMAIN values |-> <<TRUE, (values[k] * SegWhite) \div max>>]

\* is_decode; a stream that is not sane ends in an error and shows nothing.
SegDecode ==
  \E palette \in SegPalettes, behind \in SegGarbage :
    LET s == InitModes(palette)
    IN /\ seg.config # << >> /\ seg.mode # "unknown" /\ seg.out = << >> /\ CheckSanity
       /\ \/ /\ seg.mode = "tflite-deeplab"
             /\ \E probs \in [1..seg.size -> [1..seg.max_labels + 1 -> SegProbs]] :
                  LET labels == [k \in 1..seg.size |-> LabelIndex(probs[k])]
                  IN seg' = [s EXCEPT !.labels = labels, !.out = ColorByLabel(s, labels)]
          \/ /\ seg.mode = "snpe-deeplab"
             /\ \E labels \in [1..seg.size -> SegValues] :
                  seg' = [s EXCEPT !.labels = labels, !.out = ColorByLabel(s, labels)]
          \/ /\ seg.mode = "snpe-depth"
             /\ \E values \in [1..seg.size -> SegValues] :
                  seg' = [s EXCEPT !.labels = values, !.out = ColorGrayscale(values, behind)]

SegNext == SegSetMode \/ SegSetLabels \/ SegGetOutCaps \/ SegDecode

-----------------------------------------------------------------------------
(* Properties                                                              *)

SegShown == IF seg = Absent THEN {} ELSE IF seg.out = << >> THEN {} ELSE DOMAIN seg.out

\* Every pixel with a label has the colour of its label, the background
\* none, whether a vector or the loop behind it did the pixel ("colors
\* should be the same with neon calculations": _fill_color_map and
\* set_color_according_to_label).
LabelColoured ==
  \A k \in SegShown :
    seg.mode # "snpe-depth" /\ seg.labels[k] <= seg.max_labels =>
      /\ seg.out[k] = seg.color_map[seg.labels[k] + 1]
      /\ seg.out[k][1] <=> seg.labels[k] > 0

\* Of a depth picture that fills whole vectors, or without vectors, the
\* farthest pixel is white and no other is brighter, unless all are zero
\* (find_max_grayscale and set_color_grayscale).  With a part of a vector
\* left over, what lies behind the picture may count as its maximum.
DepthScaled ==
  SegShown # {} /\ seg.mode = "snpe-depth" =>
    /\ \A k \in SegShown : seg.out[k][2] \in 0..SegWhite
    /\ OneByOne(Len(seg.out)) \in {{}, DOMAIN seg.out} =>
         \/ \A k \in SegShown : seg.labels[k] = 0
         \/ \E k \in SegShown : seg.out[k] = <<TRUE, SegWhite>>

-----------------------------------------------------------------------------
(***************************************************************************)
(* Three sub-plugins of tensor_decoder: image_labeling, direct_video and   *)
(* octet_stream (tensordec-imagelabel.c, tensordec-directvideo.c,          *)
(* tensordec-octetstream.c), with the label files of tensordecutil.c.      *)
(*                                                                         *)
(* A byte of a video or octet tensor is the tuple that tells where it      *)
(* belongs; a label is a model value, NoLabel an empty line.               *)
(***************************************************************************)
CONSTANTS
  LabelFiles,   \* label files: sequences of labels
  NoLabel,      \* an empty line of such a file
  LabelScores,  \* scores of a tensor of image_labeling
  LabelDims,    \* dimensions offered to image_labeling
  VideoDims,    \* <<channels, width, height>>
  VideoFormats, \* formats of option1, with their channels and bytes
  VideoTypes,   \* bytes of the types of the tensor
  OctetSizes,   \* sizes of the tensors of octet_stream
  OctetHeader   \* size of the header of a flexible tensor

ASSUME MediaAssumption ==
  /\ LabelScores \subseteq Nat /\ OctetSizes \subseteq Nat \ {0} /\ OctetHeader \in Nat
  /\ VideoTypes \subseteq {1, 2, 4}

VARIABLE mdec

MediaInit ==
  \/ mdec = [kind |-> "label", file |-> << >>, agreed |-> FALSE, count |-> 0,
             scores |-> << >>, result |-> "none"]
  \/ mdec = [kind |-> "video", format |-> << >>, config |-> << >>, out |-> << >>,
             size |-> 0]
  \/ \E flexible \in BOOLEAN :
       mdec = [kind |-> "octet", flexible |-> flexible, data |-> << >>, out |-> << >>]

\* loadImageLabels, called for option1 (il_setOption): the labels before
\* are dropped first, and an unreadable file leaves none.
LoadImageLabels ==
  \E file \in LabelFiles \cup {<< >>} :
    mdec.kind = "label" /\ mdec.result = "none" /\ mdec' = [mdec EXCEPT !.file = file]

\* il_getOutCaps
LabelGetOutCaps ==
  \E dim \in LabelDims :
    /\ mdec.kind = "label" /\ ~mdec.agreed /\ dim[1] > 0 /\ dim[2] = 1
    /\ \A i \in 3..Len(dim) : dim[i] = 0
    /\ mdec' = [mdec EXCEPT !.agreed = TRUE, !.count = dim[1]]

\* search_max
SearchMax(scores) ==
  FoldLeft(LAMBDA m, i : IF scores[i] > scores[m] THEN i ELSE m, 1, [i \in DOMAIN scores |-> i])

\* il_decode: too few labels is an assertion, an empty one an error.
LabelDecode ==
  /\ mdec.kind = "label"
  /\ mdec.agreed /\ mdec.result = "none"
  /\ \E scores \in [1..mdec.count -> LabelScores] :
       LET at == SearchMax(scores)
       IN mdec' = [mdec EXCEPT !.result =
            IF at > Len(mdec.file) THEN "aborted"
            ELSE IF mdec.file[at] = NoLabel THEN "error" ELSE mdec.file[at],
                              !.scores = scores]

-----------------------------------------------------------------------------
(* direct_video                                                            *)

\* dv_setOption
VideoSetOption ==
  \E f \in VideoFormats :
    mdec.kind = "video" /\ mdec.config = << >> /\ mdec' = [mdec EXCEPT !.format = <<f>>]

\* The bytes of an element of the format: a format for another number of
\* channels gives way to a default one.
ElementSize(channels) ==
  IF mdec.format # << >> /\ mdec.format[1].channels = channels
  THEN mdec.format[1].bytes ELSE 1

\* dv_getOutCaps
VideoGetOutCaps ==
  \E dim \in VideoDims, bytes \in VideoTypes :
    /\ mdec.kind = "video" /\ mdec.config = << >>
    /\ dim[1] \in {1, 3, 4} /\ bytes = ElementSize(dim[1])
    /\ mdec' = [mdec EXCEPT !.config = <<[dim |-> dim, bytes |-> bytes]>>]

Padded(n) == ((n - 1) \div 4 + 1) * 4
\* _get_video_xraw_bufsize
VideoSize(c) == Padded(c.dim[1] * c.dim[2]) * c.dim[3] * c.bytes

\* The tensor: its rows one after the other.
VideoInput(c) ==
  LET row == c.dim[1] * c.dim[2] * c.bytes
  IN [k \in 1..row * c.dim[3] |-> <<(k - 1) \div row, (k - 1) % row>>]

\* Byte p of the output in the padded copy: dim[1] * dim[2] bytes of a row,
\* which is a whole row only for elements of one byte.
RowBytes(c, p) ==
  LET line == c.dim[1] * c.dim[2]
      h == (p - 1) \div Padded(line)
      x == (p - 1) % Padded(line)
  IN IF h < c.dim[3] /\ x < line THEN VideoInput(c)[h * line + x + 1] ELSE <<"free">>

\* dv_decode
VideoDecode ==
  LET c == mdec.config[1]
      line == c.dim[1] * c.dim[2]
      input == VideoInput(c)
  IN /\ mdec.kind = "video"
     /\ mdec.config # << >> /\ mdec.out = << >>
     /\ mdec' = [mdec EXCEPT !.size = VideoSize(c),
          !.out = [p \in 1..VideoSize(c) |->
                     IF line % 4 = 0 THEN (IF p <= Len(input) THEN input[p] ELSE <<"free">>)
                     ELSE RowBytes(c, p)]]

-----------------------------------------------------------------------------
(* octet_stream                                                            *)

\* os_decode: the data of each tensor, of a flexible one what is behind its
\* header, in memories of their own.
OctetDecode ==
  \E sizes \in [1..2 -> OctetSizes] :
    LET data(i) == [k \in 1..sizes[i] |-> <<i, k>>]
        input(i) == (IF mdec.flexible THEN [k \in 1..OctetHeader |-> <<"header", k>>] ELSE << >>)
                      \o data(i)
        offset == IF mdec.flexible THEN OctetHeader ELSE 0
    IN /\ mdec.kind = "octet"
       /\ mdec.out = << >>
       /\ mdec' = [mdec EXCEPT !.data = data(1) \o data(2),
            !.out = [i \in 1..2 |-> SubSeq(input(i), offset + 1, offset + sizes[i])]]

MediaNext ==
  \/ LoadImageLabels \/ LabelGetOutCaps \/ LabelDecode
  \/ VideoSetOption \/ VideoGetOutCaps \/ VideoDecode \/ OctetDecode

-----------------------------------------------------------------------------
(* Properties                                                              *)

\* The text given for a tensor is the label of an element that no other
\* exceeds, the first of them, read from the file set last; the decoder
\* gives up only if that file has no label there (il_decode, search_max and
\* loadImageLabels).
LabelMost ==
  mdec # Absent =>
    (mdec.kind = "label" =>
      (mdec.result # "none" =>
        \E i \in DOMAIN mdec.scores :
          /\ \A j \in DOMAIN mdec.scores : mdec.scores[j] <= mdec.scores[i]
          /\ \A j \in 1..i - 1 : mdec.scores[j] < mdec.scores[i]
          /\ mdec.result = IF i > Len(mdec.file) THEN "aborted"
                           ELSE IF mdec.file[i] = NoLabel THEN "error" ELSE mdec.file[i]))

\* In the video each row of the tensor starts at a multiple of four bytes
\* and is whole (dv_decode).  Only of elements of one byte: for GRAY16 rows
\* that are padded come out cut in half.
VideoRows ==
  mdec # Absent =>
    (mdec.kind = "video" =>
      (mdec.out # << >> =>
        LET c == mdec.config[1]
            row == c.dim[1] * c.dim[2] * c.bytes
            stride == Padded(row)
        IN (c.bytes = 1 \/ (row \div c.bytes) % 4 = 0) =>
             /\ mdec.size = stride * c.dim[3]
             /\ \A h \in 0..c.dim[3] - 1, x \in 0..row - 1 :
                  mdec.out[h * stride + x + 1] = <<h, x>>))

-----------------------------------------------------------------------------
(***************************************************************************)
(* The pose_estimation sub-plugin of tensor_decoder (tensordec-pose.c): it *)
(* looks for the hottest cell of each body point in a heat map and draws   *)
(* the limbs between them.                                                 *)
(*                                                                         *)
(* metadata is the sequence of body points, each with the points it is     *)
(* connected to; points count from 1.  Heats are natural numbers, PoseSure *)
(* stands for 0.5.                                                         *)
(***************************************************************************)
CONSTANTS
  PoseDefault,   \* pose_metadata_default
  PoseFiles,     \* metadata files
  PoseMaxLinks,  \* POSE_MD_MAX_CONNECTIONS_SZ
  PoseOutputs,   \* sizes of the output, <<width, height>>
  PoseInputs,    \* sizes of the input
  PoseConfigs,   \* configurations: points, width and height of the grid
  PoseHeats,     \* heat maps: from a cell to its heat
  PoseOffsets,   \* offsets <<x, y>>
  PoseSure,      \* the heat from which on a point counts
  PoseDot,       \* offsets of the pixels of a dot
  PoseChar,      \* width and height of a character
  PoseLabelLen   \* characters of a label

ASSUME PoseAssumption ==
  /\ PoseMaxLinks \in Nat \ {0} /\ PoseSure \in Nat \ {0} /\ PoseChar \in Nat \X Nat
  /\ PoseOutputs \subseteq Nat \X Nat /\ PoseInputs \subseteq (Nat \ {0}) \X (Nat \ {0})

VARIABLE pose

LOCAL Greater(x, y) == IF x > y THEN x ELSE y
LOCAL Less(x, y) == IF x < y THEN x ELSE y
LOCAL Cut(n, d) == IF n >= 0 THEN n \div d ELSE -((-n) \div d)
LOCAL Abs(n) == IF n < 0 THEN -n ELSE n

\* pose_init
PoseInit ==
  pose = [metadata |-> PoseDefault, mode |-> "heatmap-only", out |-> <<0, 0>>, in |-> <<0, 0>>,
          config |-> << >>, points |-> << >>]

PoseSetSize(field) ==
  \E size \in IF field = "out" THEN PoseOutputs ELSE PoseInputs :
    pose.config = << >> /\ pose' = [pose EXCEPT ![field] = size]

\* pose_load_metadata_from_file: of a line with too many words the first
\* PoseMaxLinks count, one of them the name.
LoadMetadata ==
  \E file \in PoseFiles :
    /\ pose.config = << >>
    /\ pose' = [pose EXCEPT !.metadata =
                  [i \in DOMAIN file |-> SubSeq(file[i], 1, Less(Len(file[i]), PoseMaxLinks - 1))]]

\* pose_setOption, of the mode
PoseSetMode == pose.config = << >> /\ pose' = [pose EXCEPT !.mode = "heatmap-offset"]

\* pose_getOutCaps
PoseGetOutCaps ==
  \E c \in PoseConfigs :
    /\ pose.config = << >> /\ pose.out # <<0, 0>> /\ pose.in # <<0, 0>>
    /\ c.sametype /\ c.points = Len(pose.metadata)
    /\ pose.mode = "heatmap-offset" => c.offsets = 2 * Len(pose.metadata)
    /\ pose' = [pose EXCEPT !.config = <<c>>]

\* The first of the hottest cells, line by line; the first cell of all if
\* there is no heat.
Hottest(heat, c) ==
  LET hot == {p \in (1..c.w) \X (1..c.h) : \A q \in (1..c.w) \X (1..c.h) : heat[q] <= heat[p]}
  IN CHOOSE p \in hot : \A q \in hot : p[2] < q[2] \/ (p[2] = q[2] /\ p[1] <= q[1])

\* Where a point is on the output, of one coordinate: the cell (from 0),
\* the cells, the offset, the size of the input and of the output.  With an
\* offset and a single cell the quotient is not a number, and becomes 0.
Position(mode, cell, cells, offset, in, out) ==
  LET at == IF mode = "heatmap-only" THEN (cell * out) \div in
            ELSE IF cells = 1 THEN 0
            ELSE Cut((cell * in + offset * (cells - 1)) * out, (cells - 1) * in)
  IN Less(out, Greater(0, at))

PointOf(heat, offset) ==
  LET c == pose.config[1]
      p == Hottest(heat, c)
  IN [valid |-> heat[p] >= PoseSure,
      x |-> Position(pose.mode, p[1] - 1, c.w, offset[1], pose.in[1], pose.out[1]),
      y |-> Position(pose.mode, p[2] - 1, c.h, offset[2], pose.in[2], pose.out[2])]

\* pose_decode; draw marks the points below 0.5 as not valid.  Nothing is
\* kept of a frame: one is enough.
PoseDecode ==
  \E heats \in [DOMAIN pose.metadata -> PoseHeats] : \E offset \in PoseOffsets :
    /\ pose.config # << >> /\ pose.points = << >>
    /\ pose.mode = "heatmap-only" => offset = <<0, 0>>
    /\ pose' = [pose EXCEPT !.points = [i \in DOMAIN heats |-> PointOf(heats[i], offset)]]

PoseNext ==
  \/ PoseSetSize("out") \/ PoseSetSize("in") \/ LoadMetadata \/ PoseSetMode \/ PoseGetOutCaps
  \/ PoseDecode

-----------------------------------------------------------------------------
(* draw                                                                    *)

\* The limbs drawn: a connection to a point before was drawn from there.
\* The metadata names only points there are (the test of k lets one more
\* pass).
Limbs ==
  FlattenSeq([i \in DOMAIN pose.points |->
    IF ~pose.points[i].valid THEN << >>
    ELSE SelectSeq([j \in DOMAIN pose.metadata[i] |-> <<i, pose.metadata[i][j]>>],
                   LAMBDA l : /\ l[2] >= i /\ l[2] <= Len(pose.points)
                              /\ pose.points[l[2]].valid)])

\* Mutant: the error is updated before it is compared the second time.
LineStep_Late(s, xe, ye, dx, dy, sx, sy) ==
  LET err == s.err - (IF s.err > -dx THEN dy ELSE 0)
  IN IF s.x = xe /\ s.y = ye THEN s
     ELSE [x |-> IF s.err > -dx THEN s.x + sx ELSE s.x,
           y |-> IF err < dy THEN s.y + sy ELSE s.y,
           err |-> err + (IF err < dy THEN dx ELSE 0),
           seen |-> Append(s.seen, <<s.x, s.y>>)]

\* One step of draw_line_with_dot towards <<xe, ye>>.
LineStep(s, xe, ye, dx, dy, sx, sy) ==
  IF s.x = xe /\ s.y = ye THEN s
  ELSE [x |-> IF s.err > -dx THEN s.x + sx ELSE s.x,
        y |-> IF s.err < dy THEN s.y + sy ELSE s.y,
        err |-> s.err - (IF s.err > -dx THEN dy ELSE 0) + (IF s.err < dy THEN dx ELSE 0),
        seen |-> Append(s.seen, <<s.x, s.y>>)]

\* The pixels of a line, from its left end; no more steps are followed than
\* both sides have, that those are enough is a property.
Line(a, b) ==
  LET from == IF a.x > b.x THEN b ELSE a
      to == IF a.x > b.x THEN a ELSE b
      dx == Abs(to.x - from.x)
      dy == Abs(to.y - from.y)
      sx == IF from.x < to.x THEN 1 ELSE -1
      sy == IF from.y < to.y THEN 1 ELSE -1
      start == [x |-> from.x, y |-> from.y, seen |-> << >>,
                err |-> IF dx > dy THEN dx \div 2 ELSE -(dy \div 2)]
      end == FoldLeft(LAMBDA s, k : LineStep(s, to.x, to.y, dx, dy, sx, sy), start,
                      [k \in 1..dx + dy + 1 |-> k])
  IN Append(end.seen, <<end.x, end.y>>)

Within(p) == p[1] \in 0..pose.out[1] - 1 /\ p[2] \in 0..pose.out[2] - 1
At(p) == p[2] * pose.out[1] + p[1]

\* setpixel: a pixel, and the ones right of it and below where they are.
SetPixel(p) ==
  IF Within(p) THEN {q \in {p, <<p[1] + 1, p[2]>>, <<p[1], p[2] + 1>>} : Within(q)} ELSE {}

Dot(p) == {q \in {<<p.x + o[1], p.y + o[2]>> : o \in PoseDot} : Within(q)}

\* draw_label, of a point
PoseLabel(p) ==
  LET top == Greater(0, p.y - (PoseChar[2] + 1))
      starts == {p.x + k * (PoseChar[1] + 1) : k \in 0..PoseLabelLen - 1}
  IN {<<s + x, top + y>> : s \in {s \in starts : s + PoseChar[1] <= pose.out[1]},
                           x \in 0..PoseChar[1] - 1, y \in 0..PoseChar[2] - 1}

PoseDraw ==
  LET limb(l) == UNION {SetPixel(p) : p \in ToSet(Line(pose.points[l[1]], pose.points[l[2]]))}
                   \cup Dot(pose.points[l[1]]) \cup Dot(pose.points[l[2]])
  IN {At(p) : p \in UNION {limb(l) : l \in ToSet(Limbs)}
                    \cup UNION {PoseLabel(pose.points[i]) :
                                  i \in {i \in DOMAIN pose.points : pose.points[i].valid}}}

-----------------------------------------------------------------------------
(* Properties                                                              *)

\* What is drawn lies in the frame although points may lie on its right and
\* lower edge, one beyond the last pixel (pose_decode clips to width and
\* height, draw_line_with_dot and setpixel to the frame).
PoseInside ==
  pose # Absent =>
    (pose.points # << >> => PoseDraw \subseteq 0..pose.out[1] * pose.out[2] - 1)

\* If the metadata names each connection at both its ends, every connection
\* between two points found is drawn, and drawn once (draw).
LimbsOnce ==
  pose # Absent /\ pose.points # << >> =>
    LET linked(i, k) == \E j \in DOMAIN pose.metadata[i] : pose.metadata[i][j] = k
        n == 1..Len(pose.points)
        limbs == Limbs
    IN (\A i, k \in n : linked(i, k) <=> linked(k, i)) =>
         \A i, k \in n : i < k =>
           Cardinality({l \in DOMAIN limbs : {limbs[l][1], limbs[l][2]} = {i, k}})
             = (IF linked(i, k) /\ pose.points[i].valid /\ pose.points[k].valid THEN 1 ELSE 0)

\* A line ends where it should, after as many steps as its longer side, and
\* each step goes to a neighbour (draw_line_with_dot).
LinesEnd ==
  pose # Absent /\ pose.points # << >> =>
    \A l \in ToSet(Limbs) :
      LET a == pose.points[l[1]]
          b == pose.points[l[2]]
          path == Line(a, b)
      IN /\ Len(path) = Greater(Abs(a.x - b.x), Abs(a.y - b.y)) + 1
         /\ {path[1], path[Len(path)]} = {<<a.x, a.y>>, <<b.x, b.y>>}
         /\ \A k \in 1..Len(path) - 1 :
              Abs(path[k + 1][1] - path[k][1]) <= 1 /\ Abs(path[k + 1][2] - path[k][2]) <= 1
=============================================================================
